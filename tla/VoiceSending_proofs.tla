------------------------ MODULE VoiceSending_proofs ------------------------
(***************************************************************************)
(* Theorems about a call's sending chain, and about its composition with   *)
(* the sound hardware.  Of the chain, for any number of workers, frames and*)
(* things that may happen: type correctness and the order of the frames.   *)
(* The steps of the composition are steps of both parts, so that what is   *)
(* proved of either alone holds of the two together.                       *)
(***************************************************************************)
EXTENDS MCVoiceSending, TLAPS

-----------------------------------------------------------------------------
(* The sending chain.                                                      *)

\* The strand keeps the workers apart, though each call takes several steps.
OneAtWork == \A v, w \in Workers : wpc[v] # "idle" /\ wpc[w] # "idle" => v = w

\* Sound is captured for a living chain only, and a freed one holds no frames.
CapturesForChain ==
  /\ ~chain \/ ender # NoThread => ~registered
  /\ ~chain => queue = <<>>

IInv == TypeOK /\ OneAtWork /\ CapturesForChain /\ FramesInOrder

(***************************************************************************)
(* The chain starts with nothing queued and nothing written.               *)
(***************************************************************************)
LEMMA InitialTypes == Init => TypeOK
<1> SUFFICES ASSUME Init PROVE TypeOK
  OBVIOUS
<1>1. queue \in Seq(1 .. MaxFrames)
  BY DEF Init
<1>2. wire \in Seq([frame : 0 .. MaxFrames, seq : Nat])
  BY DEF Init
<1>3. /\ wpc \in [Workers -> {"idle", "pull", "encode"}]
      /\ hand \in [Workers -> 0 .. MaxFrames]
      /\ captured \in 0 .. MaxFrames
  BY SendAssumption DEF Init
<1> QED
  BY <1>1, <1>2, <1>3 DEF Init, TypeOK

(***************************************************************************)
(* Every variable keeps its type.                                          *)
(***************************************************************************)
LEMMA TypeInvariance == TypeOK /\ [Next]_vars => TypeOK'
<1> SUFFICES ASSUME TypeOK, [Next]_vars PROVE TypeOK'
  OBVIOUS
<1> USE SendAssumption DEF TypeOK
<1>1. CASE Enable
  BY <1>1 DEF Enable, workerVars
<1>2. ASSUME NEW t \in Workers \cup {GuiThread}, BeginEnd(t) PROVE TypeOK'
  BY <1>2 DEF BeginEnd, workerVars
<1>3. CASE DestroyEncoder
  BY <1>3 DEF DestroyEncoder, workerVars
<1>4. CASE FreeChain
  <2>1. queue' = <<>> /\ <<>> \in Seq(1 .. MaxFrames)
    BY <1>4 DEF FreeChain
  <2> QED
    BY <1>4, <2>1 DEF FreeChain, workerVars
<1>5. CASE Unlink
  BY <1>5 DEF Unlink, workerVars, chainVars
<1>6. CASE Capture
  <2>1. captured + 1 \in 1 .. MaxFrames
    BY <1>6 DEF Capture
  <2>2. queue' \in Seq(1 .. MaxFrames)
    BY <1>6, <2>1 DEF Capture
  <2> QED
    BY <1>6, <2>1, <2>2 DEF Capture, chainVars, workerVars
<1>7. CASE OnReadyRead
  BY <1>7 DEF OnReadyRead, chainVars
<1>8. ASSUME NEW w \in Workers, SendPackets(w) PROVE TypeOK'
  BY <1>8 DEF SendPackets, CanRun, chainVars
<1>9. ASSUME NEW w \in Workers, PullFrame(w) PROVE TypeOK'
  <2>1. CASE queue = <<>>
    BY <1>9, <2>1 DEF PullFrame, chainVars
  <2>2. CASE queue # <<>>
    <3>1. Head(queue) \in 0 .. MaxFrames /\ Tail(queue) \in Seq(1 .. MaxFrames)
      BY <2>2
    <3> QED
      BY <1>9, <2>2, <3>1 DEF PullFrame, chainVars
  <2> QED
    BY <2>1, <2>2
<1>10. ASSUME NEW w \in Workers, EncodeAndWrite(w) PROVE TypeOK'
  <2>1. [frame |-> hand[w], seq |-> Len(wire)] \in [frame : 0 .. MaxFrames, seq : Nat]
    OBVIOUS
  <2> QED
    BY <1>10, <2>1 DEF EncodeAndWrite, SequenceNumber, chainVars
<1>11. CASE UNCHANGED vars
  BY <1>11 DEF vars, chainVars, workerVars
<1> QED
  BY <1>1, <1>2, <1>3, <1>4, <1>5, <1>6, <1>7, <1>8, <1>9, <1>10, <1>11 DEF Next

(***************************************************************************)
(* TypeOK holds in every behaviour of the chain.                           *)
(***************************************************************************)
THEOREM ChainTypeCorrect == Spec => []TypeOK
<1>1. Init => TypeOK
  BY InitialTypes
<1> QED
  BY <1>1, TypeInvariance, PTL DEF Spec

(***************************************************************************)
(* A call starts only when no worker is inside send_packets.               *)
(***************************************************************************)
LEMMA StrandInvariance == TypeOK /\ OneAtWork /\ [Next]_vars => OneAtWork'
<1> SUFFICES ASSUME TypeOK, OneAtWork, [Next]_vars PROVE OneAtWork'
  OBVIOUS
<1> USE DEF TypeOK, OneAtWork
<1>1. ASSUME NEW w \in Workers, SendPackets(w) PROVE OneAtWork'
  BY <1>1 DEF SendPackets, CanRun, StrandFree
<1>2. ASSUME NEW w \in Workers, PullFrame(w) PROVE OneAtWork'
  BY <1>2 DEF PullFrame
<1>3. ASSUME NEW w \in Workers, EncodeAndWrite(w) PROVE OneAtWork'
  BY <1>3 DEF EncodeAndWrite
<1>4. CASE UNCHANGED wpc
  BY <1>4
<1> QED
  BY <1>1, <1>2, <1>3, <1>4 DEF Next, vars, workerVars, Enable, DestroyEncoder, FreeChain,
     Unlink, BeginEnd, Capture, OnReadyRead

(***************************************************************************)
(* Only enable registers the chain with the hardware, and only while it    *)
(* lives and nobody ends the session.                                      *)
(***************************************************************************)
LEMMA CaptureInvariance == TypeOK /\ CapturesForChain /\ [Next]_vars => CapturesForChain'
<1> SUFFICES ASSUME TypeOK, CapturesForChain, [Next]_vars PROVE CapturesForChain'
  OBVIOUS
<1> USE SendAssumption DEF TypeOK, CapturesForChain
<1>1. ASSUME NEW w \in Workers, PullFrame(w) PROVE CapturesForChain'
  BY <1>1 DEF PullFrame, chainVars
<1>2. CASE Capture
  BY <1>2 DEF Capture, chainVars
<1>3. CASE Enable
  BY <1>3 DEF Enable
<1>4. CASE FreeChain
  BY <1>4 DEF FreeChain
<1>5. ASSUME NEW t \in Workers \cup {GuiThread}, BeginEnd(t) PROVE CapturesForChain'
  BY <1>5 DEF BeginEnd
<1>6. CASE UNCHANGED <<chain, ender, registered, queue>>
  BY <1>6
<1> QED
  BY <1>1, <1>2, <1>3, <1>4, <1>5, <1>6 DEF Next, vars, chainVars, DestroyEncoder, Unlink,
     OnReadyRead, SendPackets, EncodeAndWrite

(***************************************************************************)
(* No step loses, repeats or overtakes a frame.                            *)
(***************************************************************************)
LEMMA OrderInvariance == IInv /\ [Next]_vars => FramesInOrder'
<1> SUFFICES ASSUME IInv, [Next]_vars PROVE FramesInOrder'
  OBVIOUS
<1> USE SendAssumption DEF IInv, TypeOK
<1>0. Len(wire) \in Nat /\ Len(queue) \in Nat /\ InHand \in 0 .. 1
  BY DEF InHand
<1>1. CASE FreeChain
  BY <1>1 DEF FreeChain, FramesInOrder, workerVars
<1>2. CASE Capture
  <2>1. chain
    BY <1>2 DEF Capture, CapturesForChain
  <2>2. /\ InHand' = InHand
        /\ UNCHANGED <<wire, wpc, hand, chain>>
    BY <1>2 DEF Capture, InHand, workerVars, chainVars
  <2> DEFINE next == captured + 1
  <2>3. /\ queue' = Append(queue, next) /\ captured' = next
        /\ captured = Len(wire) + InHand + Len(queue)
    BY <1>2, <2>1 DEF Capture, FramesInOrder
  <2>4. /\ Len(queue') = Len(queue) + 1 /\ DOMAIN queue' = 1 .. Len(queue) + 1
        /\ queue'[Len(queue) + 1] = next
        /\ \A i \in 1 .. Len(queue) : queue'[i] = queue[i]
    BY <1>0, <2>3
  <2>5. captured' = Len(wire) + InHand + Len(queue')
    BY <1>0, <2>3, <2>4
  <2>6. ASSUME NEW i \in DOMAIN queue' PROVE queue'[i] = Len(wire) + InHand + i
    <3>1. CASE i = Len(queue) + 1
      BY <1>0, <2>3, <2>4, <3>1
    <3>2. CASE i \in 1 .. Len(queue)
      <4>1. queue[i] = Len(wire) + InHand + i
        BY <2>1, <3>2 DEF FramesInOrder
      <4> QED
        BY <2>4, <3>2, <4>1
    <3> QED
      BY <1>0, <2>4, <2>6, <3>1, <3>2
  <2> QED
    BY <2>2, <2>5, <2>6 DEF FramesInOrder
<1>3. ASSUME NEW w \in Workers, SendPackets(w) PROVE FramesInOrder'
  <2>1. \A v \in Workers : wpc[v] = "idle" /\ wpc'[v] # "encode"
    BY <1>3 DEF SendPackets, CanRun, StrandFree
  <2>2. InHand = 0 /\ InHand' = 0
    BY <2>1 DEF InHand
  <2> QED
    BY <1>3, <2>1, <2>2 DEF SendPackets, FramesInOrder, chainVars
<1>4. ASSUME NEW w \in Workers, PullFrame(w) PROVE FramesInOrder'
  <2>1. \A v \in Workers : v # w => wpc[v] = "idle" /\ wpc'[v] = "idle"
    BY <1>4 DEF PullFrame, OneAtWork
  <2>2. InHand = 0
    BY <1>4, <2>1 DEF PullFrame, InHand
  <2>3. CASE queue = <<>>
    <3>1. InHand' = 0
      BY <1>4, <2>1, <2>3 DEF PullFrame, InHand
    <3> QED
      BY <1>4, <2>1, <2>2, <2>3, <3>1 DEF PullFrame, FramesInOrder, chainVars
  <2>4. CASE queue # <<>>
    <3>1. chain
      BY <2>4 DEF CapturesForChain
    <3>2. InHand' = 1
      BY <1>4, <2>4 DEF PullFrame, InHand
    <3>3. hand'[w] = Len(wire) + 1
      BY <1>0, <1>4, <2>2, <2>4, <3>1 DEF PullFrame, FramesInOrder
    <3>4. captured = Len(wire) + 1 + Len(queue')
      <4>1. queue' = Tail(queue) /\ Len(Tail(queue)) = Len(queue) - 1
        BY <1>4, <2>4 DEF PullFrame
      <4> QED
        BY <4>1, <1>0, <1>4, <2>2, <2>4, <3>1 DEF PullFrame, FramesInOrder
    <3>5. ASSUME NEW i \in DOMAIN queue' PROVE queue'[i] = Len(wire) + 1 + i
      <4>1. queue' = Tail(queue) /\ i \in 1 .. Len(queue) - 1
        BY <1>0, <1>4, <2>4, <3>5 DEF PullFrame
      <4>2. queue'[i] = queue[i + 1] /\ i + 1 \in DOMAIN queue
        BY <1>0, <4>1
      <4> QED
        BY <1>0, <2>2, <3>1, <4>1, <4>2 DEF FramesInOrder
    <3>6. wire' = wire /\ \A v \in Workers : wpc'[v] = "encode" => hand'[v] = Len(wire) + 1
      BY <1>4, <2>1, <3>3 DEF PullFrame
    <3>7. /\ \A i \in DOMAIN queue' : queue'[i] = Len(wire') + InHand' + i
          /\ captured' = Len(wire') + InHand' + Len(queue')
      <4>1. captured' = captured
        BY <1>4 DEF PullFrame
      <4> QED
        BY <4>1, <3>2, <3>4, <3>5, <3>6
    <3>8. \A i \in DOMAIN wire' : wire'[i] = [frame |-> i, seq |-> i - 1]
      BY <3>6 DEF FramesInOrder
    <3> QED
      BY <3>6, <3>7, <3>8 DEF FramesInOrder
  <2> QED
    BY <2>3, <2>4
<1>5. ASSUME NEW w \in Workers, EncodeAndWrite(w) PROVE FramesInOrder'
  <2>1. \A v \in Workers : wpc'[v] # "encode"
    BY <1>5 DEF EncodeAndWrite, OneAtWork
  <2>2. InHand = 1 /\ InHand' = 0
    BY <1>5, <2>1 DEF EncodeAndWrite, InHand
  <2>3. hand[w] = Len(wire) + 1
    BY <1>5 DEF EncodeAndWrite, FramesInOrder
  <2>4. wire' = Append(wire, [frame |-> Len(wire) + 1, seq |-> Len(wire)])
    BY <1>5, <2>3 DEF EncodeAndWrite, SequenceNumber
  <2>5. /\ Len(wire') = Len(wire) + 1
        /\ \A i \in DOMAIN wire' : wire'[i] = [frame |-> i, seq |-> i - 1]
    <3>1. PICK last : last = [frame |-> Len(wire) + 1, seq |-> Len(wire)]
      OBVIOUS
    <3>2. \A i \in DOMAIN wire : wire[i] = [frame |-> i, seq |-> i - 1]
      BY DEF FramesInOrder
    <3>3. wire' = Append(wire, last)
      BY <2>4, <3>1
    <3>4. Len(wire') = Len(wire) + 1 /\ wire'[Len(wire) + 1] = last
      BY <1>0, <3>3
    <3>5. \A i \in DOMAIN wire' : (i \in DOMAIN wire /\ wire'[i] = wire[i]) \/ i = Len(wire) + 1
      BY <1>0, <3>3
    <3>6. last = [frame |-> Len(wire) + 1, seq |-> Len(wire) + 1 - 1]
      BY <1>0, <3>1
    <3>7. ASSUME NEW i \in DOMAIN wire' PROVE wire'[i] = [frame |-> i, seq |-> i - 1]
      <4>1. CASE i \in DOMAIN wire /\ wire'[i] = wire[i]
        BY <3>2, <4>1
      <4>2. CASE i = Len(wire) + 1
        BY <3>4, <3>6, <4>2
      <4> QED
        BY <3>5, <4>1, <4>2
    <3> QED
      BY <3>4, <3>7
  <2>6. UNCHANGED <<chain, queue, captured>>
    BY <1>5 DEF EncodeAndWrite, chainVars
  <2>7. chain' => /\ \A i \in DOMAIN queue' : queue'[i] = Len(wire') + InHand' + i
                  /\ captured' = Len(wire') + InHand' + Len(queue')
    <3>1. Len(wire') + InHand' = Len(wire) + InHand
      BY <1>0, <2>2, <2>5
    <3> QED
      BY <2>6, <3>1 DEF FramesInOrder
  <2> QED
    BY <2>1, <2>5, <2>7 DEF FramesInOrder
<1>6. CASE UNCHANGED <<chain, queue, wpc, hand, wire, captured>>
  BY <1>6 DEF FramesInOrder, InHand
<1> QED
  BY <1>1, <1>2, <1>3, <1>4, <1>5, <1>6 DEF Next, vars, chainVars, workerVars, Enable,
     DestroyEncoder, Unlink, BeginEnd, OnReadyRead

(***************************************************************************)
(* FramesInOrder holds for any number of workers and frames: sending from  *)
(* whichever thread the strand picks neither reorders nor loses frames.    *)
(***************************************************************************)
THEOREM SentInOrder == Spec => []FramesInOrder
<1>1. Init => IInv
  <2>1. Init => OneAtWork /\ CapturesForChain
    BY DEF Init, OneAtWork, CapturesForChain
  <2>2. Init => FramesInOrder
    <3> SUFFICES ASSUME Init PROVE FramesInOrder
      OBVIOUS
    <3>1. InHand = 0 /\ Len(wire) = 0 /\ Len(queue) = 0
      BY DEF Init, InHand
    <3> QED
      BY <3>1 DEF Init, FramesInOrder
  <2> QED
    BY <2>1, <2>2, InitialTypes DEF IInv
<1>2. IInv /\ [Next]_vars => IInv'
  BY TypeInvariance, StrandInvariance, CaptureInvariance, OrderInvariance DEF IInv
<1>3. IInv => FramesInOrder
  BY DEF IInv
<1> QED
  BY <1>1, <1>2, <1>3, PTL DEF Spec

-----------------------------------------------------------------------------
(* The composition with the hardware.                                      *)

HwProved == INSTANCE AudioHardware_proofs
  WITH registered <- streams, Sources <- {mic}, Sinks <- {voice, file}, Rate <- MCRate,
       FrameSize <- MCFrameSize, OtherFrames <- {}, Threads <- Controls

\* The assumption on the hardware is the same in both instances.
LEMMA SameAssumption == HwProved!HardwareAssumption
  BY CallHardware DEF HwProved!HardwareAssumption, Hw!HardwareAssumption,
                      HwProved!Streams, Hw!Streams

\* What a thread that controls the session does is a step of a thread of the hardware.
LEMMA ControlSteps ==
  ASSUME NEW t \in Controls,
         \/ Change(t) \/ Control(t)
         \/ \E s \in {mic, voice, file}, on \in BOOLEAN : SetEnabled(t, s, on)
  PROVE  HwProved!Next
<1> USE DEF Hw!Go, HwProved!Go, Hw!threadVars, HwProved!threadVars, Hw!deviceVars,
            HwProved!deviceVars, Hw!cbVars, HwProved!cbVars, Hw!history, HwProved!history
<1>1. CASE Change(t)
  <2>0. Hw!Change(t)
    BY <1>1 DEF Change
  <2>1. HwProved!Change(t)
    BY <2>0, Zenon DEF Hw!Change, HwProved!Change, Hw!MutexFree, HwProved!MutexFree,
                Hw!SideOf, HwProved!SideOf
  <2> QED
    BY <2>1 DEF HwProved!Next
<1>2. CASE \E s \in {mic, voice, file}, on \in BOOLEAN : SetEnabled(t, s, on)
  <2>1. PICK s \in {mic, voice, file}, on \in BOOLEAN : SetEnabled(t, s, on)
    BY <1>2
  <2>2. HwProved!SetEnabled(t, s, on) /\ s \in HwProved!Streams
    BY <2>1 DEF SetEnabled, Hw!SetEnabled, HwProved!SetEnabled, Hw!IsNews, HwProved!IsNews,
                Hw!Asked, HwProved!Asked, Hw!Inside, HwProved!Inside, HwProved!Streams
  <2> QED
    BY <2>2 DEF HwProved!Next
<1>3. CASE Control(t)
  <2>1. CASE Hw!Flag(t)
    BY <2>1 DEF Hw!Flag, HwProved!Flag, HwProved!Next
  <2>2. CASE Hw!EnableChain(t)
    <3>1. HwProved!EnableChain(t)
      BY <2>2 DEF Hw!EnableChain, HwProved!EnableChain, Hw!MustReopen, HwProved!MustReopen
    <3> QED
      BY <3>1 DEF HwProved!Next
  <2>3. CASE Hw!CloseAudio(t) \/ Hw!LockStreams(t) \/ Hw!CloseStream(t) \/ Hw!OpenAudio(t)
    BY <2>3 DEF Hw!CloseAudio, HwProved!CloseAudio, Hw!LockStreams, HwProved!LockStreams,
                Hw!CloseStream, HwProved!CloseStream, Hw!OpenAudio, HwProved!OpenAudio, HwProved!Next
  <2>4. CASE Hw!OpenStream(t)
    <3>1. HwProved!OpenStream(t)
      BY <2>4 DEF Hw!OpenStream, HwProved!OpenStream, Hw!Fastest, HwProved!Fastest, Hw!Shortest,
                  HwProved!Shortest, Hw!OpenedFor, HwProved!OpenedFor
    <3> QED
      BY <3>1 DEF HwProved!Next
  <2> QED
    BY <1>3, <2>1, <2>2, <2>3, <2>4 DEF Control
<1> QED
  BY <1>1, <1>2, <1>3

\* Every step of the composition is a step of the hardware, or leaves it alone.
LEMMA HardwareSteps == [MCNext]_allVars => [HwProved!Next]_HwProved!vars
<1> SUFFICES ASSUME [MCNext]_allVars PROVE HwProved!Next \/ UNCHANGED HwProved!vars
  OBVIOUS
<1>1. ASSUME NEW t \in Controls,
             \/ Change(t) \/ Control(t)
             \/ \E s \in {mic, voice, file}, on \in BOOLEAN : SetEnabled(t, s, on)
      PROVE  HwProved!Next
  BY <1>1, ControlSteps
<1>2. CASE Captures \/ Captured \/ Callbacks
  BY <1>2 DEF Captures, Captured, Callbacks, HwProved!Next, Hw!threadVars, HwProved!threadVars,
              Hw!deviceVars, HwProved!deviceVars, Hw!LockCapture, HwProved!LockCapture,
              Hw!Captured, HwProved!Captured, Hw!RtCallback, HwProved!RtCallback,
              Hw!LockPlayback, HwProved!LockPlayback, Hw!Played, HwProved!Played,
              Hw!history, HwProved!history
<1>3. CASE UNCHANGED hwVars
  BY <1>3 DEF hwVars, HwProved!vars, HwProved!threadVars, HwProved!deviceVars, HwProved!cbVars,
              HwProved!history
<1> QED
  BY <1>1, <1>2, <1>3 DEF MCNext, allVars

\* The hardware's part of the composition: the callback, with the microphone's
\* frames in hand, is in no stream that end_session has removed (rtaudio_source.cpp:40).
THEOREM HardwareInCall == MCSpec => []OnlyRegisteredTouched
<1>1. MCInit => HwProved!Init
  BY DEF MCInit, Hw!Init, HwProved!Init, Hw!Streams, HwProved!Streams
<1>2. HwProved!Spec => []HwProved!OnlyRegisteredTouched
  BY SameAssumption, HwProved!RemovedMeansUnused
<1>3. HwProved!OnlyRegisteredTouched => OnlyRegisteredTouched
  BY DEF HwProved!OnlyRegisteredTouched, OnlyRegisteredTouched, Hw!OnlyRegisteredTouched
<1> QED
  BY <1>1, <1>2, <1>3, HardwareSteps, PTL DEF MCSpec, HwProved!Spec

\* A call asks for as much of the device as anything else: the microphone has the
\* highest rate and the shortest frames, whatever the file player asks for.
LEMMA CallLeads == HwProved!SourcesLead
<1>0. mic # file
  BY CallHardware DEF Hw!HardwareAssumption
<1>1. /\ MCRate[mic] = 48000 /\ MCFrameSize[mic] = 480
      /\ \A s \in {mic, voice, file} : MCRate[s] \in {48000, 44100} /\ MCFrameSize[s] \in {480, 512}
  BY <1>0 DEF MCRate, MCFrameSize
<1> QED
  BY <1>1 DEF HwProved!SourcesLead, HwProved!Streams

\* The hardware's part of the composition: what the callback captures has the rate and
\* the frames of the call's microphone, also while a file is played at others, and a sink
\* it pulls from alone has its decoder, unless the user hangs up while the other thread
\* is busy with the device (audio_hardware.cpp:208, opus_decode_sink.h:16).
THEOREM CallbackInCall == MCSpec => []CallbackFits
<1>1. MCInit => HwProved!Init
  BY DEF MCInit, Hw!Init, HwProved!Init, Hw!Streams, HwProved!Streams
<1>2. HwProved!Spec => []HwProved!CallbackFits
  BY SameAssumption, CallLeads, HwProved!CallbackIsFit
<1>3. HwProved!CallbackFits => CallbackFits
  BY DEF HwProved!CallbackFits, CallbackFits, Hw!CallbackFits, HwProved!CaptureFits, Hw!CaptureFits,
         HwProved!PlaysReady, Hw!PlaysReady, HwProved!Inside, Hw!Inside
<1> QED
  BY <1>1, <1>2, <1>3, HardwareSteps, PTL DEF MCSpec, HwProved!Spec

\* The hardware's part of the composition: a call and a file player that come and go in
\* any order, from two threads, leave the device open for just what is enabled; where one
\* thread is at it no assertion of the registers fails (audio_hardware.cpp:84-110).
THEOREM ServedInCall == MCSpec => []HardwareServes
<1>1. MCInit => HwProved!Init
  BY DEF MCInit, Hw!Init, HwProved!Init, Hw!Streams, HwProved!Streams
<1>2. HwProved!Spec => []HwProved!HardwareServes
  BY SameAssumption, HwProved!HardwareIsServing
<1>3. HwProved!HardwareServes => HardwareServes
  BY DEF HwProved!HardwareServes, HardwareServes, Hw!HardwareServes, HwProved!Streams, Hw!Streams,
         HwProved!Inside, Hw!Inside
<1> QED
  BY <1>1, <1>2, <1>3, HardwareSteps, PTL DEF MCSpec, HwProved!Spec

\* Every step of the composition is a step of the sending chain, or leaves it alone.
LEMMA ChainSteps == [MCNext]_allVars => [Next]_vars
<1> SUFFICES ASSUME [MCNext]_allVars PROVE Next \/ UNCHANGED vars
  OBVIOUS
<1> USE DEF Next
<1>1. ASSUME NEW t \in Controls, \E s \in {mic, voice, file}, on \in BOOLEAN : SetEnabled(t, s, on)
      PROVE  UNCHANGED vars
  BY <1>1 DEF SetEnabled
<1>2. ASSUME NEW t \in Controls, Change(t)
      PROVE  Next \/ UNCHANGED vars
  BY <1>2 DEF Change, EndBegins
<1>3. CASE Captures \/ Captured \/ EndSession
  BY <1>3 DEF Captures, Captured, EndSession
<1> QED
  BY <1>1, <1>2, <1>3 DEF MCNext, allVars

\* The chain keeps its promise on this hardware, whose callback captures only for
\* registered streams and whose end waits for the mutex (audio_service.cpp:61-64).
THEOREM ChainOnHardware == MCSpec => []FramesInOrder
<1>1. MCInit => Init
  BY DEF MCInit
<1>2. Spec => []FramesInOrder
  BY SentInOrder
<1> QED
  BY <1>1, <1>2, ChainSteps, PTL DEF MCSpec, Spec
=============================================================================
