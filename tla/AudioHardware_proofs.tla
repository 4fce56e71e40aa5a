------------------------ MODULE AudioHardware_proofs ------------------------
(***************************************************************************)
(* Theorems about the sound hardware for any streams, rates and number of  *)
(* threads: type correctness, that the callback never touches a stream that*)
(* was removed, that what it moves fits both ends, and that the device is  *)
(* open for just what is enabled when all threads have returned.           *)
(***************************************************************************)
EXTENDS AudioHardware, TLAPS

\* The callback moves data only while it holds the mutex.
TouchesUnderMutex ==
  /\ cb \in {"capturing", "playing"} => mutex = Callback
  /\ touching # {} => cb \in {"capturing", "playing"}

\* A thread that closes the device holds the mutex until it has.
JoinsUnderMutex == \A t \in Threads : at[t] = "join" => mutex = t

IInv == TypeOK /\ TouchesUnderMutex /\ JoinsUnderMutex /\ OnlyRegisteredTouched

(***************************************************************************)
(* The hardware starts closed, without streams.                            *)
(***************************************************************************)
LEMMA InitialTypes == Init => TypeOK
<1> SUFFICES ASSUME Init PROVE TypeOK
  OBVIOUS
<1>1. /\ enabled \in [Streams -> BOOLEAN] /\ ready \in [Streams -> BOOLEAN]
      /\ at \in [Threads -> {"idle", "change", "flag", "chain", "close", "lock", "join", "open", "opening"}]
  BY DEF Init
<1>2. job \in [Threads -> [stream : Streams, on : BOOLEAN, reopen : BOOLEAN]]
  BY DEF Init
<1>3. device \in [rate : Rates, frame : Frames, capture : BOOLEAN, playback : BOOLEAN]
  BY DEF Init, Rates, Frames
<1> QED
  BY <1>1, <1>2, <1>3 DEF Init, TypeOK

(***************************************************************************)
(* Every variable keeps its type.                                          *)
(***************************************************************************)
LEMMA TypeInvariance == HardwareAssumption /\ TypeOK /\ [Next]_vars => TypeOK'
<1> SUFFICES ASSUME HardwareAssumption, TypeOK, [Next]_vars PROVE TypeOK'
  OBVIOUS
<1> USE DEF HardwareAssumption, TypeOK, Go, threadVars, deviceVars, cbVars, history
<1>1. ASSUME NEW t \in Threads, NEW s \in Streams, NEW on \in BOOLEAN, SetEnabled(t, s, on)
      PROVE  TypeOK'
  BY <1>1 DEF SetEnabled
<1>2. ASSUME NEW t \in Threads, Change(t) PROVE TypeOK'
  <2> DEFINE s == job[t].stream
             others == SideOf(s) \cap (registered \ {s})
  <2>1. s \in Streams /\ job[t] \in [stream : Streams, on : BOOLEAN, reopen : BOOLEAN]
    OBVIOUS
  <2>2. registered' \subseteq Streams
    BY <1>2, <2>1 DEF Change
  <2>3. job' \in [Threads -> [stream : Streams, on : BOOLEAN, reopen : BOOLEAN]]
    <3>1. job' = [job EXCEPT ![t].reopen = (others = {})]
      BY <1>2 DEF Change
    <3>2. (others = {}) \in BOOLEAN
      OBVIOUS
    <3> HIDE DEF others
    <3> QED
      BY <2>1, <3>1, <3>2
  <2>4. failed' \in BOOLEAN
    BY <1>2 DEF Change
  <2> QED
    BY <1>2, <2>2, <2>3, <2>4 DEF Change
<1>3. ASSUME NEW t \in Threads, Flag(t) \/ EnableChain(t) PROVE TypeOK'
  BY <1>3 DEF Flag, EnableChain
<1>4. ASSUME NEW t \in Threads, CloseAudio(t) PROVE TypeOK'
  BY <1>4 DEF CloseAudio
<1>5. ASSUME NEW t \in Threads, LockStreams(t) PROVE TypeOK'
  BY <1>5 DEF LockStreams
<1>6. ASSUME NEW t \in Threads, CloseStream(t) PROVE TypeOK'
  BY <1>6 DEF CloseStream
<1>7. ASSUME NEW t \in Threads, OpenAudio(t) PROVE TypeOK'
  BY <1>7 DEF OpenAudio
<1>8. ASSUME NEW t \in Threads, OpenStream(t) PROVE TypeOK'
  <2>1. /\ UNCHANGED <<registered, enabled, ready, mutex, job, cb, touching>>
        /\ at' = [at EXCEPT ![t] = IF failed' THEN "opening" ELSE "idle"]
        /\ failed' \in BOOLEAN /\ overlapped' \in BOOLEAN
    BY <1>8 DEF OpenStream
  <2>2. CASE ~(registered = {} \/ open)
    <3>1. open' = TRUE
      BY <1>8, <2>2 DEF OpenStream
    <3>2. device' \in [rate : Rates, frame : Frames, capture : BOOLEAN, playback : BOOLEAN]
      <4>1. PICK r \in registered, f \in registered :
              \E frame \in {FrameSize[f]} \cup OtherFrames : device' = OpenedFor(Rate[r], frame)
        BY <1>8, <2>2 DEF OpenStream
      <4>2. PICK frame \in {FrameSize[f]} \cup OtherFrames : device' = OpenedFor(Rate[r], frame)
        BY <4>1
      <4>3. Rate[r] \in Rates /\ frame \in Frames
        BY DEF Rates, Frames
      <4>4. \A c, d \in BOOLEAN :
              [rate |-> Rate[r], frame |-> frame, capture |-> c, playback |-> d]
                \in [rate : Rates, frame : Frames, capture : BOOLEAN, playback : BOOLEAN]
        BY <4>3
      <4>5. (registered \cap Sources # {}) \in BOOLEAN /\ (registered \cap Sinks # {}) \in BOOLEAN
        OBVIOUS
      <4> QED
        BY <4>2, <4>4, <4>5 DEF OpenedFor
    <3> QED
      BY <2>1, <3>1, <3>2
  <2>3. CASE registered = {} \/ open
    <3>1. UNCHANGED <<open, device>>
      BY <1>8, <2>3 DEF OpenStream
    <3> QED
      BY <2>1, <3>1
  <2> QED
    BY <2>2, <2>3
<1>9. CASE RtCallback
  BY <1>9 DEF RtCallback
<1>10. CASE LockCapture \/ LockPlayback
  BY <1>10 DEF LockCapture, LockPlayback
<1>11. CASE Captured \/ Played
  BY <1>11 DEF Captured, Played
<1>12. CASE UNCHANGED vars
  BY <1>12 DEF vars
<1> QED
  BY <1>1, <1>2, <1>3, <1>4, <1>5, <1>6, <1>7, <1>8, <1>9, <1>10, <1>11, <1>12 DEF Next

(***************************************************************************)
(* TypeOK holds in every behaviour of the hardware.                        *)
(***************************************************************************)
THEOREM TypeCorrect == HardwareAssumption => (Spec => []TypeOK)
<1> SUFFICES ASSUME HardwareAssumption PROVE Spec => []TypeOK
  OBVIOUS
<1>1. Init => TypeOK
  BY InitialTypes
<1>2. TypeOK /\ [Next]_vars => TypeOK'
  BY TypeInvariance
<1> QED
  BY <1>1, <1>2, PTL DEF Spec

(***************************************************************************)
(* The mutex keeps the callback, the registers and the closing apart.      *)
(***************************************************************************)
LEMMA MutexInvariance == HardwareAssumption /\ IInv /\ [Next]_vars =>
                           (TouchesUnderMutex /\ JoinsUnderMutex /\ OnlyRegisteredTouched)'
<1> SUFFICES ASSUME HardwareAssumption, IInv, [Next]_vars
             PROVE  (TouchesUnderMutex /\ JoinsUnderMutex /\ OnlyRegisteredTouched)'
  OBVIOUS
<1> USE DEF HardwareAssumption, IInv, TypeOK, Go, TouchesUnderMutex, JoinsUnderMutex, OnlyRegisteredTouched,
        threadVars, deviceVars, cbVars
<1> DEFINE Safe == TouchesUnderMutex /\ JoinsUnderMutex /\ OnlyRegisteredTouched
<1>1. ASSUME NEW t \in Threads, Change(t) PROVE Safe'
  <2>1. touching = {} /\ mutex = Nobody
    BY <1>1 DEF Change, MutexFree
  <2> QED
    BY <1>1, <2>1 DEF Change
<1>2. ASSUME NEW t \in Threads, LockStreams(t) PROVE Safe'
  BY <1>2 DEF LockStreams
<1>3. ASSUME NEW t \in Threads, CloseStream(t) PROVE Safe'
  BY <1>3 DEF CloseStream
<1>4. ASSUME NEW t \in Threads, NEW s \in Streams, NEW on \in BOOLEAN, SetEnabled(t, s, on)
      PROVE  Safe'
  BY <1>4 DEF SetEnabled
<1>5. ASSUME NEW t \in Threads, Flag(t) \/ EnableChain(t) \/ CloseAudio(t) \/ OpenAudio(t) \/ OpenStream(t)
      PROVE  Safe'
  <2>1. UNCHANGED <<mutex, cb, touching, registered>>
    BY <1>5 DEF Flag, EnableChain, CloseAudio, OpenAudio, OpenStream
  <2>2. \A u \in Threads : at'[u] = "join" => at[u] = "join"
    BY <1>5 DEF Flag, EnableChain, CloseAudio, OpenAudio, OpenStream
  <2> QED
    BY <2>1, <2>2
<1>6. CASE RtCallback
  BY <1>6 DEF RtCallback
<1>7. CASE LockCapture \/ LockPlayback
  BY <1>7 DEF LockCapture, LockPlayback
<1>8. CASE Captured \/ Played
  BY <1>8 DEF Captured, Played
<1>9. CASE UNCHANGED vars
  BY <1>9 DEF vars
<1> QED
  BY <1>1, <1>2, <1>3, <1>4, <1>5, <1>6, <1>7, <1>8, <1>9 DEF Next

(***************************************************************************)
(* OnlyRegisteredTouched for any number of threads and streams: a stream   *)
(* may be freed as soon as it was removed, even while sound is moving.     *)
(***************************************************************************)
THEOREM RemovedMeansUnused == HardwareAssumption => (Spec => []OnlyRegisteredTouched)
<1> SUFFICES ASSUME HardwareAssumption PROVE Spec => []OnlyRegisteredTouched
  OBVIOUS
<1>1. Init => IInv
  <2>1. Init => TouchesUnderMutex /\ JoinsUnderMutex /\ OnlyRegisteredTouched
    BY DEF Init, TouchesUnderMutex, JoinsUnderMutex, OnlyRegisteredTouched
  <2> QED
    BY <2>1, InitialTypes DEF IInv
<1>2. IInv /\ [Next]_vars => IInv'
  BY TypeInvariance, MutexInvariance DEF IInv
<1>3. IInv => OnlyRegisteredTouched
  BY DEF IInv
<1> QED
  BY <1>1, <1>2, <1>3, PTL DEF Spec

-----------------------------------------------------------------------------
(* What the callback finds when it is at a stream.                         *)

\* The callback runs while the device is open, and is at the side of the device
\* that was opened.
CallbackOfDevice ==
  /\ cb # "idle" => open
  /\ cb \in {"capture", "capturing"} => device.capture
  /\ cb \in {"playback", "playing"} => device.playback
  /\ open => device.capture \/ device.playback
  /\ touching \cap Sources # {} => cb = "capturing"
  /\ touching \cap Sinks # {} => cb = "playing"

\* The sources are the fastest streams, with the shortest frames, and the device
\* takes the frame size it is asked for.
SourcesLead ==
  /\ OtherFrames = {}
  /\ \A s \in Sources, q \in Streams : Rate[q] <= Rate[s] /\ FrameSize[s] <= FrameSize[q]

\* A device opened for capturing runs as every source asks, those included that
\* were registered afterwards.
DeviceFits == device.capture =>
  \A s \in Sources : Rate[s] = device.rate /\ FrameSize[s] = device.frame

CInv == IInv /\ CallbackOfDevice

(***************************************************************************)
(* Opening gives the device what the registers ask for at that moment.     *)
(***************************************************************************)
LEMMA OpenedDevice ==
  ASSUME NEW t \in Threads, OpenStream(t)
  PROVE  \/ UNCHANGED <<open, device>> /\ (registered = {} \/ open)
         \/ /\ ~open /\ open' = TRUE /\ registered # {}
            /\ \E r, f \in registered :
                 /\ Fastest(r) /\ Shortest(f)
                 /\ \E frame \in {FrameSize[f]} \cup OtherFrames :
                      device' = [rate |-> Rate[r], frame |-> frame,
                                 capture |-> registered \cap Sources # {},
                                 playback |-> registered \cap Sinks # {}]
BY DEF OpenStream, OpenedFor, deviceVars

\* The other steps of the controlling threads leave the device and the callback alone.
LEMMA DeviceUntouched ==
  ASSUME NEW t \in Threads,
         \/ \E s \in Streams, on \in BOOLEAN : SetEnabled(t, s, on)
         \/ Change(t) \/ Flag(t) \/ EnableChain(t)
         \/ CloseAudio(t) \/ LockStreams(t) \/ OpenAudio(t)
  PROVE  UNCHANGED <<open, device, cb, touching>>
BY DEF SetEnabled, Change, Flag, EnableChain, CloseAudio, LockStreams, OpenAudio,
     deviceVars, cbVars

LEMMA CallbackInvariance ==
  ASSUME HardwareAssumption, CInv, [Next]_vars
  PROVE  CallbackOfDevice'
<1> USE DEF HardwareAssumption
<1>a. /\ TypeOK /\ TouchesUnderMutex /\ OnlyRegisteredTouched /\ CallbackOfDevice
      /\ registered \subseteq Streams
  BY DEF CInv, IInv, TypeOK
<1>1. ASSUME NEW t \in Threads, CloseStream(t)
      PROVE  CallbackOfDevice'
  BY <1>1, <1>a DEF CloseStream, CallbackOfDevice, cbVars
<1>2. ASSUME NEW t \in Threads, OpenStream(t)
      PROVE  CallbackOfDevice'
  <2>0. UNCHANGED <<cb, touching>>
    BY <1>2 DEF OpenStream, cbVars
  <2>1. CASE UNCHANGED <<open, device>>
    BY <2>0, <2>1, <1>a DEF CallbackOfDevice
  <2>2. CASE /\ ~open /\ open' = TRUE /\ registered # {}
             /\ device'.capture = (registered \cap Sources # {})
             /\ device'.playback = (registered \cap Sinks # {})
    <3>1. registered \cap Sources # {} \/ registered \cap Sinks # {}
      BY <2>2, <1>a DEF Streams
    <3> QED
      BY <2>0, <2>2, <3>1, <1>a DEF CallbackOfDevice
  <2>3. ASSUME NEW r \in registered, NEW frame,
               device' = [rate |-> Rate[r], frame |-> frame,
                          capture |-> registered \cap Sources # {},
                          playback |-> registered \cap Sinks # {}]
        PROVE  /\ device'.capture = (registered \cap Sources # {})
               /\ device'.playback = (registered \cap Sinks # {})
    BY <2>3
  <2> QED
    BY <1>2, <2>1, <2>2, <2>3, OpenedDevice
<1>3. CASE RtCallback
  BY <1>3, <1>a DEF RtCallback, CallbackOfDevice, deviceVars
<1>4. CASE LockCapture \/ LockPlayback
  BY <1>4, <1>a DEF LockCapture, LockPlayback, CallbackOfDevice, deviceVars
<1>5. CASE Captured \/ Played
  BY <1>5, <1>a DEF Captured, Played, CallbackOfDevice, deviceVars
<1>6. CASE UNCHANGED <<open, device, cb, touching>>
  BY <1>6, <1>a DEF CallbackOfDevice
<1>7. CASE UNCHANGED vars
  BY <1>6, <1>7 DEF vars, deviceVars, cbVars
<1> QED
  BY <1>1, <1>2, <1>3, <1>4, <1>5, <1>6, <1>7, DeviceUntouched DEF Next

LEMMA FitInvariance ==
  ASSUME HardwareAssumption, SourcesLead, CInv, DeviceFits, [Next]_vars
  PROVE  DeviceFits'
<1> USE DEF HardwareAssumption
<1>1. ASSUME NEW t \in Threads, OpenStream(t)
      PROVE  DeviceFits'
  <2>1. CASE UNCHANGED device
    BY <2>1 DEF DeviceFits
  <2>2. ASSUME NEW r \in registered, NEW f \in registered, Fastest(r), Shortest(f),
               device' = [rate |-> Rate[r], frame |-> FrameSize[f],
                          capture |-> registered \cap Sources # {},
                          playback |-> registered \cap Sinks # {}]
        PROVE  DeviceFits'
    <3> SUFFICES ASSUME registered \cap Sources # {}, NEW s \in Sources
                 PROVE  Rate[s] = Rate[r] /\ FrameSize[s] = FrameSize[f]
      BY <2>2 DEF DeviceFits
    <3>1. PICK q \in registered \cap Sources : TRUE
      OBVIOUS
    <3>2. q \in Streams /\ s \in Streams /\ r \in Streams /\ f \in Streams
      BY DEF CInv, IInv, TypeOK, Streams
    <3>3. Rate[q] <= Rate[r] /\ Rate[r] <= Rate[s] /\ Rate[s] <= Rate[q]
      BY <2>2, <3>1, <3>2 DEF Fastest, SourcesLead
    <3>4. FrameSize[f] <= FrameSize[q] /\ FrameSize[s] <= FrameSize[f] /\ FrameSize[q] <= FrameSize[s]
      BY <2>2, <3>1, <3>2 DEF Shortest, SourcesLead
    <3>5. /\ Rate[q] \in Nat /\ Rate[r] \in Nat /\ Rate[s] \in Nat
          /\ FrameSize[q] \in Nat /\ FrameSize[f] \in Nat /\ FrameSize[s] \in Nat
      BY <3>2
    <3> QED
      BY <3>3, <3>4, <3>5
  <2> QED
    BY <1>1, <2>1, <2>2, OpenedDevice DEF SourcesLead
<1>2. CASE UNCHANGED device
  BY <1>2 DEF DeviceFits
<1>3. ASSUME NEW t \in Threads, CloseStream(t)
      PROVE  UNCHANGED device
  BY <1>3 DEF CloseStream
<1>4. CASE RtCallback \/ LockCapture \/ Captured \/ LockPlayback \/ Played \/ UNCHANGED vars
  BY <1>2, <1>4 DEF RtCallback, LockCapture, Captured, LockPlayback, Played, vars, deviceVars
<1> QED
  BY <1>1, <1>2, <1>3, <1>4, DeviceUntouched DEF Next

\* The registers, the device and the callback are in order from the start.
LEMMA CInvHolds ==
  ASSUME HardwareAssumption
  PROVE  /\ Init => CInv /\ DeviceFits
         /\ CInv /\ [Next]_vars => CInv'
<1>1. ASSUME Init PROVE CInv /\ DeviceFits
  <2>1. TypeOK
    BY <1>1, InitialTypes
  <2>2. cb = "idle" /\ touching = {} /\ open = FALSE /\ device.capture = FALSE
    BY <1>1 DEF Init
  <2>3. \A t \in Threads : at[t] # "join"
    BY <1>1 DEF Init
  <2> QED
    BY <2>1, <2>2, <2>3 DEF CInv, IInv, TouchesUnderMutex, JoinsUnderMutex, OnlyRegisteredTouched,
         CallbackOfDevice, DeviceFits
<1>2. CInv /\ [Next]_vars => CInv'
  BY TypeInvariance, MutexInvariance, CallbackInvariance DEF CInv, IInv
<1> QED
  BY <1>1, <1>2

(***************************************************************************)
(* For any threads and streams whose sources ask for the most of the       *)
(* device: capture's assertion (audio_hardware.cpp:208) never fails, also  *)
(* for a source that is registered while the callback runs and before the  *)
(* device is opened anew.                                                  *)
(***************************************************************************)
THEOREM CapturedAsAsked == HardwareAssumption /\ SourcesLead => (Spec => []CaptureFits)
<1> SUFFICES ASSUME HardwareAssumption, SourcesLead PROVE Spec => []CaptureFits
  OBVIOUS
<1>1. Init => CInv /\ DeviceFits
  BY CInvHolds
<1>2. CInv /\ DeviceFits /\ [Next]_vars => CInv' /\ DeviceFits'
  BY CInvHolds, FitInvariance
<1>3. CInv /\ DeviceFits => CaptureFits
  BY DEF CInv, CallbackOfDevice, DeviceFits, CaptureFits
<1> QED
  BY <1>1, <1>2, <1>3, PTL DEF Spec

-----------------------------------------------------------------------------
(* The device, whatever threads enable and disable streams at once.        *)

\* The device works on the sides that have streams.
DeviceMatches == /\ device.capture <=> registered \cap Sources # {}
                 /\ device.playback <=> registered \cap Sinks # {}

Agree(flags, q) == flags[q] <=> q \in registered

\* A thread whose stream is ahead of its flags, one that is going to close the device,
\* and one that may open it.
Midway(t) == at[t] \in {"flag", "chain"}
Closing(t) == at[t] \in {"close", "lock", "join"} \/ (Midway(t) /\ job[t].reopen)
Opening(t) == at[t] \in {"open", "opening"}

\* What the callers see to stays so.
Disciplined == \A t, u \in Inside :
  t # u /\ job[t].stream = job[u].stream => ~job[t].on /\ ~job[u].on

\* The flags of a stream say whether it is registered, unless a thread is midway.
FlagsFollow == \A q \in Streams :
  (\A t \in Threads : Midway(t) => job[t].stream # q) => Agree(enabled, q) /\ Agree(ready, q)

\* Only one thread is midway with a stream, and what it asked for was registered.
MidwayAlone == \A t, u \in Threads :
  Midway(t) /\ Midway(u) /\ job[t].stream = job[u].stream => t = u

Ahead == \A t \in Threads : Midway(t) =>
  /\ job[t].stream \in registered <=> job[t].on
  /\ at[t] = "chain" => Agree(enabled, job[t].stream)

\* A device that does not match is about to be closed, and one that is missing is
\* about to be opened.
DeviceFollows ==
  /\ open /\ (\A t \in Threads : ~Closing(t)) => DeviceMatches
  /\ ~open /\ (\A t \in Threads : ~Closing(t) /\ ~Opening(t)) => registered = {}

Serving == FlagsFollow /\ MidwayAlone /\ Ahead /\ DeviceFollows

\* A thread that fails does not return.
FailedInside == failed => Inside # {}

SInv == CInv /\ Disciplined /\ FailedInside /\ (~failed => Serving)

\* What the steps of a thread t leave of the others.
LEMMA OthersStay ==
  ASSUME TypeOK, NEW t \in Threads,
         \/ \E s \in Streams, on \in BOOLEAN : SetEnabled(t, s, on)
         \/ Change(t) \/ Flag(t) \/ EnableChain(t)
         \/ CloseAudio(t) \/ LockStreams(t) \/ CloseStream(t) \/ OpenAudio(t) \/ OpenStream(t),
         NEW u \in Threads, u # t
  PROVE  at'[u] = at[u] /\ job'[u] = job[u]
BY DEF SetEnabled, Change, Flag, EnableChain, CloseAudio, LockStreams, CloseStream, OpenAudio,
       OpenStream, Go, TypeOK

\* The callers' discipline, and that a failure is inside set_enabled.
LEMMA DisciplineInvariance ==
  ASSUME HardwareAssumption, SInv, [Next]_vars
  PROVE  Disciplined' /\ FailedInside'
<1>a. /\ TypeOK /\ Disciplined /\ FailedInside
      /\ at \in [Threads -> {"idle", "change", "flag", "chain", "close", "lock", "join", "open", "opening"}]
      /\ job \in [Threads -> [stream : Streams, on : BOOLEAN, reopen : BOOLEAN]]
  BY DEF SInv, CInv, IInv, TypeOK
<1>b. ASSUME UNCHANGED failed, \A t \in Threads : at[t] # "idle" => at'[t] # "idle"
      PROVE  FailedInside'
  BY <1>b, <1>a DEF FailedInside, Inside
<1>c. ASSUME \A t \in Threads : at[t] = "idle" => at'[t] = "idle",
             \A t \in Threads : job'[t].stream = job[t].stream /\ job'[t].on = job[t].on
      PROVE  Disciplined'
  BY <1>c, <1>a DEF Disciplined, Inside
<1>1. ASSUME NEW t \in Threads, NEW s \in Streams, NEW on \in BOOLEAN, SetEnabled(t, s, on)
      PROVE  Disciplined' /\ FailedInside'
  <2>1. /\ at' = [at EXCEPT ![t] = "change"] /\ UNCHANGED failed /\ ~failed /\ Asked(s, on)
        /\ job' = [job EXCEPT ![t] = [stream |-> s, on |-> on, reopen |-> FALSE]]
    BY <1>1 DEF SetEnabled, Go
  <2>2. job'[t].stream = s /\ job'[t].on = on /\ \A u \in Threads : u # t => job'[u] = job[u]
    BY <2>1, <1>a
  <2>3. \A u \in Inside' : u # t => u \in Inside
    BY <2>1, <1>a DEF Inside
  <2> QED
    BY <2>1, <2>2, <2>3, <1>a DEF Disciplined, Asked, FailedInside, Inside
<1>2. ASSUME NEW t \in Threads, Change(t)
      PROVE  Disciplined' /\ FailedInside'
  <2>1. /\ at[t] = "change" /\ at' = [at EXCEPT ![t] = "flag"]
        /\ \A u \in Threads : job'[u].stream = job[u].stream /\ job'[u].on = job[u].on
    BY <1>2, <1>a DEF Change, Go
  <2>2. at'[t] # "idle"
    BY <2>1, <1>a
  <2> QED
    BY <2>1, <2>2, <1>a, <1>c DEF FailedInside, Inside
<1>3. ASSUME NEW t \in Threads, OpenStream(t)
      PROVE  Disciplined' /\ FailedInside'
  <2>1. at[t] = "opening" /\ job' = job /\ (failed' => at'[t] # "idle")
    BY <1>3, <1>a DEF OpenStream, Go
  <2>2. \A u \in Threads : at[u] = "idle" => at'[u] = "idle"
    BY <1>3, <1>a, OthersStay, <2>1
  <2> QED
    BY <2>1, <2>2, <1>a, <1>c DEF FailedInside, Inside
<1>4. ASSUME NEW t \in Threads, Flag(t) \/ EnableChain(t) \/ OpenAudio(t)
      PROVE  Disciplined' /\ FailedInside'
  <2>1. ~failed' /\ job' = job /\ at[t] # "idle"
    BY <1>4 DEF Flag, EnableChain, OpenAudio, history
  <2>2. \A u \in Threads : at[u] = "idle" => at'[u] = "idle"
    BY <1>4, <1>a, OthersStay, <2>1
  <2> QED
    BY <2>1, <2>2, <1>c DEF FailedInside
<1>5. ASSUME NEW t \in Threads, CloseAudio(t) \/ LockStreams(t) \/ CloseStream(t)
      PROVE  Disciplined' /\ FailedInside'
  <2>1. failed' = failed /\ job' = job /\ at[t] # "idle" /\ at'[t] # "idle"
    BY <1>5, <1>a DEF CloseAudio, LockStreams, CloseStream, Go, history
  <2>2. \A u \in Threads : at[u] = "idle" <=> at'[u] = "idle"
    BY <1>5, <1>a, OthersStay, <2>1
  <2> QED
    BY <2>1, <2>2, <1>b, <1>c
<1>6. CASE RtCallback \/ LockCapture \/ Captured \/ LockPlayback \/ Played \/ UNCHANGED vars
  <2>1. UNCHANGED <<at, job, failed>>
    BY <1>6 DEF RtCallback, LockCapture, Captured, LockPlayback, Played, threadVars, history, vars
  <2> QED
    BY <2>1, <1>b, <1>c
<1> QED
  BY <1>1, <1>2, <1>3, <1>4, <1>5, <1>6 DEF Next

\* The registration of a stream, of a thread that does not fail: nobody else is midway
\* with it.
LEMMA ChangeServes ==
  ASSUME HardwareAssumption, SInv, NEW t \in Threads, Change(t), ~failed'
  PROVE  Serving'
<1> DEFINE s == job[t].stream
           others == SideOf(s) \cap (registered \ {s})
<1>a. /\ TypeOK /\ Disciplined /\ FlagsFollow /\ MidwayAlone /\ Ahead /\ DeviceFollows
      /\ at \in [Threads -> {"idle", "change", "flag", "chain", "close", "lock", "join", "open", "opening"}]
      /\ job \in [Threads -> [stream : Streams, on : BOOLEAN, reopen : BOOLEAN]]
  BY DEF SInv, Serving, CInv, IInv, TypeOK, Change
<1>1. /\ at[t] = "change" /\ at'[t] = "flag"
      /\ (s \in registered) # job[t].on
      /\ registered' = IF job[t].on THEN registered \cup {s} ELSE registered \ {s}
      /\ UNCHANGED <<enabled, ready, open, device>>
  BY <1>a DEF Change, Go, deviceVars
<1>2. job'[t].stream = s /\ job'[t].on = job[t].on /\ job[t].on \in BOOLEAN /\ s \in Streams
  BY <1>a DEF Change
<1>3. job'[t].reopen = (others = {})
  <2>1. job' = [job EXCEPT ![t].reopen = (others = {})]
    BY DEF Change
  <2> HIDE DEF others
  <2> QED
    BY <2>1, <1>a
<1>4. \A u \in Threads : u # t => at'[u] = at[u] /\ job'[u] = job[u]
  BY <1>a, OthersStay
<1>5. ASSUME NEW u \in Threads, u # t, Midway(u) PROVE job[u].stream # s
  <2> SUFFICES ASSUME job[u].stream = s PROVE FALSE
    OBVIOUS
  <2>1. ~job[u].on /\ ~job[t].on
    BY <1>1, <1>5, <1>a DEF Disciplined, Inside, Midway
  <2> QED
    BY <1>1, <1>2, <1>5, <2>1, <1>a DEF Ahead
<1>6. MidwayAlone' /\ Ahead'
  BY <1>1, <1>2, <1>4, <1>5, <1>a DEF MidwayAlone, Ahead, Midway, Agree
<1>7. FlagsFollow'
  <2> SUFFICES ASSUME NEW q \in Streams, \A u \in Threads : Midway(u)' => job'[u].stream # q
               PROVE  Agree(enabled, q)' /\ Agree(ready, q)'
    BY DEF FlagsFollow
  <2>1. q # s
    BY <1>1, <1>2 DEF Midway
  <2>2. \A u \in Threads : Midway(u) => job[u].stream # q
    BY <1>1, <1>4 DEF Midway
  <2> QED
    BY <2>1, <2>2, <1>1, <1>a DEF FlagsFollow, Agree
<1>8. DeviceFollows'
  <2>1. CASE others = {}
    BY <2>1, <1>1, <1>3 DEF DeviceFollows, Closing, Midway
  <2>2. CASE others # {}
    <3>1. ~Closing(t) /\ ~Opening(t)
      BY <1>1 DEF Closing, Opening, Midway
    <3>2. \A u \in Threads : u # t => (Closing(u)' <=> Closing(u)) /\ (Opening(u)' <=> Opening(u))
      BY <1>4 DEF Closing, Opening, Midway
    <3>3. registered # {}
      BY <2>2
    <3>4. /\ registered' \cap Sources # {} <=> registered \cap Sources # {}
          /\ registered' \cap Sinks # {} <=> registered \cap Sinks # {}
      <4>1. CASE s \in Sources
        BY <2>2, <4>1, <1>1 DEF SideOf, HardwareAssumption
      <4>2. CASE s \in Sinks
        BY <2>2, <4>2, <1>1 DEF SideOf, HardwareAssumption
      <4> QED
        BY <4>1, <4>2, <1>2 DEF Streams
    <3> QED
      BY <3>1, <3>2, <3>3, <3>4, <1>1, <1>a DEF DeviceFollows, DeviceMatches
  <2> QED
    BY <2>1, <2>2
<1> QED
  BY <1>6, <1>7, <1>8 DEF Serving

\* Opening the device gives it the sides that have streams.
LEMMA OpenServes ==
  ASSUME HardwareAssumption, SInv, NEW t \in Threads, OpenStream(t), ~failed'
  PROVE  DeviceFollows'
<1>a. TypeOK /\ DeviceFollows
  BY DEF SInv, Serving, CInv, IInv, OpenStream
<1>1. /\ at[t] = "opening" /\ at'[t] = "idle"
      /\ UNCHANGED <<registered, job>> /\ (registered = {} \/ ~open)
  BY <1>a DEF OpenStream, Go, TypeOK
<1>2. \A u \in Threads : u # t => at'[u] = at[u] /\ job'[u] = job[u]
  BY <1>a, OthersStay
<1>3. CASE UNCHANGED <<open, device>> /\ registered = {}
  BY <1>1, <1>2, <1>3, <1>a DEF DeviceFollows, DeviceMatches, Closing, Opening, Midway
<1>4. ASSUME NEW r \in registered, NEW frame, open' = TRUE,
             device' = [rate |-> Rate[r], frame |-> frame,
                        capture |-> registered \cap Sources # {},
                        playback |-> registered \cap Sinks # {}]
      PROVE  DeviceFollows'
  <2>1. /\ device'.capture = (registered \cap Sources # {})
        /\ device'.playback = (registered \cap Sinks # {})
    BY <1>4
  <2> QED
    BY <1>1, <1>4, <2>1 DEF DeviceFollows, DeviceMatches
<1> QED
  BY <1>1, <1>3, <1>4, OpenedDevice

LEMMA ServingInvariance ==
  ASSUME HardwareAssumption, SInv, [Next]_vars, ~failed'
  PROVE  Serving'
<1>a. /\ TypeOK /\ (~failed => FlagsFollow /\ MidwayAlone /\ Ahead /\ DeviceFollows)
      /\ at \in [Threads -> {"idle", "change", "flag", "chain", "close", "lock", "join", "open", "opening"}]
      /\ job \in [Threads -> [stream : Streams, on : BOOLEAN, reopen : BOOLEAN]]
      /\ enabled \in [Streams -> BOOLEAN] /\ ready \in [Streams -> BOOLEAN]
  BY DEF SInv, Serving, CInv, IInv, TypeOK
<1>1. ASSUME NEW t \in Threads, NEW s \in Streams, NEW on \in BOOLEAN, SetEnabled(t, s, on)
      PROVE  Serving'
  <2>1. /\ at[t] = "idle" /\ at'[t] = "change" /\ ~failed
        /\ UNCHANGED <<registered, enabled, ready, open, device>>
        /\ \A u \in Threads : u # t => at'[u] = at[u] /\ job'[u] = job[u]
    BY <1>1, <1>a, OthersStay DEF SetEnabled, Go, deviceVars
  <2>2. \A u \in Threads : /\ Midway(u)' <=> Midway(u)
                           /\ Closing(u)' <=> Closing(u)
                           /\ Opening(u)' <=> Opening(u)
                           /\ Midway(u) => job'[u] = job[u] /\ at'[u] = at[u]
    BY <2>1 DEF Midway, Closing, Opening
  <2> QED
    BY <2>1, <2>2, <1>a DEF Serving, FlagsFollow, MidwayAlone, Ahead, DeviceFollows, DeviceMatches, Agree
<1>2. ASSUME NEW t \in Threads, Change(t) PROVE Serving'
  BY <1>2, ChangeServes
<1>3. ASSUME NEW t \in Threads, Flag(t) PROVE Serving'
  <2>1. /\ at[t] = "flag" /\ at'[t] = "chain" /\ ~failed
        /\ enabled' = [enabled EXCEPT ![job[t].stream] = job[t].on]
        /\ UNCHANGED <<registered, ready, job, open, device>>
        /\ \A u \in Threads : u # t => at'[u] = at[u]
    BY <1>3, <1>a, OthersStay DEF Flag, Go, deviceVars, history
  <2>2. \A u \in Threads : /\ Midway(u)' <=> Midway(u)
                           /\ Closing(u)' <=> Closing(u)
                           /\ Opening(u)' <=> Opening(u)
    BY <2>1 DEF Midway, Closing, Opening
  <2>3. FlagsFollow'
    BY <2>1, <2>2, <1>a DEF FlagsFollow, Agree, Midway
  <2>4. Ahead'
    BY <2>1, <2>2, <1>a DEF Ahead, Agree, MidwayAlone, Midway
  <2> QED
    BY <2>1, <2>2, <2>3, <2>4, <1>a DEF Serving, MidwayAlone, DeviceFollows, DeviceMatches
<1>4. ASSUME NEW t \in Threads, EnableChain(t) PROVE Serving'
  <2>1. /\ at[t] = "chain" /\ at'[t] = (IF MustReopen(t) THEN "close" ELSE "idle") /\ ~failed
        /\ ready' = [ready EXCEPT ![job[t].stream] = job[t].on]
        /\ UNCHANGED <<registered, enabled, job, open, device>>
        /\ \A u \in Threads : u # t => at'[u] = at[u]
    BY <1>4, <1>a, OthersStay DEF EnableChain, Go, deviceVars, history
  <2>2. \A u \in Threads : /\ Midway(u)' <=> Midway(u) /\ u # t
                           /\ u # t => (Closing(u)' <=> Closing(u)) /\ (Opening(u)' <=> Opening(u))
    BY <2>1 DEF Midway, Closing, Opening
  <2>3. FlagsFollow'
    BY <2>1, <2>2, <1>a DEF FlagsFollow, Agree, Midway, Ahead
  <2>4. Ahead'
    BY <2>1, <2>2, <1>a DEF Ahead, Agree
  <2>5. DeviceFollows'
    <3>1. CASE MustReopen(t)
      BY <2>1, <3>1 DEF DeviceFollows, Closing
    <3>2. CASE ~MustReopen(t)
      <4>1. ~Closing(t) /\ ~Opening(t)
        BY <2>1, <3>2 DEF MustReopen, Closing, Opening
      <4> QED
        BY <2>1, <2>2, <4>1, <1>a DEF DeviceFollows, DeviceMatches
    <3> QED
      BY <3>1, <3>2
  <2> QED
    BY <2>1, <2>2, <2>3, <2>4, <2>5, <1>a DEF Serving, MidwayAlone
<1>5. ASSUME NEW t \in Threads,
             CloseAudio(t) \/ LockStreams(t) \/ CloseStream(t) \/ OpenAudio(t) \/ OpenStream(t)
      PROVE  Serving'
  <2>1. /\ at[t] \in {"close", "lock", "join", "open", "opening"} /\ ~failed
        /\ at'[t] \in {"lock", "join", "open", "opening", "idle"}
        /\ UNCHANGED <<registered, enabled, ready, job>>
        /\ \A u \in Threads : u # t => at'[u] = at[u]
    <3>1. /\ at[t] \in {"close", "lock", "join", "open", "opening"} /\ ~failed
          /\ at'[t] \in {"lock", "join", "open", "opening", "idle"}
          /\ UNCHANGED <<registered, enabled, ready, job>>
      BY <1>5, <1>a DEF CloseAudio, LockStreams, CloseStream, OpenAudio, OpenStream, Go, history
    <3> QED
      BY <3>1, <1>5, <1>a, OthersStay
  <2>2. \A u \in Threads : /\ Midway(u)' <=> Midway(u)
                           /\ Midway(u) => at'[u] = at[u]
                           /\ u # t => (Closing(u)' <=> Closing(u)) /\ (Opening(u)' <=> Opening(u))
    BY <2>1 DEF Midway, Closing, Opening
  <2>3. FlagsFollow' /\ MidwayAlone' /\ Ahead'
    BY <2>1, <2>2, <1>a DEF FlagsFollow, MidwayAlone, Ahead, Agree
  <2>4. CASE OpenStream(t)
    BY <2>3, <2>4, OpenServes DEF Serving
  <2>5. CASE CloseAudio(t) \/ LockStreams(t) \/ OpenAudio(t)
    <3>1. /\ UNCHANGED <<open, device>>
          /\ \/ Closing(t) /\ Closing(t)'
             \/ ~open /\ Opening(t)'
             \/ open /\ ~Closing(t)
      BY <2>5, <1>a DEF CloseAudio, LockStreams, OpenAudio, Go, deviceVars, Closing, Opening, Midway
    <3> QED
      BY <2>1, <2>2, <2>3, <3>1, <1>a DEF Serving, DeviceFollows, DeviceMatches
  <2>6. CASE CloseStream(t)
    <3>1. ~open' /\ Opening(t)'
      BY <2>6, <1>a DEF CloseStream, Go, Opening
    <3> QED
      BY <2>3, <3>1 DEF Serving, DeviceFollows
  <2> QED
    BY <1>5, <2>4, <2>5, <2>6
<1>6. CASE RtCallback \/ LockCapture \/ Captured \/ LockPlayback \/ Played \/ UNCHANGED vars
  <2>1. UNCHANGED <<registered, enabled, ready, at, job, open, device, failed>>
    BY <1>6 DEF RtCallback, LockCapture, Captured, LockPlayback, Played, threadVars, deviceVars, history, vars
  <2> QED
    BY <2>1, <1>a DEF Serving, FlagsFollow, MidwayAlone, Ahead, DeviceFollows, DeviceMatches, Agree,
                     Closing, Opening, Midway
<1> QED
  BY <1>1, <1>2, <1>3, <1>4, <1>5, <1>6 DEF Next

LEMMA SInvHolds ==
  ASSUME HardwareAssumption
  PROVE  /\ Init => SInv
         /\ SInv /\ [Next]_vars => SInv'
<1>1. ASSUME Init PROVE SInv
  <2>1. /\ registered = {} /\ open = FALSE /\ failed = FALSE /\ Inside = {}
        /\ \A q \in Streams : enabled[q] = FALSE /\ ready[q] = FALSE
        /\ \A t \in Threads : ~Midway(t)
    BY <1>1 DEF Init, Inside, Midway
  <2> QED
    BY <1>1, <2>1, CInvHolds DEF SInv, Disciplined, FailedInside, Serving, FlagsFollow, MidwayAlone,
                                 Ahead, DeviceFollows, Agree
<1>2. ASSUME SInv, [Next]_vars PROVE SInv'
  <2>1. CInv'
    BY <1>2, CInvHolds DEF SInv
  <2>2. ~failed' => Serving'
    BY <1>2, ServingInvariance
  <2> QED
    BY <1>2, <2>1, <2>2, DisciplineInvariance DEF SInv
<1> QED
  BY <1>1, <1>2

-----------------------------------------------------------------------------
(* A thread that is inside alone.                                          *)

\* What a thread does that found nobody inside: it registers or removes what was not,
\* finds the device closed when it opens it, and a side without other streams unused.
Alone(t) ==
  LET s == job[t].stream
  IN /\ at[t] = "change" => (s \in registered) # job[t].on
     /\ Opening(t) => ~open
     /\ Midway(t) /\ job[t].on /\ open =>
          IF job[t].reopen THEN IF s \in Sources THEN ~device.capture ELSE ~device.playback
          ELSE SideOf(s) \cap (registered \ {s}) # {}

Lonely == ~overlapped =>
  /\ ~failed
  /\ \A t, u \in Inside : t = u
  /\ \A t \in Threads : Alone(t)
  /\ PlaysReady

LInv == SInv /\ Lonely

\* With nobody inside, every sink that is played has its chain.
LEMMA QuietIsReady ==
  ASSUME SInv, ~failed, Inside = {}
  PROVE  PlaysReady
<1>1. \A q \in Streams : Agree(ready, q)
  BY DEF SInv, Serving, FlagsFollow, Inside, Midway
<1> QED
  BY <1>1 DEF SInv, CInv, IInv, OnlyRegisteredTouched, PlaysReady, Agree, Streams

\* The thread that is inside goes on.
LEMMA AloneInvariance ==
  ASSUME HardwareAssumption, LInv, ~overlapped, NEW t \in Threads,
         \/ Change(t) \/ Flag(t) \/ EnableChain(t)
         \/ CloseAudio(t) \/ LockStreams(t) \/ CloseStream(t) \/ OpenAudio(t) \/ OpenStream(t)
  PROVE  /\ ~failed' /\ ~overlapped'
         /\ \A u, v \in Inside' : u = v
         /\ \A u \in Threads : Alone(u)'
         /\ PlaysReady'
<1> USE DEF HardwareAssumption
<1> DEFINE s == job[t].stream
           others == SideOf(s) \cap (registered \ {s})
<1>a. /\ TypeOK /\ CallbackOfDevice /\ OnlyRegisteredTouched /\ PlaysReady
      /\ FlagsFollow /\ Ahead /\ DeviceFollows /\ ~failed /\ Alone(t)
      /\ at \in [Threads -> {"idle", "change", "flag", "chain", "close", "lock", "join", "open", "opening"}]
      /\ job \in [Threads -> [stream : Streams, on : BOOLEAN, reopen : BOOLEAN]]
      /\ enabled \in [Streams -> BOOLEAN] /\ ready \in [Streams -> BOOLEAN]
  BY DEF LInv, SInv, Lonely, Serving, CInv, IInv, TypeOK
<1>b. at[t] # "idle"
  BY DEF Change, Flag, EnableChain, CloseAudio, LockStreams, CloseStream, OpenAudio, OpenStream
<1>c. \A u \in Threads : u # t => at[u] = "idle" /\ at'[u] = "idle"
  BY <1>a, <1>b, OthersStay DEF LInv, Lonely, Inside
<1>d. /\ \A u, v \in Inside' : u = v
      /\ \A u \in Threads : u # t => Alone(u)'
  BY <1>c DEF Inside, Alone, Opening, Midway
<1>e. ASSUME ~failed', overlapped' = overlapped, Alone(t)', PlaysReady'
      PROVE  /\ ~failed' /\ ~overlapped'
             /\ \A u, v \in Inside' : u = v
             /\ \A u \in Threads : Alone(u)'
             /\ PlaysReady'
  BY <1>d, <1>e
<1>f. UNCHANGED <<touching, ready>> => PlaysReady'
  BY <1>a DEF PlaysReady
<1>1. CASE Change(t)
  <2>1. /\ at[t] = "change" /\ at'[t] = "flag"
        /\ failed' = ((s \in registered) = job[t].on)
        /\ registered' = (IF job[t].on THEN registered \cup {s} ELSE registered \ {s})
        /\ UNCHANGED <<ready, open, device, touching, overlapped>>
    BY <1>1, <1>a DEF Change, Go, deviceVars, cbVars
  <2>2. job'[t].stream = s /\ job'[t].on = job[t].on
    BY <1>1, <1>a DEF Change
  <2>3. job'[t].reopen = (others = {})
    <3>1. job' = [job EXCEPT ![t].reopen = (others = {})]
      BY <1>1 DEF Change
    <3> HIDE DEF others
    <3> QED
      BY <3>1, <1>a
  <2>4. ~failed' /\ (s \in registered) # job[t].on
    BY <2>1, <1>a DEF Alone
  <2>5. others = SideOf(s) \cap (registered' \ {s})
    BY <2>1
  <2>6. ASSUME others = {}, job[t].on, open
        PROVE  IF s \in Sources THEN ~device.capture ELSE ~device.playback
    <3>0. s \notin registered
      BY <2>4, <2>6, <1>a
    <3>1. registered \cap SideOf(s) = {}
      BY <3>0, <2>6
    <3>2. DeviceMatches
      BY <2>1, <2>6, <1>a, <1>c DEF DeviceFollows, Closing, Midway
    <3> QED
      BY <3>1, <3>2 DEF DeviceMatches, SideOf
  <2>7. Alone(t)'
    BY <2>1, <2>2, <2>3, <2>5, <2>6 DEF Alone, Opening, Midway, SideOf
  <2> QED
    BY <2>1, <2>4, <2>7, <1>e, <1>f
<1>2. CASE Flag(t)
  <2>1. /\ at[t] = "flag" /\ at'[t] = "chain"
        /\ UNCHANGED <<registered, ready, job, open, device, touching, overlapped, failed>>
    BY <1>2, <1>a DEF Flag, Go, deviceVars, cbVars, history
  <2>2. Alone(t)'
    BY <2>1, <1>a DEF Alone, Opening, Midway, SideOf
  <2> QED
    BY <2>1, <2>2, <1>a, <1>e, <1>f
<1>3. CASE EnableChain(t)
  <2>1. /\ at[t] = "chain" /\ at'[t] \in {"close", "idle"}
        /\ ready' = [ready EXCEPT ![s] = job[t].on]
        /\ UNCHANGED <<registered, touching, overlapped, failed>>
    BY <1>3, <1>a DEF EnableChain, Go, deviceVars, cbVars, history
  <2>2. s \in registered <=> job[t].on
    BY <2>1, <1>a DEF Ahead, Midway
  <2>3. PlaysReady'
    BY <2>1, <2>2, <1>a DEF PlaysReady, OnlyRegisteredTouched
  <2>4. Alone(t)'
    BY <2>1 DEF Alone, Opening, Midway
  <2> QED
    BY <2>1, <2>3, <2>4, <1>a, <1>e
<1>4. CASE CloseAudio(t) \/ LockStreams(t) \/ CloseStream(t) \/ OpenAudio(t)
  <2>1. /\ UNCHANGED <<ready, touching, overlapped, failed>>
        /\ at'[t] \in {"lock", "join", "open", "opening", "idle"}
        /\ at'[t] \in {"open", "opening"} => ~open'
    BY <1>4, <1>a DEF CloseAudio, LockStreams, CloseStream, OpenAudio, Go, deviceVars, cbVars, history
  <2>2. Alone(t)'
    BY <2>1 DEF Alone, Opening, Midway
  <2> QED
    BY <2>1, <2>2, <1>a, <1>e, <1>f
<1>5. CASE OpenStream(t)
  <2>1. ~open /\ failed' = (registered # {} /\ open)
    BY <1>5, <1>a DEF OpenStream, Alone, Opening
  <2>2. /\ ~failed' /\ at'[t] = "idle"
        /\ UNCHANGED <<ready, touching, overlapped>>
    BY <1>5, <2>1, <1>a DEF OpenStream, Go, cbVars
  <2>3. Alone(t)'
    BY <2>2 DEF Alone, Opening, Midway
  <2> QED
    BY <2>2, <2>3, <1>e, <1>f
<1> QED
  BY <1>1, <1>2, <1>3, <1>4, <1>5

\* The callback does not find a sink alone before its chain is enabled.
LEMMA PlaybackReady ==
  ASSUME HardwareAssumption, LInv, ~overlapped, LockPlayback
  PROVE  PlaysReady'
<1>a. /\ TypeOK /\ CallbackOfDevice /\ FlagsFollow /\ Ahead /\ ~failed
      /\ \A t \in Threads : Alone(t)
      /\ job \in [Threads -> [stream : Streams, on : BOOLEAN, reopen : BOOLEAN]]
  BY DEF LInv, SInv, Lonely, Serving, CInv, IInv, TypeOK
<1> SUFFICES ASSUME NEW q \in Sinks, registered \cap Sinks = {q}
             PROVE  ready[q]
  BY DEF LockPlayback, PlaysReady
<1>1. q \in Streams /\ q \in registered /\ open /\ device.playback /\ q \notin Sources
  BY <1>a DEF LockPlayback, CallbackOfDevice, Streams, HardwareAssumption
<1>2. ASSUME NEW t \in Threads, Midway(t), job[t].stream = q PROVE FALSE
  <2>1. job[t].on /\ SideOf(q) \cap (registered \ {q}) = {}
    BY <1>1, <1>2, <1>a DEF Ahead, SideOf
  <2> QED
    BY <1>1, <1>2, <2>1, <1>a DEF Alone
<1>3. Agree(ready, q)
  BY <1>1, <1>2, <1>a DEF FlagsFollow
<1> QED
  BY <1>1, <1>3 DEF Agree

LEMMA LInvHolds ==
  ASSUME HardwareAssumption
  PROVE  /\ Init => LInv
         /\ LInv /\ [Next]_vars => LInv'
<1>1. ASSUME Init PROVE LInv
  <2>1. /\ touching = {} /\ failed = FALSE /\ Inside = {}
        /\ \A t \in Threads : at[t] = "idle"
    BY <1>1 DEF Init, Inside
  <2> QED
    BY <1>1, <2>1, SInvHolds DEF LInv, Lonely, Alone, Opening, Midway, PlaysReady
<1>2. ASSUME LInv, [Next]_vars PROVE LInv'
  <2>1. SInv'
    BY <1>2, SInvHolds DEF LInv
  <2>2. ASSUME NEW t \in Threads, NEW s \in Streams, NEW on \in BOOLEAN, SetEnabled(t, s, on), ~overlapped'
        PROVE  Lonely'
    <3>a. /\ TypeOK /\ FlagsFollow /\ SInv
          /\ at \in [Threads -> {"idle", "change", "flag", "chain", "close", "lock", "join", "open", "opening"}]
          /\ job \in [Threads -> [stream : Streams, on : BOOLEAN, reopen : BOOLEAN]]
          /\ enabled \in [Streams -> BOOLEAN]
      BY <1>2, <2>2 DEF LInv, SInv, CInv, IInv, Serving, TypeOK, SetEnabled
    <3>1. /\ Inside = {} /\ ~failed /\ ~failed' /\ enabled[s] # on
          /\ at' = [at EXCEPT ![t] = "change"] /\ job'[t].stream = s /\ job'[t].on = on
          /\ UNCHANGED <<registered, ready, touching>>
      BY <2>2, <3>a DEF SetEnabled, IsNews, Go, cbVars
    <3>2. \A u \in Threads : at[u] = "idle"
      BY <3>1 DEF Inside
    <3>3. (s \in registered) # on
      BY <3>1, <3>2, <3>a DEF FlagsFollow, Agree, Midway
    <3>4. PlaysReady'
      BY <3>1, <3>a, QuietIsReady DEF PlaysReady
    <3>5. \A u \in Threads : Alone(u)'
      BY <3>1, <3>2, <3>3, <3>a DEF Alone, Opening, Midway
    <3>6. \A u, v \in Inside' : u = v
      BY <3>1, <3>2, <3>a DEF Inside
    <3> QED
      BY <3>1, <3>4, <3>5, <3>6 DEF Lonely
  <2>3. ASSUME NEW t \in Threads,
               \/ Change(t) \/ Flag(t) \/ EnableChain(t)
               \/ CloseAudio(t) \/ LockStreams(t) \/ CloseStream(t) \/ OpenAudio(t) \/ OpenStream(t)
        PROVE  Lonely'
    <3>1. overlapped' = overlapped
      BY <2>3 DEF Change, Flag, EnableChain, CloseAudio, LockStreams, CloseStream, OpenAudio,
                  OpenStream, history
    <3>2. CASE overlapped
      BY <3>1, <3>2 DEF Lonely
    <3>3. CASE ~overlapped
      <4>1. /\ ~failed' /\ \A u, v \in Inside' : u = v
            /\ \A u \in Threads : Alone(u)'
            /\ PlaysReady'
        BY <1>2, <2>3, <3>3, AloneInvariance
      <4> QED
        BY <4>1 DEF Lonely
    <3> QED
      BY <3>2, <3>3
  <2>4. ASSUME RtCallback \/ LockCapture \/ Captured \/ LockPlayback \/ Played \/ UNCHANGED vars
        PROVE  Lonely'
    <3>1. UNCHANGED <<registered, ready, at, job, open, device, overlapped, failed>>
      BY <2>4 DEF RtCallback, LockCapture, Captured, LockPlayback, Played, threadVars, deviceVars, history, vars
    <3>2. touching' = touching \/ touching' \cap Sinks = {} \/ LockPlayback
      BY <2>4 DEF RtCallback, LockCapture, Captured, Played, vars, cbVars, HardwareAssumption
    <3>3. ~overlapped => PlaysReady'
      <4>1. CASE touching' = touching
        BY <1>2, <3>1, <4>1 DEF LInv, Lonely, PlaysReady
      <4>2. CASE touching' \cap Sinks = {}
        BY <4>2 DEF PlaysReady
      <4> QED
        BY <1>2, <3>2, <4>1, <4>2, PlaybackReady
    <3> QED
      BY <1>2, <3>1, <3>3 DEF LInv, Lonely, Inside, Alone, Opening, Midway, SideOf
  <2>5. ASSUME overlapped' PROVE Lonely'
    BY <2>5 DEF Lonely
  <2>6. Lonely'
    BY <1>2, <2>2, <2>3, <2>4, <2>5 DEF Next
  <2> QED
    BY <2>1, <2>6 DEF LInv
<1> QED
  BY <1>1, <1>2

(***************************************************************************)
(* For any streams, rates and threads: what the callback captures has the  *)
(* rate and the frames of its source, and a sink it pulls from alone has   *)
(* its decoder (opus_decode_sink.h:16), although sinks are registered      *)
(* before their chain is enabled, unless threads overlap.                  *)
(***************************************************************************)
THEOREM CallbackIsFit == HardwareAssumption /\ SourcesLead => (Spec => []CallbackFits)
<1> SUFFICES ASSUME HardwareAssumption, SourcesLead PROVE Spec => []CallbackFits
  OBVIOUS
<1>1. Init => LInv
  BY LInvHolds
<1>2. LInv /\ [Next]_vars => LInv'
  BY LInvHolds
<1>3. ASSUME LInv PROVE PlaysReady \/ (overlapped /\ Inside # {})
  BY <1>3, QuietIsReady DEF LInv, Lonely, SInv, FailedInside
<1>4. Spec => []CaptureFits
  BY CapturedAsAsked
<1>5. CallbackFits <=> CaptureFits /\ (PlaysReady \/ (overlapped /\ Inside # {}))
  BY DEF CallbackFits
<1> QED
  BY <1>1, <1>2, <1>3, <1>4, <1>5, PTL DEF Spec

(***************************************************************************)
(* For any streams and any number of threads at once: when set_enabled has *)
(* returned everywhere the device is open for just what the enabled streams*)
(* need, whoever reopened it last; and only where threads overlap does an  *)
(* assertion of the registers fail or a second stream get opened.          *)
(***************************************************************************)
THEOREM HardwareIsServing == HardwareAssumption => (Spec => []HardwareServes)
<1> SUFFICES ASSUME HardwareAssumption PROVE Spec => []HardwareServes
  OBVIOUS
<1>1. Init => LInv
  BY LInvHolds
<1>2. LInv /\ [Next]_vars => LInv'
  BY LInvHolds
<1>3. ASSUME LInv PROVE HardwareServes
  <2>1. /\ failed => overlapped
        /\ enabled \in [Streams -> BOOLEAN] /\ ready \in [Streams -> BOOLEAN]
        /\ CallbackOfDevice
    BY <1>3 DEF LInv, Lonely, SInv, CInv, IInv, TypeOK
  <2>2. ASSUME ~failed, Inside = {}
        PROVE  /\ \A q \in Streams : Agree(enabled, q) /\ Agree(ready, q)
               /\ open => DeviceMatches
               /\ ~open => registered = {}
    <3>1. \A t \in Threads : ~Closing(t) /\ ~Opening(t) /\ ~Midway(t)
      BY <2>2 DEF Inside, Closing, Opening, Midway
    <3> QED
      BY <1>3, <2>2, <3>1 DEF LInv, SInv, Serving, FlagsFollow, DeviceFollows
  <2>3. ASSUME ~failed, Inside = {} PROVE open => registered # {}
    BY <2>1, <2>2, <2>3 DEF DeviceMatches, CallbackOfDevice
  <2>4. ASSUME ~failed, Inside = {} PROVE ready = enabled
    BY <2>1, <2>2, <2>4 DEF Agree
  <2> QED
    BY <2>1, <2>2, <2>3, <2>4 DEF HardwareServes, DeviceMatches, Agree
<1> QED
  BY <1>1, <1>2, <1>3, PTL DEF Spec
=============================================================================
