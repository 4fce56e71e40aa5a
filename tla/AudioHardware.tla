--------------------------- MODULE AudioHardware ---------------------------
(***************************************************************************)
(* The sound hardware (voicebox audio_hardware with rtaudio_source and     *)
(* rtaudio_sink): sources and sinks register themselves when enabled, and  *)
(* the device is closed and opened anew when that changes what it has to   *)
(* do.  stream_mutex_ protects the registers; RtAudio calls rtcallback on  *)
(* a thread of its own, which takes the same mutex.                        *)
(***************************************************************************)
EXTENDS Integers

CONSTANTS
  Sources, Sinks,  \* the streams that capture and the ones that play
  Rate,            \* sample_rate of each stream
  FrameSize,       \* frame_size of each stream
  OtherFrames,     \* frame sizes the device may open with instead
  Threads,         \* the threads that enable and disable streams
  Callback,        \* the thread of the callback
  Nobody           \* no thread

Streams == Sources \cup Sinks

HardwareAssumption ==
  /\ Sources \cap Sinks = {}
  /\ Rate \in [Streams -> Nat \ {0}] /\ FrameSize \in [Streams -> Nat \ {0}]
  /\ OtherFrames \subseteq Nat
  /\ Callback \notin Threads /\ Nobody \notin Threads \cup {Callback}

VARIABLES
  registered,   \* instreams and outstreams
  enabled,      \* audio_stream::enabled_ of each stream
  ready,        \* the stream's acceptor or producer is enabled, and its codec made
  mutex,        \* the thread that holds stream_mutex_
  at, job,      \* where each thread is in set_enabled, and what it does there
  open,         \* is_running, the device is open
  device,       \* hwrate, hwframesize and what the device was opened for
  cb,           \* where the callback is
  touching,     \* the streams whose data the callback is moving
  overlapped,   \* history: the last set_enabled began with another one under way
  failed        \* history: an assertion failed or RtAudio threw

threadVars == <<at, job>>
deviceVars == <<open, device>>
cbVars     == <<cb, touching>>
history    == <<overlapped, failed>>
vars == <<registered, enabled, ready, mutex, threadVars, deviceVars, cbVars, history>>

Init ==
  /\ registered = {} /\ enabled = [s \in Streams |-> FALSE] /\ ready = enabled
  /\ mutex = Nobody
  /\ at = [t \in Threads |-> "idle"]
  /\ job \in [Threads -> [stream : Streams, on : {FALSE}, reopen : {FALSE}]]
  /\ open = FALSE
  /\ device = [rate |-> 0, frame |-> 0, capture |-> FALSE, playback |-> FALSE]
  /\ cb = "idle" /\ touching = {}
  /\ overlapped = FALSE /\ failed = FALSE

Go(t, place) == at' = [at EXCEPT ![t] = place]

\* The streams that are on the same side of the device as s.
SideOf(s) == IF s \in Sources THEN Sources ELSE Sinks

-----------------------------------------------------------------------------
(* set_enabled of rtaudio_source and rtaudio_sink. *)

\* is_enabled, which is read without any lock.
IsNews(s, on) == enabled[s] # on

\* The threads that are inside set_enabled.
Inside == {t \in Threads : at[t] # "idle"}

\* What the callers see to: a session is ended only when it is active, and each has
\* streams of its own.  So two threads may disable one stream at the same time, but
\* none enables a stream, or disables one being enabled, that another is busy with.
Asked(s, on) == \A u \in Inside : job[u].stream = s => ~on /\ ~job[u].on

SetEnabled(t, s, on) ==
  /\ at[t] = "idle" /\ ~failed
  /\ Asked(s, on)
  /\ IsNews(s, on)
  /\ overlapped' = (Inside # {})
  /\ job' = [job EXCEPT ![t] = [stream |-> s, on |-> on, reopen |-> FALSE]]
  /\ Go(t, "change")
  /\ UNCHANGED <<registered, enabled, ready, mutex, deviceVars, cbVars, failed>>

\* Slip: the registers are changed without the mutex.
Unlocked == TRUE

MutexFree == mutex = Nobody

\* add_instream, remove_instream and the two for the sinks, with their assertions.
Change(t) ==
  LET s == job[t].stream
      wanted == IF job[t].on THEN registered \cup {s} ELSE registered \ {s}
      others == SideOf(s) \cap (registered \ {s})
  IN /\ at[t] = "change" /\ MutexFree /\ ~failed
     /\ failed' = ((s \in registered) = job[t].on)
     /\ registered' = wanted
     /\ job' = [job EXCEPT ![t].reopen = (others = {})]
     /\ Go(t, "flag")
     /\ UNCHANGED <<enabled, ready, mutex, deviceVars, cbVars, overlapped>>

\* Slip: only a higher rate reopens the device.
ReopenForRate(t) == job[t].on /\ device.rate < Rate[job[t].stream]

\* (Re-)open at a suitable rate, or without what nobody needs any more.
MustReopen(t) ==
  job[t].reopen \/ (job[t].on /\ device.rate < Rate[job[t].stream])

\* audio_stream::set_enabled: the stream's own flag.
Flag(t) ==
  /\ at[t] = "flag" /\ ~failed
  /\ enabled' = [enabled EXCEPT ![job[t].stream] = job[t].on]
  /\ Go(t, "chain")
  /\ UNCHANGED <<registered, ready, mutex, job, deviceVars, cbVars, history>>

\* audio_sink or audio_source::set_enabled passes it down the chain, where the
\* decoder is made or destroyed; then the decision to reopen.
EnableChain(t) ==
  /\ at[t] = "chain" /\ ~failed
  /\ ready' = [ready EXCEPT ![job[t].stream] = job[t].on]
  /\ Go(t, IF MustReopen(t) THEN "close" ELSE "idle")
  /\ UNCHANGED <<registered, enabled, mutex, job, deviceVars, cbVars, history>>

-----------------------------------------------------------------------------
(* reopen: close_audio, then open_audio. *)

\* Slip: an open device is left open.
LeavesOpen(t) ==
  /\ at[t] = "close"
  /\ Go(t, "open")
  /\ UNCHANGED <<registered, enabled, ready, mutex, job, deviceVars, cbVars, history>>

CloseAudio(t) ==
  /\ at[t] = "close"
  /\ Go(t, IF open THEN "lock" ELSE "open")
  /\ UNCHANGED <<registered, enabled, ready, mutex, job, deviceVars, cbVars, history>>

LockStreams(t) ==
  /\ at[t] = "lock" /\ mutex = Nobody
  /\ mutex' = t
  /\ Go(t, "join")
  /\ UNCHANGED <<registered, enabled, ready, job, deviceVars, cbVars, history>>

\* RtAudio::closeStream returns once no callback is running.
CloseStream(t) ==
  /\ at[t] = "join" /\ cb = "idle"
  /\ open' = FALSE
  /\ mutex' = Nobody
  /\ Go(t, "open")
  /\ UNCHANGED <<registered, enabled, ready, job, device, cbVars, history>>

OpenAudio(t) ==
  /\ at[t] = "open" /\ ~failed
  /\ Go(t, IF open THEN "idle" ELSE "opening")
  /\ UNCHANGED <<registered, enabled, ready, mutex, job, deviceVars, cbVars, history>>

\* Slip: the lowest rate asked for.
Slowest(s) == \A q \in registered : Rate[q] >= Rate[s]

Fastest(s) == \A q \in registered : Rate[q] <= Rate[s]

Shortest(s) == \A q \in registered : FrameSize[q] >= FrameSize[s]

OpenedFor(rate, frame) ==
  [rate |-> rate, frame |-> frame,
   capture |-> registered \cap Sources # {}, playback |-> registered \cap Sinks # {}]

\* openStream and startStream under the mutex, at the highest rate and with the
\* smallest frames asked for, unless the device insists on others; a stream that
\* is open already makes RtAudio throw.
OpenStream(t) ==
  /\ at[t] = "opening" /\ mutex = Nobody /\ ~failed
  /\ failed' = (registered # {} /\ open)
  /\ Go(t, IF failed' THEN "opening" ELSE "idle")
  /\ IF registered = {} \/ open
     THEN UNCHANGED deviceVars
     ELSE /\ open' = TRUE
          /\ \E r, f \in registered :
               /\ Fastest(r) /\ Shortest(f)
               /\ \E frame \in {FrameSize[f]} \cup OtherFrames :
                    device' = OpenedFor(Rate[r], frame)
  /\ UNCHANGED <<registered, enabled, ready, mutex, job, cbVars, overlapped>>

-----------------------------------------------------------------------------
(* rtcallback: capture, then playback. *)

\* The device starts no callback any more once it is being closed.
RtCallback ==
  /\ open /\ cb = "idle" /\ ~failed
  /\ \A t \in Threads : at[t] # "join"
  /\ cb' = IF device.capture THEN "capture" ELSE "playback"
  /\ UNCHANGED <<registered, enabled, ready, mutex, threadVars, deviceVars, touching, history>>

LockCapture ==
  /\ cb = "capture" /\ mutex = Nobody
  /\ mutex' = Callback /\ cb' = "capturing"
  /\ touching' = registered \cap Sources
  /\ UNCHANGED <<registered, enabled, ready, threadVars, deviceVars, history>>

Captured ==
  /\ cb = "capturing"
  /\ mutex' = Nobody /\ touching' = {}
  /\ cb' = IF device.playback THEN "playback" ELSE "idle"
  /\ UNCHANGED <<registered, enabled, ready, threadVars, deviceVars, history>>

LockPlayback ==
  /\ cb = "playback" /\ mutex = Nobody
  /\ mutex' = Callback /\ cb' = "playing"
  /\ touching' = registered \cap Sinks
  /\ UNCHANGED <<registered, enabled, ready, threadVars, deviceVars, history>>

Played ==
  /\ cb = "playing"
  /\ mutex' = Nobody /\ touching' = {} /\ cb' = "idle"
  /\ UNCHANGED <<registered, enabled, ready, threadVars, deviceVars, history>>

-----------------------------------------------------------------------------
Next ==
  \/ \E t \in Threads :
       \/ \E s \in Streams, on \in BOOLEAN : SetEnabled(t, s, on)
       \/ Change(t) \/ Flag(t) \/ EnableChain(t)
       \/ CloseAudio(t) \/ LockStreams(t) \/ CloseStream(t)
       \/ OpenAudio(t) \/ OpenStream(t)
  \/ RtCallback \/ LockCapture \/ Captured \/ LockPlayback \/ Played

Spec == Init /\ [][Next]_vars

-----------------------------------------------------------------------------
(* Properties. *)

Rates  == {0} \cup {Rate[s] : s \in Streams}
Frames == {0} \cup {FrameSize[s] : s \in Streams} \cup OtherFrames

TypeOK ==
  /\ registered \subseteq Streams
  /\ enabled \in [Streams -> BOOLEAN] /\ ready \in [Streams -> BOOLEAN]
  /\ mutex \in Threads \cup {Callback, Nobody}
  /\ at \in [Threads -> {"idle", "change", "flag", "chain", "close", "lock", "join", "open", "opening"}]
  /\ job \in [Threads -> [stream : Streams, on : BOOLEAN, reopen : BOOLEAN]]
  /\ open \in BOOLEAN
  /\ device \in [rate : Rates, frame : Frames, capture : BOOLEAN, playback : BOOLEAN]
  /\ cb \in {"idle", "capture", "capturing", "playback", "playing"}
  /\ touching \subseteq Streams
  /\ overlapped \in BOOLEAN /\ failed \in BOOLEAN

\* "Don't let fiddle with streams while we send", nor while we mix
\* (audio_hardware.cpp:184, 215): once a stream was removed, and its owner may
\* free it, the callback is not inside it.
OnlyRegisteredTouched == touching \subseteq registered

\* capture's assertion (audio_hardware.cpp:208): what is captured has the rate
\* and the frame size of every source it is given to, also between the
\* registration of a stream and the reopening of the device.
CaptureFits ==
  \A s \in touching \cap Sources : Rate[s] = device.rate /\ FrameSize[s] = device.frame

\* opus_decode_sink's state is "owned exclusively by the audio thread while
\* enabled" (opus_decode_sink.h:16): the callback pulls from a sink only when the
\* sink's chain is enabled and its decoder made, although the sink is registered
\* before and removed after.  What keeps it away is that the device does not play
\* for the first sink yet; a second sink is pulled from too early.
PlaysReady == \A s \in Sinks : touching \cap Sinks = {s} => ready[s]

\* What the callback moves fits both ends; as long as threads overlap, one may reopen
\* the device for a sink whose chain the other is about to enable.
CallbackFits == CaptureFits /\ (PlaysReady \/ (overlapped /\ Inside # {}))

\* When nobody is inside set_enabled, whatever threads were at once, the registered
\* streams are the enabled ones, with their chains, and the device is open for just
\* what they need: none of the reopenings undoes what another was for.  It may end
\* otherwise only where threads overlap: two that disable one stream fail the
\* assertions at audio_hardware.cpp:93 and 110, of two that reopen RtAudio may throw.
HardwareServes ==
  /\ failed => overlapped
  /\ ~failed /\ Inside = {} =>
       /\ \A s \in Streams : s \in registered <=> enabled[s]
       /\ ready = enabled
       /\ open <=> registered # {}
       /\ open => /\ device.capture <=> registered \cap Sources # {}
                  /\ device.playback <=> registered \cap Sinks # {}

\* A thread that closes the device with the mutex held waits for the callback,
\* which waits for the mutex.
Stuck == \E t \in Threads : at[t] = "join" /\ cb \in {"capture", "playback"}

\* "close or reopen without input" (rtaudio_source.cpp:40): once every stream was
\* disabled the device is closed, unless one is enabled again or the program fails;
\* that the closing and the callback wait for each other is the only obstacle.
DeviceCloses ==
  (registered = {} /\ open) ~> (registered # {} \/ ~open \/ failed \/ Stuck)
=============================================================================
