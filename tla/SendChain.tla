----------------------------- MODULE SendChain -----------------------------
(***************************************************************************)
(* The sending half of a call (voicebox send_chain): the sound hardware's  *)
(* thread pushes captured frames into the packetizer, and send_packets,    *)
(* posted through a strand to the threads that run the io_service, pulls   *)
(* them out, encodes them and writes them to the stream.                   *)
(*                                                                         *)
(* The mutexes make single steps of what they protect; between them the    *)
(* threads interleave.  Ending the session runs on a worker when the far   *)
(* end or the link ended it and on the GUI's thread when the user hung up. *)
(***************************************************************************)
EXTENDS Integers, Sequences

CONSTANTS
  Workers,    \* the threads that run the io_service
  NoThread,   \* no thread
  GuiThread,  \* the thread of the user interface
  Faults,     \* what may happen: "unlink", "stop" (by command), "hangup" (by the user)
  MaxFrames   \* bound: frames captured

ASSUME SendAssumption ==
  MaxFrames \in Nat /\ NoThread \notin Workers /\ GuiThread \notin Workers

VARIABLES
  registered,  \* hw_in_ is one of audio_hardware's instreams
  encoder,     \* opus_encode_sink::encode_state_ is allocated
  chain,       \* whether the send_chain object exists
  ender,       \* the thread that is inside end_session
  queue,       \* packetizer::queue_, the numbers of the frames in it
  apc,         \* what the hardware's thread is about to do
  posted,      \* calls of send_packets that wait in the strand
  wpc,         \* what each worker is doing in send_packets
  hand,        \* the frame each worker is encoding, or 0
  connected,   \* stream::is_connected
  wire,        \* the datagrams written: frame and sequence number
  captured,    \* history: the number of frames captured
  ruined,      \* history: freed memory or a null encoder was used
  missed       \* history: a call found frames queued and the stream disconnected

chainVars  == <<registered, encoder, chain, ender>>
workerVars == <<posted, wpc, hand>>
vars == <<chainVars, queue, apc, workerVars, connected, wire, captured, ruined, missed>>

Init ==
  /\ registered = FALSE /\ encoder = FALSE /\ chain = TRUE /\ ender = NoThread
  /\ queue = <<>> /\ apc = "idle"
  /\ posted = 0
  /\ wpc = [w \in Workers |-> "idle"]
  /\ hand = [w \in Workers |-> 0]
  /\ connected = TRUE
  /\ wire = <<>> /\ captured = 0 /\ ruined = FALSE /\ missed = FALSE

\* Slip: without the strand every idle worker may run what was posted.
AnyWorker(w) == wpc[w] = "idle"

\* The strand lets one worker at a time into the chain's handlers.
StrandFree(w) == \A v \in Workers : wpc[v] = "idle"

-----------------------------------------------------------------------------
(* The session's control of the chain. *)

\* send_chain::enable, on a worker: first the encoder, then the hardware.
Enable ==
  /\ chain /\ ~encoder /\ ender = NoThread
  /\ encoder' = TRUE /\ registered' = TRUE
  /\ UNCHANGED <<chain, ender, queue, apc, workerVars, connected, wire, captured, ruined, missed>>

\* end_session begins with hw_in_.disable: remove_instream waits for the mutex
\* that a capture in progress holds.
BeginEnd(t) ==
  /\ chain /\ registered /\ ender = NoThread
  /\ t = GuiThread => "hangup" \in Faults
  /\ t # GuiThread => "stop" \in Faults /\ wpc[t] = "idle"
  /\ apc = "idle"
  /\ ender' = t /\ registered' = FALSE
  /\ UNCHANGED <<encoder, chain, queue, apc, workerVars, connected, wire, captured, ruined, missed>>

\* sink_.disable reaches the encoder and destroys its state.
DestroyEncoder ==
  /\ ender # NoThread /\ encoder
  /\ encoder' = FALSE
  /\ UNCHANGED <<registered, chain, ender, queue, apc, workerVars, connected, wire, captured, ruined, missed>>

\* send_ = nullptr frees the chain with whatever is still in its queue.
FreeChain ==
  /\ ender # NoThread /\ ~encoder
  /\ chain' = FALSE /\ ender' = NoThread
  /\ queue' = <<>>
  /\ UNCHANGED <<registered, encoder, apc, workerVars, connected, wire, captured, ruined, missed>>

Unlink ==
  /\ "unlink" \in Faults
  /\ connected' = ~connected
  /\ UNCHANGED <<chainVars, queue, apc, workerVars, wire, captured, ruined, missed>>

-----------------------------------------------------------------------------
(* The hardware's thread: capture, rtaudio_source, packetizer::accept_input. *)

\* Slip: the reader is notified of every second frame only.
NotifySecond(q) == Len(q) = 1

\* The reader is notified when the queue was empty.
Notify(q) == q = <<>>

Capture ==
  /\ registered /\ apc = "idle"
  /\ captured < MaxFrames
  /\ captured' = captured + 1
  /\ queue' = Append(queue, captured + 1)
  /\ apc' = IF Notify(queue) THEN "notify" ELSE "idle"
  /\ UNCHANGED <<chainVars, workerVars, connected, wire, ruined, missed>>

\* on_ready_read posts send_packets, after the packetizer's mutex was released.
OnReadyRead ==
  /\ apc = "notify"
  /\ apc' = "idle"
  /\ posted' = posted + 1
  /\ UNCHANGED <<chainVars, queue, wpc, hand, connected, wire, captured, ruined, missed>>

-----------------------------------------------------------------------------
(* The workers: send_packets and what it pulls. *)

CanRun(w) == posted > 0 /\ ender # w /\ StrandFree(w) /\ wpc[w] = "idle" /\ ~ruined

\* A posted call starts; a chain that was freed meanwhile is used nevertheless.
SendPackets(w) ==
  /\ CanRun(w)
  /\ posted' = posted - 1
  /\ wpc' = [wpc EXCEPT ![w] = IF chain /\ connected THEN "pull" ELSE "idle"]
  /\ ruined' = ~chain
  /\ missed' = (missed \/ (~connected /\ queue # <<>>))
  /\ UNCHANGED <<chainVars, queue, apc, hand, connected, wire, captured>>

\* packetizer::produce_output, and with nothing left send_packets returns.
PullFrame(w) ==
  /\ wpc[w] = "pull" /\ ~ruined
  /\ ruined' = ~chain
  /\ IF queue = <<>>
     THEN /\ wpc' = [wpc EXCEPT ![w] = "idle"]
          /\ UNCHANGED <<queue, hand>>
     ELSE /\ hand' = [hand EXCEPT ![w] = Head(queue)]
          /\ queue' = Tail(queue)
          /\ wpc' = [wpc EXCEPT ![w] = "encode"]
  /\ UNCHANGED <<chainVars, apc, posted, connected, wire, captured, missed>>

\* packet_sink::sequence_number_, which counts the datagrams written.
SequenceNumber == Len(wire)

\* opus_encode_sink::produce_output, then packet_sink's number and write.
EncodeAndWrite(w) ==
  /\ wpc[w] = "encode" /\ ~ruined
  /\ ruined' = ~(chain /\ encoder)
  /\ wire' = Append(wire, [frame |-> hand[w], seq |-> SequenceNumber])
  /\ hand' = [hand EXCEPT ![w] = 0]
  /\ wpc' = [wpc EXCEPT ![w] = "pull"]
  /\ UNCHANGED <<chainVars, queue, apc, posted, connected, captured, missed>>

Next ==
  \/ Enable \/ DestroyEncoder \/ FreeChain \/ Unlink
  \/ \E t \in Workers \cup {GuiThread} : BeginEnd(t)
  \/ Capture \/ OnReadyRead
  \/ \E w \in Workers : SendPackets(w) \/ PullFrame(w) \/ EncodeAndWrite(w)

Spec == Init /\ [][Next]_vars

-----------------------------------------------------------------------------
(* Properties. *)

TypeOK ==
  /\ registered \in BOOLEAN /\ encoder \in BOOLEAN /\ chain \in BOOLEAN
  /\ ender \in Workers \cup {NoThread, GuiThread}
  /\ queue \in Seq(1 .. MaxFrames)
  /\ apc \in {"idle", "notify"}
  /\ posted \in Nat
  /\ wpc \in [Workers -> {"idle", "pull", "encode"}]
  /\ hand \in [Workers -> 0 .. MaxFrames]
  /\ connected \in BOOLEAN
  /\ wire \in Seq([frame : 0 .. MaxFrames, seq : Nat])
  /\ captured \in 0 .. MaxFrames
  /\ ruined \in BOOLEAN /\ missed \in BOOLEAN

\* The number of frames taken out of the queue and not yet written.
InHand == IF \E w \in Workers : wpc[w] = "encode" THEN 1 ELSE 0

\* Across the two threads no frame is lost, duplicated or overtaken: the n-th
\* datagram carries the n-th frame captured and the number n - 1, and what a
\* worker holds and what is queued follow on, as long as the chain lives.
FramesInOrder ==
  /\ \A i \in DOMAIN wire : wire[i] = [frame |-> i, seq |-> i - 1]
  /\ \A w \in Workers : wpc[w] = "encode" => hand[w] = Len(wire) + 1
  /\ chain => /\ \A i \in DOMAIN queue : queue[i] = Len(wire) + InHand + i
              /\ captured = Len(wire) + InHand + Len(queue)

\* Every captured frame is written to the stream in the end, unless the session
\* ends or a call found the stream disconnected.
EveryFrameSent ==
  \A n \in 1 .. MaxFrames : captured >= n ~> Len(wire) >= n \/ ~chain \/ missed
=============================================================================
