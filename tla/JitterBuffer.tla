---------------------------- MODULE JitterBuffer ----------------------------
(***************************************************************************)
(* The jitter buffer of a call's receive_chain (voicebox): packets of      *)
(* audio arrive from the network, numbered and timestamped by the sender,  *)
(* and the sound hardware takes one frame at a time.                       *)
(*                                                                         *)
(* Both methods hold mutex_ while they touch the queue, and what they do   *)
(* outside of it belongs to the receiving thread alone, so each is one     *)
(* step.  Time is counted in frames: the sender sends one packet per frame *)
(* and packet n is sent at time n of the local clock.                      *)
(***************************************************************************)
EXTENDS Integers, Sequences, FiniteSets, SequencesExt

CONSTANTS
  MaxSkip,    \* max_skip
  QueueMax,   \* queue_max
  NumMod,     \* sequence numbers are taken modulo this (2^32)
  Clock,      \* our clock at the start, far from the zero of a dummy frame
  Remotes,    \* what the sender's clock may be at that moment
  Faults,     \* what the network may do: "lose", "reorder"
  MaxPackets, \* bound: packets sent
  MaxFlight   \* bound: packets on their way at any time

ASSUME JitterAssumption ==
  /\ MaxSkip \in Nat /\ QueueMax \in Nat /\ MaxPackets \in Nat /\ MaxFlight \in Nat
  /\ NumMod \in Nat \ {0} /\ MaxSkip < NumMod \div 2
  /\ Clock \in Nat \ {0} /\ Remotes \subseteq Nat \ {0}

VARIABLES
  queue,            \* jitterbuffer::queue_
  sequence_number,  \* jitterbuffer::sequence_number_
  time_skew,        \* jitterbuffer::time_skew_
  remote,           \* the sender's clock at the start
  sent,             \* the number of packets the sender has sent
  net,              \* the packets on their way
  next,             \* history: one past the last packet accepted
  newest,           \* history: one past the newest packet accepted
  start,            \* history: the packet that began the present timeline
  gone,             \* history: frames taken or dropped since then
  late,             \* history: packets that a newer one had overtaken
  raw,              \* history: packets that were queued at the sender's time
  left              \* history: packets that left the queue in local time

bufVars  == <<queue, sequence_number, time_skew>>
histVars == <<next, newest, start, gone, late, raw, left>>
vars == <<bufVars, remote, sent, net, histVars>>

\* A frame stands for the packet n it came from; a dummy frame is 12 zero bytes.
Frame(n, ts) == [n |-> n, ts |-> ts]
Missed == Frame(-1, 0)
Frames == [n : Int, ts : Int]

\* The timestamp the sender puts into packet n, and our clock.
RemoteTime(n) == remote + n
Now == Clock + sent

\* A packet's number as it is read back from its header.
SeqNo(f) == IF f = Missed THEN 0 ELSE f.n % NumMod

\* The unsigned difference of two sequence numbers, taken as a signed int.
Signed(d) == ((d + NumMod \div 2) % NumMod) - (NumMod \div 2)

Init ==
  /\ queue = <<>>
  /\ sequence_number = 0
  /\ time_skew = 0
  /\ remote \in Remotes
  /\ sent = 0
  /\ net = {}
  /\ next = 0 /\ newest = 0 /\ start = 0 /\ gone = 0
  /\ late = {} /\ raw = {} /\ left = {}

-----------------------------------------------------------------------------
(* The network: datagrams are lost or overtake one another. *)

\* The numbers on their way and the one expected are less than half the number
\* space apart; in the code that is 2^31 packets.
Send ==
  /\ sent < MaxPackets
  /\ Cardinality(net) < MaxFlight
  /\ \A m \in net \cup {next} : sent - m < NumMod \div 2
  /\ sent' = sent + 1
  /\ net' = net \cup {sent}
  /\ UNCHANGED <<bufVars, remote, histVars>>

Lose(n) ==
  /\ "lose" \in Faults
  /\ n \in net
  /\ net' = net \ {n}
  /\ UNCHANGED <<bufVars, remote, sent, histVars>>

Arrives(n) ==
  /\ n \in net
  /\ "reorder" \in Faults \/ \A m \in net : n <= m
  /\ net' = net \ {n}

-----------------------------------------------------------------------------
(* accept_input. *)

\* The queue with one more frame, in order of time again; frames of the same
\* time may come in either order.
Sorted(q, f) ==
  {InsertAt(q, i, f) : i \in {j \in 1 .. Len(q) + 1 :
     /\ \A k \in 1 .. j - 1 : q[k].ts <= f.ts
     /\ \A k \in j .. Len(q) : f.ts <= q[k].ts}}

\* Slip: one dummy frame, however many packets are missing.
OneMissed(q, k) == IF k > 0 THEN <<Missed>> \o q ELSE q

\* k dummy frames, which sort before all others.
WithMissed(q, k) == [i \in 1 .. k |-> Missed] \o q

\* Slip: the newest frames are discarded.
TrimTail(q) == IF Len(q) > QueueMax THEN SubSeq(q, 1, QueueMax) ELSE q

\* Discard frames from the head if we exceed the maximal queue size.
Trim(q) == IF Len(q) > QueueMax THEN SubSeq(q, Len(q) - QueueMax + 1, Len(q)) ELSE q

\* When receiving too large a seqdiff, do a full reset.
TooFar(diff) == diff > MaxSkip

\* The frames that are still queued when the packet is.
Queued(diff) == IF TooFar(diff) THEN <<>> ELSE queue

\* The skew, estimated from the first packet of a timeline, forgotten by a reset.
Skew(n, diff) ==
  IF TooFar(diff) THEN 0
  ELSE IF time_skew = 0 THEN Now - RemoteTime(n) ELSE time_skew

\* An out-of-order packet that is newer than the head of the queue is enqueued
\* at once, with the sender's timestamp, and again below like any other.
Fits(seq, diff) == diff < 0 /\ seq > (IF queue = <<>> THEN 0 ELSE SeqNo(Head(queue)))
Early(n, seq, diff) ==
  IF Fits(seq, diff) THEN Sorted(queue, Frame(n, RemoteTime(n))) ELSE {Queued(diff)}

\* The packet's time is the sender's: a reset forgets the skew that was just
\* estimated, and a skew of zero counts as none.
Raw(n, diff) == IF Skew(n, diff) = 0 THEN {n} ELSE {}

\* The packets of the frames fs that were converted to local time.
IsLocal(f, rs, ls) == f # Missed /\ f.n \notin rs /\ ~(f.n \in ls /\ f.ts = RemoteTime(f.n))
Local(fs, rs, ls) == {f.n : f \in {g \in fs : IsLocal(g, rs, ls)}}

\* Which sequence number is expected next.
Following(seq) == (seq + 1) % NumMod

Accept(n, seq, diff) ==
  \E q \in Early(n, seq, diff) : \E full \in Sorted(q, Frame(n, RemoteTime(n) + Skew(n, diff))) :
    LET all == WithMissed(full, IF diff > 0 /\ ~TooFar(diff) THEN diff ELSE 0)
    IN /\ queue' = Trim(all)
       /\ time_skew' = Skew(n, diff)
       /\ sequence_number' = Following(seq)
       /\ next' = n + 1
       /\ newest' = IF n >= newest THEN n + 1 ELSE newest
       /\ start' = IF TooFar(diff) THEN n ELSE start
       /\ gone' = (IF TooFar(diff) THEN 0 ELSE gone) + Len(all) - Len(Trim(all))
       /\ late' = late \cup (IF n < newest THEN {n} ELSE {})
       /\ raw' = raw \cup Raw(n, diff)
       /\ left' = left \cup Local(Range(all) \ Range(Trim(all)), raw', late')

AcceptInput(n) ==
  /\ Arrives(n)
  /\ Accept(n, n % NumMod, Signed((n % NumMod) - sequence_number))
  /\ UNCHANGED <<remote, sent>>

-----------------------------------------------------------------------------
\* produce_output, with a frame to return; from an empty queue it returns an
\* empty buffer and changes nothing.
ProduceOutput ==
  /\ queue # <<>>
  /\ queue' = Tail(queue)
  /\ gone' = gone + 1

\* The sound hardware pulls a frame through opus_decode_sink: a packet is decoded
\* and played, a missed one is concealed.
DecodeFrame ==
  /\ ProduceOutput
  /\ left' = left \cup Local({Head(queue)}, raw, late)
  /\ UNCHANGED <<sequence_number, time_skew, remote, sent, net, next, newest, start, late, raw>>

Next ==
  \/ Send
  \/ \E n \in net : Lose(n) \/ AcceptInput(n)
  \/ DecodeFrame

Spec == Init /\ [][Next]_vars

-----------------------------------------------------------------------------
(* Properties. *)

\* The queue never exceeds queue_max between calls.
TypeOK ==
  /\ queue \in Seq(Frames) /\ Len(queue) <= QueueMax
  /\ sequence_number \in 0 .. NumMod - 1
  /\ time_skew \in Int
  /\ sent \in 0 .. MaxPackets
  /\ net \subseteq 0 .. sent - 1
  /\ next \in 0 .. sent /\ newest \in 0 .. sent /\ start \in 0 .. sent
  /\ gone \in Nat
  /\ remote \in Remotes
  /\ late \subseteq 0 .. sent - 1 /\ raw \subseteq 0 .. sent - 1
  /\ left \subseteq Int

\* Every packet number since the present timeline began stands for exactly one
\* frame, taken, dropped or still queued, so the sound neither stretches nor
\* shrinks: jitterbuffer.cpp:65-66 count right, across losses, resets, trims and
\* the wrap-around.  Late packets only stretch it, as each is queued once or twice.
\* Nothing is said of where the silence for a missed packet is heard: not between
\* its neighbours (jitterbuffer.cpp:65-66), but at the head, where the sort puts it.
TimelineKept ==
  /\ gone + Len(queue) >= next - start
  /\ late = {} => gone + Len(queue) = next - start

\* What came in time is played in the order it was sent in, each packet once, and
\* what is dropped is older than all that is left: jitterbuffer.cpp:67 and 155.
\* That is so of the frames in local time; a late packet is among them, but may
\* have come after newer ones had left.
PlayedInOrder ==
  LET local == {i \in DOMAIN queue : IsLocal(queue[i], raw, late)}
  IN  /\ \A i, j \in local : i < j => queue[i].n < queue[j].n
      /\ \A i \in local, m \in left :
           queue[i].n # m /\ (queue[i].n > m \/ queue[i].n \in late)
=============================================================================
