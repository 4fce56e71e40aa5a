------------------------ MODULE JitterBuffer_proofs ------------------------
(***************************************************************************)
(* Proofs about JitterBuffer, for any network that loses and reorders, any *)
(* clocks and any bounds: the queue keeps its bound, no packet number that *)
(* was passed is without its frame, and what is in local time is played in *)
(* the order of sending.                                                   *)
(***************************************************************************)
EXTENDS JitterBuffer, TLAPS

-----------------------------------------------------------------------------
(* The helpers on queues. *)

\* Missed and the frame of a packet are frames.
LEMMA FrameType == /\ Missed \in Frames
                   /\ \A n, ts \in Int : Frame(n, ts) \in Frames
  BY DEF Missed, Frame, Frames

\* Concatenation of two queues.
LEMMA ConcatType ==
  ASSUME NEW q \in Seq(Frames), NEW r \in Seq(Frames)
  PROVE  q \o r \in Seq(Frames) /\ Len(q \o r) = Len(q) + Len(r)
  OBVIOUS

LEMMA ConcatElements ==
  ASSUME NEW q \in Seq(Frames), NEW r \in Seq(Frames)
  PROVE  \A k \in 1 .. Len(q) + Len(r) :
           (q \o r)[k] = IF k <= Len(q) THEN q[k] ELSE r[k - Len(q)]
  OBVIOUS

\* Three sequences one after the other.
Joined(a, b, c) == (a \o b) \o c

\* The second is one frame, and it stands at p.
SingleAt(a, b, c, p) ==
  /\ a \in Seq(Frames) /\ b \in Seq(Frames) /\ c \in Seq(Frames)
  /\ p \in Nat /\ Len(a) = p - 1 /\ Len(b) = 1

LEMMA ThreeParts ==
  ASSUME NEW a, NEW b, NEW c, NEW p, SingleAt(a, b, c, p)
  PROVE  /\ Joined(a, b, c)[p] = b[1]
         /\ \A k \in 1 .. p - 1 : Joined(a, b, c)[k] = a[k]
         /\ \A k \in p + 1 .. p + Len(c) : Joined(a, b, c)[k] = c[k - p]
<1>0. /\ a \in Seq(Frames) /\ b \in Seq(Frames) /\ c \in Seq(Frames)
      /\ p \in Nat /\ Len(a) = p - 1 /\ Len(b) = 1
  BY DEF SingleAt
<1>1. Len(c) \in Nat /\ p >= 1
  BY <1>0
<1>2. /\ a \o b \in Seq(Frames) /\ Len(a \o b) = Len(a) + Len(b)
      /\ \A k \in 1 .. Len(a) + Len(b) :
           (a \o b)[k] = IF k <= Len(a) THEN a[k] ELSE b[k - Len(a)]
  BY <1>0, ConcatType, ConcatElements
<1> DEFINE d == a \o b
<1> HIDE DEF d
<1>3. /\ d \in Seq(Frames) /\ Len(d) = p /\ d[p] = b[1]
      /\ \A k \in 1 .. p - 1 : d[k] = a[k]
  BY <1>0, <1>1, <1>2 DEF d
<1>4. \A k \in 1 .. Len(d) + Len(c) :
         (d \o c)[k] = IF k <= Len(d) THEN d[k] ELSE c[k - Len(d)]
  BY <1>0, <1>3, ConcatElements
<1> DEFINE e == d \o c
<1> HIDE DEF e
<1>5. \A k \in 1 .. p + Len(c) : e[k] = IF k <= p THEN d[k] ELSE c[k - p]
  BY <1>0, <1>1, <1>3, <1>4 DEF e
<1>6. /\ e[p] = b[1]
      /\ \A k \in 1 .. p - 1 : e[k] = a[k]
      /\ \A k \in p + 1 .. p + Len(c) : e[k] = c[k - p]
  <2>1. p \in 1 .. p + Len(c) /\ p <= p
    BY <1>0, <1>1
  <2>2. \A k \in 1 .. p - 1 : k \in 1 .. p + Len(c) /\ k <= p
    BY <1>0, <1>1
  <2>3. \A k \in p + 1 .. p + Len(c) : k \in 1 .. p + Len(c) /\ ~(k <= p)
    BY <1>0, <1>1
  <2> QED
    BY <2>1, <2>2, <2>3, <1>3, <1>5, Zenon
<1> QED
  BY <1>6 DEF d, e, Joined

\* InsertAt adds one element.
LEMMA InsertAtType ==
  ASSUME NEW q \in Seq(Frames), NEW f \in Frames, NEW i \in 1 .. Len(q) + 1
  PROVE  InsertAt(q, i, f) \in Seq(Frames) /\ Len(InsertAt(q, i, f)) = Len(q) + 1
<1> DEFINE before == SubSeq(q, 1, i - 1)
           after  == SubSeq(q, i, Len(q))
<1>1. /\ before \in Seq(Frames) /\ Len(before) = i - 1
      /\ after \in Seq(Frames) /\ Len(after) = Len(q) - i + 1
  OBVIOUS
<1>2. <<f>> \in Seq(Frames) /\ Len(<<f>>) = 1
  OBVIOUS
<1>3. InsertAt(q, i, f) = (before \o <<f>>) \o after
  BY DEF InsertAt
<1> HIDE DEF before, after
<1>4. before \o <<f>> \in Seq(Frames) /\ Len(before \o <<f>>) = i
  BY <1>1, <1>2, ConcatType
<1>5. /\ (before \o <<f>>) \o after \in Seq(Frames)
      /\ Len((before \o <<f>>) \o after) = i + (Len(q) - i + 1)
  BY <1>1, <1>4, ConcatType
<1> QED
  BY <1>3, <1>5

\* Sorting one more frame into a queue adds one element.
LEMMA SortedType ==
  ASSUME NEW q \in Seq(Frames), NEW f \in Frames, NEW r \in Sorted(q, f)
  PROVE  r \in Seq(Frames) /\ Len(r) = Len(q) + 1
  BY InsertAtType DEF Sorted

\* WithMissed adds k frames.
LEMMA WithMissedType ==
  ASSUME NEW q \in Seq(Frames), NEW k \in Nat
  PROVE  WithMissed(q, k) \in Seq(Frames) /\ Len(WithMissed(q, k)) = Len(q) + k
<1>1. [i \in 1 .. k |-> Missed] \in Seq(Frames) /\ Len([i \in 1 .. k |-> Missed]) = k
  BY FrameType
<1> QED
  BY <1>1 DEF WithMissed

\* Trim never lengthens a queue and leaves at most QueueMax frames.
LEMMA TrimType ==
  ASSUME NEW q \in Seq(Frames)
  PROVE  /\ Trim(q) \in Seq(Frames)
         /\ Len(Trim(q)) <= QueueMax /\ Len(Trim(q)) <= Len(q)
  BY JitterAssumption DEF Trim

-----------------------------------------------------------------------------
(* Sequence numbers. *)

\* Two numbers less than half the number space apart: the signed difference
\* of their residues is their difference, so that a wrap goes unnoticed.
LEMMA SignedDifference ==
  ASSUME NEW a \in Nat, NEW b \in Nat, b <= a, a - b < NumMod \div 2
  PROVE  Signed((a % NumMod) - (b % NumMod)) = a - b
<1> DEFINE M == NumMod
           H == NumMod \div 2
<1>1. M \in Nat \ {0} /\ H \in Nat /\ 2 * H <= M
  BY JitterAssumption
<1>2. /\ a % M \in 0 .. M - 1 /\ a \div M \in Nat /\ a = M * (a \div M) + (a % M)
      /\ b % M \in 0 .. M - 1 /\ b \div M \in Nat /\ b = M * (b \div M) + (b % M)
  BY <1>1
<1> DEFINE k == (a \div M) - (b \div M)
           d == (a % M) - (b % M)
<1>3. k \in Int /\ d \in Int /\ -M < d /\ d < M
  BY <1>1, <1>2
<1>4. M * k = M * (a \div M) - M * (b \div M)
  BY <1>1, <1>2
<1>5. a - b = M * k + d
  BY <1>1, <1>2, <1>4
<1>6. /\ k >= 2 => M * k >= 2 * M
      /\ k <= -1 => M * k <= -M
      /\ k = 1 => M * k = M
      /\ k = 0 => M * k = 0
  <2>1. M \in Nat /\ k \in Int
    BY <1>1, <1>3
  <2> HIDE DEF M, k
  <2>2. \A x \in Nat : M * (x + 2) = M * x + 2 * M /\ M * x >= 0
    BY <2>1
  <2>3. \A x \in Nat : M * (-1 - x) = -M - M * x
    BY <2>1
  <2>4. ASSUME k >= 2 PROVE M * k >= 2 * M
    <3>1. k - 2 \in Nat /\ k = (k - 2) + 2
      BY <2>1, <2>4
    <3> QED
      BY <2>1, <2>2, <3>1
  <2>5. ASSUME k <= -1 PROVE M * k <= -M
    <3>1. -1 - k \in Nat /\ k = -1 - (-1 - k)
      BY <2>1, <2>5
    <3> QED
      BY <2>1, <2>2, <2>3, <3>1
  <2> QED
    BY <2>1, <2>4, <2>5
<1>7. k = 0 \/ k = 1
  BY <1>1, <1>3, <1>5, <1>6
<1>8. d = a - b \/ d = a - b - M
  BY <1>1, <1>3, <1>5, <1>6, <1>7
<1>9. \A x \in 0 .. M - 1 : x % M = x /\ (x - M) % M = x
  BY <1>1
<1>10. (d + H) % M = a - b + H
  BY <1>1, <1>8, <1>9
<1> QED
  BY <1>1, <1>10 DEF Signed

-----------------------------------------------------------------------------
(* Type correctness, over any network. *)

\* The sequence numbers of accept_input are in range.
LEMMA FollowingType ==
  ASSUME NEW n \in Nat
  PROVE  n % NumMod \in 0 .. NumMod - 1 /\ Following(n % NumMod) \in 0 .. NumMod - 1
  BY JitterAssumption DEF Following

\* What accept_input does: a queue "full" of the frames that were queued and one
\* more (or two, for a late packet) gets k dummy frames and is trimmed.
LEMMA AcceptEffect ==
  ASSUME TypeOK, NEW n \in net, AcceptInput(n)
  PROVE  \E diff \in Int, full \in Seq(Frames), k \in Nat :
           /\ diff = Signed((n % NumMod) - sequence_number)
           /\ k = (IF diff > 0 /\ ~TooFar(diff) THEN diff ELSE 0)
           /\ Len(full) >= Len(Queued(diff)) + 1
           /\ diff >= 0 => Len(full) = Len(Queued(diff)) + 1
           /\ queue' = Trim(WithMissed(full, k))
           /\ gone' = (IF TooFar(diff) THEN 0 ELSE gone)
                        + Len(WithMissed(full, k)) - Len(Trim(WithMissed(full, k)))
           /\ time_skew' = Skew(n, diff)
           /\ start' = IF TooFar(diff) THEN n ELSE start
<1> DEFINE seq == n % NumMod
           diff == Signed(seq - sequence_number)
           k == IF diff > 0 /\ ~TooFar(diff) THEN diff ELSE 0
           last == Frame(n, RemoteTime(n) + Skew(n, diff))
           Result(all) == /\ queue' = Trim(all)
                          /\ gone' = (IF TooFar(diff) THEN 0 ELSE gone) + Len(all) - Len(Trim(all))
                          /\ time_skew' = Skew(n, diff)
                          /\ start' = IF TooFar(diff) THEN n ELSE start
<1>1. n \in Nat /\ seq \in 0 .. NumMod - 1
  BY FollowingType, JitterAssumption DEF TypeOK
<1>2. diff \in Int
  BY <1>1, JitterAssumption DEF Signed, TypeOK
<1>3. RemoteTime(n) \in Int /\ Skew(n, diff) \in Int
  BY <1>1, JitterAssumption DEF TypeOK, RemoteTime, Skew, Now
<1>4. Frame(n, RemoteTime(n)) \in Frames /\ last \in Frames
  BY <1>1, <1>3, FrameType
<1>5. Queued(diff) \in Seq(Frames)
  BY DEF Queued, TypeOK
<1>6. \A q \in Early(n, seq, diff) :
         /\ q \in Seq(Frames) /\ Len(q) >= Len(Queued(diff)) /\ (diff >= 0 => q = Queued(diff))
  <2>1. CASE Fits(seq, diff)
    <3>1. diff < 0 /\ Queued(diff) = queue /\ queue \in Seq(Frames)
      BY <2>1, <1>2, JitterAssumption DEF Fits, Queued, TooFar, TypeOK
    <3>2. \A q \in Early(n, seq, diff) : q \in Seq(Frames) /\ Len(q) = Len(queue) + 1
      BY <2>1, <3>1, <1>4, SortedType DEF Early
    <3> QED
      BY <3>1, <3>2, <1>2
  <2>2. CASE ~Fits(seq, diff)
    BY <2>2, <1>5 DEF Early
  <2> QED
    BY <2>1, <2>2
<1>7. PICK q \in Early(n, seq, diff) : \E full \in Sorted(q, last) : Result(WithMissed(full, k))
  BY DEF AcceptInput, Accept
<1>8. PICK full \in Sorted(q, last) : Result(WithMissed(full, k))
  BY <1>7
<1>9. full \in Seq(Frames) /\ Len(full) = Len(q) + 1
  BY <1>4, <1>6, SortedType
<1>10. k \in Nat
  BY <1>2
<1>11. diff = Signed((n % NumMod) - sequence_number)
  OBVIOUS
<1> HIDE DEF seq, diff, last
<1>12. Len(full) >= Len(Queued(diff)) + 1 /\ (diff >= 0 => Len(full) = Len(Queued(diff)) + 1)
  <2>1. Len(q) \in Nat /\ Len(full) \in Nat /\ Len(Queued(diff)) \in Nat
    BY <1>5, <1>6, <1>9
  <2> QED
    BY <2>1, <1>6, <1>9
<1> QED
  BY <1>2, <1>8, <1>9, <1>10, <1>11, <1>12

\* What leaves the queue are packets.
LEMMA LocalType ==
  ASSUME NEW fs \in SUBSET Frames, NEW rs, NEW ls
  PROVE  Local(fs, rs, ls) \subseteq Int
<1> SUFFICES ASSUME NEW x \in Local(fs, rs, ls) PROVE x \in Int
  OBVIOUS
<1>1. PICK f \in fs : x = f.n
  BY DEF Local
<1> QED
  BY <1>1 DEF Frames

LEMMA AcceptLeaves ==
  ASSUME TypeOK, NEW n \in net, AcceptInput(n)
  PROVE  left' \subseteq Int
<1> DEFINE seq == n % NumMod
           diff == Signed(seq - sequence_number)
           k == IF diff > 0 /\ ~TooFar(diff) THEN diff ELSE 0
           last == Frame(n, RemoteTime(n) + Skew(n, diff))
<1>0. n \in Nat /\ seq \in 0 .. NumMod - 1 /\ sequence_number \in 0 .. NumMod - 1
  BY FollowingType, JitterAssumption DEF TypeOK
<1>1. /\ n \in Nat /\ diff \in Int /\ k \in Nat /\ queue \in Seq(Frames) /\ left \subseteq Int
      /\ sent \in Nat /\ time_skew \in Int /\ remote \in Nat /\ Clock \in Nat
  <2>1. diff \in Int
    BY <1>0, JitterAssumption DEF Signed
  <2>2. k \in Nat
    BY <2>1
  <2> HIDE DEF diff, k
  <2> QED
    BY <1>0, <2>1, <2>2, JitterAssumption DEF TypeOK
<1>2. Frame(n, RemoteTime(n)) \in Frames /\ last \in Frames
  <2>1. RemoteTime(n) \in Int /\ Skew(n, diff) \in Int
    BY <1>1 DEF RemoteTime, Skew, Now
  <2> QED
    BY <2>1, <1>1, FrameType
<1>3. \A q \in Early(n, seq, diff) : q \in Seq(Frames)
  <2>1. Queued(diff) \in Seq(Frames)
    BY <1>1 DEF Queued
  <2>2. \A q \in Sorted(queue, Frame(n, RemoteTime(n))) : q \in Seq(Frames)
    BY <1>1, <1>2, SortedType
  <2> QED
    BY <2>1, <2>2 DEF Early
<1> DEFINE Leaves(full) ==
      left' = left \cup Local(Range(WithMissed(full, k)) \ Range(Trim(WithMissed(full, k))), raw', late')
<1>a. PICK q \in Early(n, seq, diff) : \E full \in Sorted(q, last) : Leaves(full)
  BY DEF AcceptInput, Accept
<1>4. PICK full \in Sorted(q, last) : Leaves(full)
  BY <1>a
<1> HIDE DEF k, last
<1>5. WithMissed(full, k) \in Seq(Frames)
  BY <1>1, <1>2, <1>3, <1>4, SortedType, WithMissedType
<1>6. Range(WithMissed(full, k)) \subseteq Frames
  BY <1>5 DEF Range
<1> QED
  BY <1>1, <1>4, <1>6, LocalType

LEMMA TypeInvariance == TypeOK /\ [Next]_vars => TypeOK'
<1> SUFFICES ASSUME TypeOK, [Next]_vars PROVE TypeOK'
  OBVIOUS
<1> USE JitterAssumption
<1>1. CASE Send
  BY <1>1 DEF Send, TypeOK, bufVars, histVars
<1>2. ASSUME NEW n \in net, Lose(n) PROVE TypeOK'
  BY <1>2 DEF Lose, TypeOK, bufVars, histVars
<1>3. ASSUME NEW n \in net, AcceptInput(n) PROVE TypeOK'
  <2>1. n \in Nat /\ n < sent /\ Following(n % NumMod) \in 0 .. NumMod - 1
    BY FollowingType DEF TypeOK
  <2>2. /\ UNCHANGED <<remote, sent>> /\ net' = net \ {n}
        /\ sequence_number' = Following(n % NumMod)
        /\ next' = n + 1
        /\ newest' = IF n >= newest THEN n + 1 ELSE newest
        /\ late' \subseteq late \cup {n} /\ raw' \subseteq raw \cup {n}
    BY <1>3 DEF AcceptInput, Arrives, Accept, Raw
  <2>3. PICK diff \in Int, full \in Seq(Frames), k \in Nat :
          /\ queue' = Trim(WithMissed(full, k))
          /\ gone' = (IF TooFar(diff) THEN 0 ELSE gone)
                       + Len(WithMissed(full, k)) - Len(Trim(WithMissed(full, k)))
          /\ time_skew' = Skew(n, diff)
          /\ start' = IF TooFar(diff) THEN n ELSE start
    BY <1>3, AcceptEffect
  <2>4. Len(full) \in Nat
    OBVIOUS
  <2>5. WithMissed(full, k) \in Seq(Frames) /\ Len(WithMissed(full, k)) = Len(full) + k
    BY WithMissedType
  <2>6. /\ queue' \in Seq(Frames) /\ Len(queue') <= QueueMax
        /\ Len(queue') \in Nat /\ Len(queue') <= Len(WithMissed(full, k))
    BY <2>3, <2>5, TrimType
  <2>7. gone' \in Nat
    BY <2>3, <2>4, <2>5, <2>6 DEF TypeOK
  <2>8. time_skew' \in Int
    BY <2>1, <2>3 DEF Skew, Now, RemoteTime, TypeOK
  <2>9. /\ sequence_number' \in 0 .. NumMod - 1
        /\ sent' \in 0 .. MaxPackets /\ net' \subseteq 0 .. sent' - 1
        /\ next' \in 0 .. sent' /\ newest' \in 0 .. sent' /\ start' \in 0 .. sent'
        /\ remote' \in Remotes /\ late' \subseteq 0 .. sent' - 1 /\ raw' \subseteq 0 .. sent' - 1
    BY <2>1, <2>2, <2>3 DEF TypeOK
  <2>10. left' \subseteq Int
    BY <1>3, AcceptLeaves
  <2> QED
    BY <2>6, <2>7, <2>8, <2>9, <2>10 DEF TypeOK
<1>4. CASE DecodeFrame
  <2>1. /\ queue' = Tail(queue) /\ gone' = gone + 1
        /\ left' = left \cup Local({Head(queue)}, raw, late)
        /\ UNCHANGED <<sequence_number, time_skew, remote, sent, net, next, newest, start, late, raw>>
    BY <1>4 DEF DecodeFrame, ProduceOutput
  <2>2. queue # <<>> /\ Head(queue) \in Frames /\ Tail(queue) \in Seq(Frames)
        /\ Len(Tail(queue)) = Len(queue) - 1
    BY <1>4 DEF DecodeFrame, ProduceOutput, TypeOK
  <2>3. left' \subseteq Int /\ gone' \in Nat
    <3>1. Local({Head(queue)}, raw, late) \subseteq Int
      BY <2>2, LocalType
    <3>2. left' \subseteq Int
      BY <2>1, <3>1 DEF TypeOK
    <3>3. gone' \in Nat
      BY <2>1 DEF TypeOK
    <3> QED
      BY <3>2, <3>3
  <2>4. queue' \in Seq(Frames) /\ Len(queue') <= QueueMax
    BY <2>1, <2>2 DEF TypeOK
  <2> QED
    BY <2>1, <2>3, <2>4 DEF TypeOK
<1>5. CASE UNCHANGED vars
  BY <1>5 DEF vars, bufVars, histVars, TypeOK
<1> QED
  BY <1>1, <1>2, <1>3, <1>4, <1>5 DEF Next

\* Over any network, clock and pattern of calls every variable keeps its type and
\* the queue at most queue_max frames (the loop at jitterbuffer.cpp:167).
THEOREM TypeCorrect == Spec => []TypeOK
<1>1. Init => TypeOK
  BY JitterAssumption DEF Init, TypeOK
<1> QED
  BY <1>1, TypeInvariance, PTL DEF Spec

-----------------------------------------------------------------------------
(* The timeline. *)

\* The number after the one read from a packet is the number of the next packet.
LEMMA FollowingIsNext ==
  ASSUME NEW n \in Nat
  PROVE  Following(n % NumMod) = (n + 1) % NumMod
<1> DEFINE M == NumMod
           q == n \div M
           r == n % M
<1>1. M \in Nat \ {0} /\ q \in Nat /\ r \in 0 .. M - 1 /\ n = M * q + r
  BY JitterAssumption
<1>2. \A x \in 0 .. M - 1 : (M * q + x) % M = x
  BY <1>1
<1>3. CASE r + 1 < M
  BY <1>1, <1>2, <1>3 DEF Following
<1>4. CASE r + 1 = M
  <2>1. n + 1 = M * q + M /\ M * q + M = M * (q + 1)
    BY <1>1, <1>4
  <2>2. (M * (q + 1)) % M = 0
    BY <1>1
  <2>3. M % M = 0
    BY <1>1
  <2> QED
    BY <1>4, <2>1, <2>2, <2>3 DEF Following
<1> QED
  BY <1>1, <1>3, <1>4

\* TimelineKept alone is not inductive: how many dummy frames are added depends
\* on the number expected, which is right as long as nothing that is on its way is
\* half the number space newer, and is the newest as long as no packet is late.
OnTime ==
  /\ \A m \in net \cup {next} : sent - m <= NumMod \div 2
  /\ sequence_number = next % NumMod
  /\ next <= newest /\ (late = {} => newest = next)
  /\ TimelineKept

LEMMA OnTimeKept == TypeOK /\ OnTime /\ [Next]_vars => OnTime'
<1> SUFFICES ASSUME TypeOK, OnTime, [Next]_vars PROVE OnTime'
  OBVIOUS
<1> DEFINE H == NumMod \div 2
<1>0. H \in Nat \ {0}
  BY JitterAssumption
<1> HIDE DEF H
<1>1. CASE Send
  <2>1. /\ sent' = sent + 1 /\ net' = net \cup {sent} /\ \A m \in net \cup {next} : sent - m < H
        /\ UNCHANGED <<queue, sequence_number, next, newest, start, gone, late>>
    BY <1>1 DEF Send, bufVars, histVars, H
  <2>2. TimelineKept'
    BY <2>1 DEF OnTime, TimelineKept
  <2>3. \A m \in net' \cup {next'} : sent' - m <= H
    BY <1>0, <2>1 DEF OnTime, TypeOK
  <2> QED
    BY <2>1, <2>2, <2>3 DEF OnTime, H
<1>2. ASSUME NEW n \in net, Lose(n) PROVE OnTime'
  BY <1>2 DEF Lose, OnTime, TimelineKept, bufVars, histVars
<1>3. ASSUME NEW n \in net, AcceptInput(n) PROVE OnTime'
  <2>1. /\ n \in Nat /\ n < sent /\ next \in Nat /\ n - next < H /\ newest \in Nat /\ start \in Nat
        /\ sent \in Nat
    BY <1>0, JitterAssumption DEF TypeOK, OnTime, H
  <2>2. /\ sent' = sent /\ net' = net \ {n}
        /\ sequence_number' = Following(n % NumMod)
        /\ next' = n + 1
        /\ newest' = IF n >= newest THEN n + 1 ELSE newest
        /\ late' = late \cup (IF n < newest THEN {n} ELSE {})
    BY <1>3 DEF AcceptInput, Arrives, Accept
  <2>3. PICK diff \in Int, full \in Seq(Frames), k \in Nat :
          /\ diff = Signed((n % NumMod) - sequence_number)
          /\ k = (IF diff > 0 /\ ~TooFar(diff) THEN diff ELSE 0)
          /\ Len(full) >= Len(Queued(diff)) + 1
          /\ diff >= 0 => Len(full) = Len(Queued(diff)) + 1
          /\ queue' = Trim(WithMissed(full, k))
          /\ gone' = (IF TooFar(diff) THEN 0 ELSE gone)
                       + Len(WithMissed(full, k)) - Len(Trim(WithMissed(full, k)))
          /\ start' = IF TooFar(diff) THEN n ELSE start
    BY <1>3, AcceptEffect
  <2>4. next <= n => diff = n - next
    BY <2>1, <2>3, SignedDifference DEF OnTime, H
  <2>5. TooFar(diff) => diff >= 0
    BY JitterAssumption DEF TooFar
  <2>6. Len(full) \in Nat /\ Len(queue) \in Nat /\ gone \in Nat
    BY DEF TypeOK
  <2>7. WithMissed(full, k) \in Seq(Frames) /\ Len(WithMissed(full, k)) = Len(full) + k
    BY WithMissedType
  <2>8. Len(queue') \in Nat
    BY <2>3, <2>7, TrimType
  <2>9. gone' + Len(queue') = (IF TooFar(diff) THEN 0 ELSE gone) + Len(full) + k
    <3>1. gone' = (IF TooFar(diff) THEN 0 ELSE gone) + (Len(full) + k) - Len(queue')
      BY <2>3, <2>7
    <3> QED
      BY <2>6, <2>8, <3>1
  <2>10. TimelineKept'
    <3>1. CASE TooFar(diff)
      <4>1. Len(full) = 1 /\ k = 0 /\ start' = n
        BY <2>3, <2>5, <3>1 DEF Queued
      <4> QED
        BY <2>1, <2>2, <2>9, <3>1, <4>1 DEF TimelineKept
    <3>2. CASE ~TooFar(diff)
      <4>1. /\ gone' + Len(queue') = gone + Len(full) + k /\ start' = start
            /\ Len(full) >= Len(queue) + 1 /\ (diff >= 0 => Len(full) = Len(queue) + 1)
            /\ k = IF diff > 0 THEN diff ELSE 0
        BY <2>3, <2>9, <3>2 DEF Queued
      <4>2. gone + Len(queue) >= next - start /\ (late = {} => gone + Len(queue) = next - start)
        BY DEF OnTime, TimelineKept
      <4>3. CASE next <= n
        <5>1. diff = n - next /\ diff >= 0
          BY <2>1, <2>4, <4>3
        <5>2. gone' + Len(queue') = gone + (Len(queue) + 1) + (n - next)
          BY <5>1, <4>1, <2>6
        <5>3. late' = {} => late = {}
          BY <2>2
        <5> QED
          BY <5>2, <5>3, <4>1, <4>2, <2>1, <2>2, <2>6 DEF TimelineKept
      <4>4. CASE n < next
        <5>1. n \in late'
          BY <4>4, <2>1, <2>2 DEF OnTime
        <5>2. gone' + Len(queue') >= gone + Len(queue) + 1
          BY <4>1, <2>6
        <5> QED
          BY <5>1, <5>2, <4>1, <4>2, <4>4, <2>1, <2>2, <2>6 DEF TimelineKept
      <4> QED
        BY <4>3, <4>4, <2>1
    <3> QED
      BY <3>1, <3>2
  <2>11. sequence_number' = next' % NumMod
    BY <2>1, <2>2, FollowingIsNext
  <2>12. next' <= newest' /\ (late' = {} => newest' = next')
    BY <2>1, <2>2 DEF OnTime
  <2>13. \A m \in net' \cup {next'} : sent' - m <= H
    <3>1. \A m \in net : sent - m <= H
      BY DEF OnTime, H
    <3> QED
      BY <3>1, <1>0, <2>1, <2>2 DEF TypeOK
  <2> QED
    BY <2>10, <2>11, <2>12, <2>13 DEF OnTime, H
<1>4. CASE DecodeFrame
  <2>1. /\ queue # <<>> /\ queue' = Tail(queue) /\ gone' = gone + 1
        /\ UNCHANGED <<sequence_number, sent, net, next, newest, start, late>>
    BY <1>4 DEF DecodeFrame, ProduceOutput
  <2>2. Len(queue') = Len(queue) - 1 /\ Len(queue) \in Nat
    BY <2>1 DEF TypeOK
  <2> QED
    BY <2>1, <2>2 DEF OnTime, TimelineKept, TypeOK
<1>5. CASE UNCHANGED vars
  BY <1>5 DEF vars, bufVars, histVars, OnTime, TimelineKept
<1> QED
  BY <1>1, <1>2, <1>3, <1>4, <1>5 DEF Next

\* Over any network, between any two clocks, every packet number that was passed has
\* its frame, and exactly one as long as none was late: jitterbuffer.cpp:65-66 count
\* right for any queue_max, max_skip and width of the sequence number, across resets,
\* trims and the wrap-around.
THEOREM TimelineIsKept == Spec => []TimelineKept
<1>1. Init => OnTime
  <2>1. 0 % NumMod = 0 /\ NumMod \div 2 \in Nat
    BY JitterAssumption
  <2> QED
    BY <2>1 DEF Init, OnTime, TimelineKept
<1>2. OnTime => TimelineKept
  BY DEF OnTime
<1> QED
  BY <1>1, <1>2, TypeCorrect, OnTimeKept, PTL DEF Spec

-----------------------------------------------------------------------------
(* The order of play. *)

\* Where the frames of a queue are once one more has been sorted into it.
LEMMA SortedElements ==
  ASSUME NEW q \in Seq(Frames), NEW f \in Frames, NEW r \in Sorted(q, f)
  PROVE  \E p \in 1 .. Len(q) + 1 :
           /\ r \in Seq(Frames) /\ Len(r) = Len(q) + 1 /\ r[p] = f
           /\ \A k \in 1 .. p - 1 : r[k] = q[k] /\ q[k].ts <= f.ts
           /\ \A k \in p + 1 .. Len(r) : r[k] = q[k - 1] /\ f.ts <= q[k - 1].ts
<1>1. PICK p \in 1 .. Len(q) + 1 :
        /\ r = InsertAt(q, p, f)
        /\ \A k \in 1 .. p - 1 : q[k].ts <= f.ts
        /\ \A k \in p .. Len(q) : f.ts <= q[k].ts
  BY DEF Sorted
<1> DEFINE before == SubSeq(q, 1, p - 1)
           after  == SubSeq(q, p, Len(q))
<1>2. r = (before \o <<f>>) \o after
  BY <1>1 DEF InsertAt
<1>3. r \in Seq(Frames) /\ Len(r) = Len(q) + 1
  BY <1>1, InsertAtType
<1>4. /\ before \in Seq(Frames) /\ Len(before) = p - 1 /\ \A k \in 1 .. p - 1 : before[k] = q[k]
      /\ after \in Seq(Frames) /\ Len(after) = Len(q) - p + 1
      /\ \A k \in 1 .. Len(after) : after[k] = q[p + k - 1]
  OBVIOUS
<1>5. <<f>> \in Seq(Frames) /\ Len(<<f>>) = 1 /\ <<f>>[1] = f
  OBVIOUS
<1>6. p \in Nat /\ Len(r) = p + Len(after)
  BY <1>3, <1>4
<1> HIDE DEF before, after
<1>7. /\ r[p] = f
      /\ \A k \in 1 .. p - 1 : r[k] = before[k]
      /\ \A k \in p + 1 .. Len(r) : r[k] = after[k - p]
  <2>1. PICK one \in Seq(Frames) : one = <<f>> /\ Len(one) = 1 /\ one[1] = f
    BY <1>5
  <2>2. r = Joined(before, one, after)
    BY <1>2, <2>1 DEF Joined
  <2>3. before \in Seq(Frames) /\ after \in Seq(Frames) /\ Len(before) = p - 1
    BY <1>4
  <2>4. /\ Joined(before, one, after)[p] = one[1]
        /\ \A k \in 1 .. p - 1 : Joined(before, one, after)[k] = before[k]
        /\ \A k \in p + 1 .. p + Len(after) : Joined(before, one, after)[k] = after[k - p]
    <3>1. SingleAt(before, one, after, p)
      BY <1>6, <2>1, <2>3 DEF SingleAt
    <3> QED
      BY <3>1, ThreeParts
  <2> QED
    BY <1>6, <2>1, <2>2, <2>4
<1>8. \A k \in p + 1 .. Len(r) : after[k - p] = q[k - 1] /\ k - 1 \in p .. Len(q)
  <2> SUFFICES ASSUME NEW k \in p + 1 .. Len(r)
               PROVE  after[k - p] = q[k - 1] /\ k - 1 \in p .. Len(q)
    OBVIOUS
  <2>1. k - p \in 1 .. Len(after) /\ p + (k - p) - 1 = k - 1
    BY <1>3, <1>4
  <2>2. after[k - p] = q[p + (k - p) - 1]
    BY <2>1, <1>4
  <2>3. k - 1 \in p .. Len(q)
    BY <1>3, <1>6
  <2> QED
    BY <2>1, <2>2, <2>3
<1>9. \A k \in 1 .. p - 1 : r[k] = q[k] /\ q[k].ts <= f.ts
  BY <1>1, <1>4, <1>7
<1>10. \A k \in p + 1 .. Len(r) : r[k] = q[k - 1] /\ f.ts <= q[k - 1].ts
  <2> SUFFICES ASSUME NEW k \in p + 1 .. Len(r)
               PROVE  r[k] = q[k - 1] /\ f.ts <= q[k - 1].ts
    OBVIOUS
  <2>1. r[k] = after[k - p]
    BY <1>7
  <2>2. after[k - p] = q[k - 1] /\ k - 1 \in p .. Len(q)
    BY <1>8
  <2>3. f.ts <= q[k - 1].ts
    BY <1>1, <2>2
  <2> QED
    BY <2>1, <2>2, <2>3
<1> QED
  BY <1>1, <1>3, <1>7, <1>9, <1>10

\* What is in a queue after a frame was sorted into it, or dummy frames were added.
LEMMA SortedRange ==
  ASSUME NEW q \in Seq(Frames), NEW f \in Frames, NEW r \in Sorted(q, f)
  PROVE  \A k \in DOMAIN r : r[k] = f \/ \E j \in DOMAIN q : r[k] = q[j]
<1>1. PICK p \in 1 .. Len(q) + 1 :
        /\ r \in Seq(Frames) /\ Len(r) = Len(q) + 1 /\ r[p] = f
        /\ \A k \in 1 .. p - 1 : r[k] = q[k]
        /\ \A k \in p + 1 .. Len(r) : r[k] = q[k - 1]
  BY SortedElements
<1> SUFFICES ASSUME NEW k \in DOMAIN r, k # p PROVE \E j \in DOMAIN q : r[k] = q[j]
  BY <1>1
<1>2. CASE k < p
  BY <1>1, <1>2
<1>3. CASE k > p
  <2>1. k - 1 \in DOMAIN q /\ r[k] = q[k - 1]
    BY <1>1, <1>3
  <2> QED
    BY <2>1
<1> QED
  BY <1>1, <1>2, <1>3

LEMMA WithMissedElements ==
  ASSUME NEW q \in Seq(Frames), NEW k \in Nat
  PROVE  \A i \in DOMAIN WithMissed(q, k) :
           \/ i <= k /\ WithMissed(q, k)[i] = Missed
           \/ i > k /\ i - k \in DOMAIN q /\ WithMissed(q, k)[i] = q[i - k]
<1> DEFINE m == [i \in 1 .. k |-> Missed]
<1>1. m \in Seq(Frames) /\ Len(m) = k /\ \A i \in 1 .. k : m[i] = Missed
  BY FrameType
<1> HIDE DEF m
<1>2. \A i \in 1 .. k + Len(q) : (m \o q)[i] = IF i <= k THEN m[i] ELSE q[i - k]
  BY <1>1, ConcatElements
<1>3. WithMissed(q, k) = m \o q
  BY DEF WithMissed, m
<1>4. WithMissed(q, k) \in Seq(Frames) /\ Len(WithMissed(q, k)) = k + Len(q) /\ Len(q) \in Nat
  <2>1. Len(q) \in Nat
    OBVIOUS
  <2>2. WithMissed(q, k) \in Seq(Frames) /\ Len(WithMissed(q, k)) = Len(q) + k
    BY WithMissedType
  <2> QED
    BY <2>1, <2>2
<1> SUFFICES ASSUME NEW i \in 1 .. k + Len(q)
             PROVE  \/ i <= k /\ (m \o q)[i] = Missed
                    \/ i > k /\ i - k \in DOMAIN q /\ (m \o q)[i] = q[i - k]
  BY <1>3, <1>4
<1>5. (m \o q)[i] = IF i <= k THEN m[i] ELSE q[i - k]
  BY <1>2
<1>6. CASE i <= k
  <2>1. (m \o q)[i] = m[i] /\ i \in 1 .. k
    BY <1>5, <1>6
  <2> QED
    BY <2>1, <1>1, <1>6
<1>7. CASE i > k
  <2>1. i - k \in DOMAIN q
    BY <1>4, <1>7
  <2>2. (m \o q)[i] = q[i - k]
    BY <1>5, <1>7
  <2> QED
    BY <2>1, <2>2, <1>7
<1>8. i <= k \/ i > k
  OBVIOUS
<1> QED
  BY <1>6, <1>7, <1>8, Zenon

\* Trim drops the first frames.
LEMMA TrimElements ==
  ASSUME NEW q \in Seq(Frames)
  PROVE  \E d \in 0 .. Len(q) :
           /\ Len(Trim(q)) = Len(q) - d
           /\ \A i \in 1 .. Len(q) - d : Trim(q)[i] = q[i + d]
<1>1. CASE Len(q) > QueueMax
  <2> DEFINE d == Len(q) - QueueMax
  <2>1. d \in 0 .. Len(q) /\ Trim(q) = SubSeq(q, d + 1, Len(q))
    BY <1>1, JitterAssumption DEF Trim
  <2>2. Len(SubSeq(q, d + 1, Len(q))) = Len(q) - d
    BY <2>1
  <2>3. \A i \in 1 .. Len(q) - d : SubSeq(q, d + 1, Len(q))[i] = q[i + d]
    BY <2>1
  <2> QED
    BY <2>1, <2>2, <2>3
<1>2. CASE ~(Len(q) > QueueMax)
  BY <1>2 DEF Trim
<1> QED
  BY <1>1, <1>2

\* The packets that are no longer to come.
Past == {m \in 0 .. newest - 1 : m \notin net}

\* The frames in local time of a queue q are in the order of their packets, which are
\* among N; all are behind the sender's time by the same skew, if by any.
InTime(q, N, rs, ls, skew) ==
  /\ \A i \in DOMAIN q :
       /\ q[i] # Missed => q[i].n \in N
       /\ IsLocal(q[i], rs, ls) => skew # 0 /\ q[i].ts = RemoteTime(q[i].n) + skew
  /\ \A i, j \in DOMAIN q :
       IsLocal(q[i], rs, ls) /\ IsLocal(q[j], rs, ls) /\ i < j => q[i].n < q[j].n

\* No frame in local time of a queue is the packet n's.
NoneOf(n, q, rs, ls) == \A i \in DOMAIN q : IsLocal(q[i], rs, ls) => q[i].n # n

\* Sorting keeps a queue in time: frames with one skew are in the order of their numbers.
LEMMA SortedInTime ==
  ASSUME NEW N \in SUBSET Nat, NEW rs, NEW ls, NEW skew \in Int, remote \in Nat,
         NEW q \in Seq(Frames), NEW f \in Frames, NEW r \in Sorted(q, f),
         InTime(q, N, rs, ls, skew), NoneOf(f.n, q, rs, ls), f.n \in N,
         IsLocal(f, rs, ls) => skew # 0 /\ f.ts = RemoteTime(f.n) + skew
  PROVE  /\ InTime(r, N, rs, ls, skew)
         /\ ~IsLocal(f, rs, ls) => NoneOf(f.n, r, rs, ls)
<1>1. PICK p \in 1 .. Len(q) + 1 :
        /\ r \in Seq(Frames) /\ Len(r) = Len(q) + 1 /\ r[p] = f
        /\ \A k \in 1 .. p - 1 : r[k] = q[k] /\ q[k].ts <= f.ts
        /\ \A k \in p + 1 .. Len(r) : r[k] = q[k - 1] /\ f.ts <= q[k - 1].ts
  BY SortedElements
<1> DEFINE old(k) == IF k < p THEN k ELSE k - 1
<1>2. \A k \in DOMAIN r : k # p => old(k) \in DOMAIN q /\ r[k] = q[old(k)]
  BY <1>1
<1>3. \A i, j \in DOMAIN r : i # p /\ j # p /\ i < j => old(i) < old(j)
  BY <1>1
<1>4. \A k \in DOMAIN r : IsLocal(r[k], rs, ls) /\ IsLocal(f, rs, ls) =>
        (k < p => r[k].n < f.n) /\ (k > p => f.n < r[k].n)
  <2> SUFFICES ASSUME NEW k \in DOMAIN r, k # p, IsLocal(r[k], rs, ls), IsLocal(f, rs, ls)
               PROVE  (k < p => r[k].n < f.n) /\ (k > p => f.n < r[k].n)
    BY <1>1
  <2>1. /\ r[k].n # f.n /\ r[k].ts = RemoteTime(r[k].n) + skew /\ f.ts = RemoteTime(f.n) + skew
        /\ r[k] \in Frames
    BY <1>1, <1>2 DEF InTime, NoneOf
  <2>2. r[k].n \in Int /\ f.n \in Int
    BY <2>1 DEF Frames
  <2>3. (k < p => r[k].ts <= f.ts) /\ (k > p => f.ts <= r[k].ts)
    BY <1>1
  <2> QED
    BY <2>1, <2>2, <2>3 DEF RemoteTime
<1>5. p \in DOMAIN r
  BY <1>1
<1> HIDE DEF old
<1>6. \A i \in DOMAIN r :
        /\ r[i] # Missed => r[i].n \in N
        /\ IsLocal(r[i], rs, ls) => skew # 0 /\ r[i].ts = RemoteTime(r[i].n) + skew
  BY <1>1, <1>2 DEF InTime
<1>7. \A i, j \in DOMAIN r :
        IsLocal(r[i], rs, ls) /\ IsLocal(r[j], rs, ls) /\ i < j => r[i].n < r[j].n
  <2> SUFFICES ASSUME NEW i \in DOMAIN r, NEW j \in DOMAIN r, i < j,
                      IsLocal(r[i], rs, ls), IsLocal(r[j], rs, ls)
               PROVE  r[i].n < r[j].n
    OBVIOUS
  <2>1. CASE i = p
    BY <2>1, <1>1, <1>4
  <2>2. CASE j = p
    BY <2>2, <1>1, <1>4
  <2>3. CASE i # p /\ j # p
    BY <2>3, <1>2, <1>3 DEF InTime
  <2> QED
    BY <2>1, <2>2, <2>3
<1>8. ~IsLocal(f, rs, ls) => NoneOf(f.n, r, rs, ls)
  BY <1>1, <1>2 DEF NoneOf
<1> QED
  BY <1>6, <1>7, <1>8 DEF InTime

\* Dummy frames are not in anybody's time.
LEMMA MissedInTime ==
  ASSUME NEW N, NEW rs, NEW ls, NEW skew, NEW q \in Seq(Frames), NEW k \in Nat,
         InTime(q, N, rs, ls, skew)
  PROVE  InTime(WithMissed(q, k), N, rs, ls, skew)
<1> DEFINE all == WithMissed(q, k)
<1>1. all \in Seq(Frames) /\ Len(all) = Len(q) + k
  BY WithMissedType
<1>2. \A i \in DOMAIN all :
        all[i] = Missed \/ (i > k /\ i - k \in DOMAIN q /\ all[i] = q[i - k])
  BY WithMissedElements
<1> HIDE DEF all
<1>3. ~IsLocal(Missed, rs, ls)
  BY DEF IsLocal
<1>4. \A i \in DOMAIN all :
        /\ all[i] # Missed => all[i].n \in N
        /\ IsLocal(all[i], rs, ls) => skew # 0 /\ all[i].ts = RemoteTime(all[i].n) + skew
  BY <1>2, <1>3 DEF InTime
<1>5. \A i, j \in DOMAIN all :
        IsLocal(all[i], rs, ls) /\ IsLocal(all[j], rs, ls) /\ i < j => all[i].n < all[j].n
  <2> SUFFICES ASSUME NEW i \in DOMAIN all, NEW j \in DOMAIN all, i < j,
                      IsLocal(all[i], rs, ls), IsLocal(all[j], rs, ls)
               PROVE  all[i].n < all[j].n
    OBVIOUS
  <2>1. /\ i - k \in DOMAIN q /\ all[i] = q[i - k]
        /\ j - k \in DOMAIN q /\ all[j] = q[j - k]
    BY <1>2, <1>3
  <2>2. i - k < j - k
    BY <1>1
  <2> QED
    BY <2>1, <2>2 DEF InTime
<1> QED
  BY <1>4, <1>5 DEF InTime, all

\* A queue that loses its first d frames stays in time, and its packets come after
\* those of the frames it lost.
LEMMA DropInTime ==
  ASSUME NEW N, NEW rs, NEW ls, NEW skew, NEW q \in Seq(Frames), InTime(q, N, rs, ls, skew),
         NEW r \in Seq(Frames), NEW d \in 0 .. Len(q), Len(r) = Len(q) - d,
         \A i \in 1 .. Len(q) - d : r[i] = q[i + d]
  PROVE  /\ InTime(r, N, rs, ls, skew)
         /\ \A i \in DOMAIN r : IsLocal(r[i], rs, ls) =>
              \A j \in 1 .. d : IsLocal(q[j], rs, ls) => q[j].n < r[i].n
<1>1. \A i \in DOMAIN r : i \in Nat /\ i + d \in DOMAIN q /\ r[i] = q[i + d]
  OBVIOUS
<1>2. \A j \in 1 .. d : j \in DOMAIN q /\ \A i \in DOMAIN r : j < i + d
  BY <1>1
<1>3. \A i, j \in DOMAIN r : i < j => i + d < j + d
  BY <1>1
<1> QED
  BY <1>1, <1>2, <1>3 DEF InTime

\* Order alone is not inductive: sorting is right because all frames in local time have
\* the same skew, and a packet is new because those of the queue were not still to come.
Playing ==
  /\ InTime(queue, Past, raw, late, time_skew)
  /\ left \subseteq Past
  /\ \A i \in DOMAIN queue, m \in left : IsLocal(queue[i], raw, late) =>
       queue[i].n # m /\ (queue[i].n > m \/ queue[i].n \in late)

LEMMA PlayingKept == TypeOK /\ OnTime /\ Playing /\ [Next]_vars => Playing'
<1> SUFFICES ASSUME TypeOK, OnTime, Playing, [Next]_vars PROVE Playing'
  OBVIOUS
<1>0. /\ queue \in Seq(Frames) /\ remote \in Nat /\ newest \in Nat /\ sent \in Nat
      /\ newest <= sent /\ time_skew \in Int /\ Past \in SUBSET Nat
  BY JitterAssumption DEF TypeOK, Past
<1>a. ASSUME remote' = remote, Past \subseteq Past',
             \E r \in Seq(Frames), d \in Nat :
               queue' = r /\ InTime(r, Past', raw', late', time_skew'),
             left' \subseteq Past',
             \A i \in DOMAIN queue', m \in left' : IsLocal(queue'[i], raw', late') =>
               queue'[i].n # m /\ (queue'[i].n > m \/ queue'[i].n \in late')
      PROVE  Playing'
  BY <1>a DEF Playing, InTime, IsLocal, RemoteTime
<1>1. CASE Send
  <2>1. /\ net' = net \cup {sent} /\ UNCHANGED <<queue, time_skew, remote, newest, late, raw, left>>
    BY <1>1 DEF Send, bufVars, histVars
  <2>2. Past' = Past
    BY <2>1, <1>0 DEF Past
  <2> QED
    BY <2>1, <2>2 DEF Playing, InTime, IsLocal, RemoteTime
<1>2. ASSUME NEW n \in net, Lose(n) PROVE Playing'
  <2>1. /\ net' = net \ {n} /\ UNCHANGED <<queue, time_skew, remote, newest, late, raw, left>>
    BY <1>2 DEF Lose, bufVars, histVars
  <2>2. Past \subseteq Past'
    BY <2>1 DEF Past
  <2> QED
    BY <2>1, <2>2 DEF Playing, InTime, IsLocal, RemoteTime
<1>3. ASSUME NEW n \in net, AcceptInput(n) PROVE Playing'
  <2> DEFINE seq == n % NumMod
             diff == Signed(seq - sequence_number)
             k == IF diff > 0 /\ ~TooFar(diff) THEN diff ELSE 0
             skew == Skew(n, diff)
             early == Frame(n, RemoteTime(n))
             last == Frame(n, RemoteTime(n) + skew)
             Result(full) ==
               /\ queue' = Trim(WithMissed(full, k))
               /\ left' = left \cup Local(Range(WithMissed(full, k))
                                            \ Range(Trim(WithMissed(full, k))), raw', late')
  <2>1. /\ net' = net \ {n} /\ UNCHANGED <<remote, sent>> /\ time_skew' = skew
        /\ newest' = (IF n >= newest THEN n + 1 ELSE newest)
        /\ late' = late \cup (IF n < newest THEN {n} ELSE {})
        /\ raw' = raw \cup (IF skew = 0 THEN {n} ELSE {})
    BY <1>3 DEF AcceptInput, Arrives, Accept, Raw
  <2>2. PICK q \in Early(n, seq, diff) : \E full \in Sorted(q, last) : Result(full)
    BY <1>3 DEF AcceptInput, Accept
  <2>3. PICK full \in Sorted(q, last) : Result(full)
    BY <2>2
  <2>4. n \in Nat /\ seq \in 0 .. NumMod - 1 /\ sequence_number \in 0 .. NumMod - 1
    BY FollowingType, JitterAssumption DEF TypeOK
  <2>5. diff \in Int
    BY <2>4, JitterAssumption DEF Signed
  <2>6. k \in Nat
    BY <2>5
  <2>7. n >= newest => diff >= 0
    <3>1. n >= next => diff = n - next
      <4>1. next \in Nat /\ (n >= next => n - next < NumMod \div 2)
        BY <1>0, <2>4, JitterAssumption DEF OnTime, TypeOK
      <4> QED
        BY <2>4, <4>1, SignedDifference DEF OnTime
    <3> QED
      BY <1>0, <2>4, <3>1 DEF OnTime, TypeOK
  <2>8. skew \in Int
    BY <1>0, <2>4, JitterAssumption DEF Skew, Now, RemoteTime
  <2> HIDE DEF seq, diff, k, skew
  <2>9. RemoteTime(n) \in Int /\ early \in Frames /\ last \in Frames
    BY <1>0, <2>4, <2>8, FrameType DEF RemoteTime
  <2>10. early.n = n /\ early.ts = RemoteTime(n) /\ last.n = n /\ last.ts = RemoteTime(n) + skew
    BY DEF Frame
  <2> HIDE DEF early, last
  <2>11. n \notin Past /\ n \in Past' /\ Past \subseteq Past' /\ Past' \in SUBSET Nat
    BY <1>0, <2>1, <2>4 DEF Past
  \* The frames that were queued: as before, or gone.
  <2>12. \A i \in DOMAIN queue :
           /\ IsLocal(queue[i], raw', late') <=> IsLocal(queue[i], raw, late)
           /\ queue[i] # Missed => queue[i].n # n
    BY <2>1, <2>11 DEF Playing, InTime, IsLocal
  <2>13. ~TooFar(diff) /\ time_skew # 0 => skew = time_skew
    BY DEF Skew, skew
  <2>14. /\ Queued(diff) \in Seq(Frames)
         /\ InTime(Queued(diff), Past', raw', late', skew)
         /\ NoneOf(n, Queued(diff), raw', late')
    <3>1. CASE TooFar(diff)
      BY <3>1 DEF Queued, InTime, NoneOf
    <3>2. CASE ~TooFar(diff)
      <4>1. Queued(diff) = queue
        BY <3>2 DEF Queued
      <4>2. NoneOf(n, queue, raw', late')
        BY <2>12 DEF NoneOf, IsLocal
      <4>3. InTime(queue, Past', raw', late', skew)
        BY <2>11, <2>12, <2>13, <3>2 DEF Playing, InTime
      <4> QED
        BY <1>0, <4>1, <4>2, <4>3
    <3> QED
      BY <3>1, <3>2
  \* The packet's own frames: the first, if any, is in the sender's time.
  <2>15. Fits(seq, diff) => ~IsLocal(early, raw', late')
    BY <2>1, <2>4, <2>5, <2>7, <2>10, <1>0 DEF Fits, IsLocal
  <2>16. IsLocal(last, raw', late') => skew # 0 /\ last.ts = RemoteTime(last.n) + skew
    BY <2>1, <2>10 DEF IsLocal
  <2>17. q \in Seq(Frames) /\ InTime(q, Past', raw', late', skew) /\ NoneOf(n, q, raw', late')
    <3>1. CASE Fits(seq, diff)
      <4>1. Queued(diff) = queue /\ q \in Sorted(queue, early)
        BY <3>1, <2>2, <2>5, JitterAssumption DEF Early, Fits, Queued, TooFar, early
      <4>2. q \in Seq(Frames)
        BY <1>0, <4>1, <2>9, SortedType
      <4> QED
        BY <1>0, <4>1, <4>2, <3>1, <2>8, <2>9, <2>10, <2>11, <2>14, <2>15, SortedInTime
    <3>2. CASE ~Fits(seq, diff)
      BY <3>2, <2>2, <2>14 DEF Early
    <3> QED
      BY <3>1, <3>2
  <2>18. full \in Seq(Frames) /\ InTime(full, Past', raw', late', skew)
    <3>1. full \in Seq(Frames)
      BY <2>3, <2>9, <2>17, SortedType
    <3> QED
      BY <3>1, <1>0, <2>3, <2>8, <2>9, <2>10, <2>11, <2>16, <2>17, SortedInTime
  <2> DEFINE all == WithMissed(full, k)
  <2>19. all \in Seq(Frames) /\ InTime(all, Past', raw', late', skew)
    BY <2>6, <2>18, WithMissedType, MissedInTime
  <2>20. /\ queue' = Trim(all)
         /\ left' = left \cup Local(Range(all) \ Range(Trim(all)), raw', late')
    BY <2>3
  \* Frames in local time are those of the queue or the packet's.
  <2>21. \A i \in DOMAIN all : IsLocal(all[i], raw', late') =>
           all[i].n = n \/ \E j \in DOMAIN queue : IsLocal(queue[j], raw, late) /\ all[i] = queue[j]
    <3>1. \A i \in DOMAIN q :
            (q[i] = early /\ Fits(seq, diff)) \/ \E j \in DOMAIN queue : q[i] = queue[j]
      <4>1. CASE Fits(seq, diff)
        BY <4>1, <1>0, <2>2, <2>9, SortedRange DEF Early, early
      <4>2. CASE ~Fits(seq, diff)
        <5>1. q = <<>> \/ q = queue
          BY <4>2, <2>2 DEF Early, Queued
        <5> QED
          BY <5>1
      <4> QED
        BY <4>1, <4>2
    <3>2. \A i \in DOMAIN full : full[i] = last \/ \E j \in DOMAIN q : full[i] = q[j]
      BY <2>3, <2>9, <2>17, SortedRange
    <3>3. \A i \in DOMAIN all : all[i] = Missed \/ \E j \in DOMAIN full : all[i] = full[j]
      BY <2>6, <2>18, WithMissedElements
    <3> HIDE DEF all
    <3> SUFFICES ASSUME NEW i \in DOMAIN all, IsLocal(all[i], raw', late'), all[i].n # n
                 PROVE  \E j \in DOMAIN queue : IsLocal(queue[j], raw, late) /\ all[i] = queue[j]
      OBVIOUS
    <3>4. PICK m \in DOMAIN full : all[i] = full[m]
      BY <3>3 DEF IsLocal
    <3>5. PICK l \in DOMAIN q : all[i] = q[l]
      BY <3>2, <3>4, <2>10
    <3>6. PICK j \in DOMAIN queue : all[i] = queue[j]
      BY <3>1, <3>5, <2>10
    <3> QED
      BY <3>6, <2>12
  <2> HIDE DEF all
  <2>22. PICK d \in 0 .. Len(all) :
           /\ Len(Trim(all)) = Len(all) - d
           /\ \A i \in 1 .. Len(all) - d : Trim(all)[i] = all[i + d]
    BY <2>19, TrimElements
  <2>23. queue' \in Seq(Frames)
    BY <2>19, <2>20, TrimType
  <2>24. /\ InTime(queue', Past', raw', late', skew)
         /\ \A i \in DOMAIN queue' : IsLocal(queue'[i], raw', late') =>
              \A j \in 1 .. d : IsLocal(all[j], raw', late') => all[j].n < queue'[i].n
    BY <2>19, <2>20, <2>22, <2>23, DropInTime
  <2>25. \A x \in Local(Range(all) \ Range(Trim(all)), raw', late') :
           \E j \in 1 .. d : IsLocal(all[j], raw', late') /\ x = all[j].n
    <3> SUFFICES ASSUME NEW x \in Local(Range(all) \ Range(Trim(all)), raw', late')
                 PROVE  \E j \in 1 .. d : IsLocal(all[j], raw', late') /\ x = all[j].n
      OBVIOUS
    <3>1. PICK f \in Range(all) : f \notin Range(Trim(all)) /\ IsLocal(f, raw', late') /\ x = f.n
      BY DEF Local
    <3>2. PICK j \in DOMAIN all : f = all[j]
      BY <3>1 DEF Range
    <3>3. j \in 1 .. d
      <4> SUFFICES ASSUME j > d PROVE FALSE
        BY <2>19, <3>2
      <4>1. j - d \in 1 .. Len(all) - d /\ (j - d) + d = j
        BY <2>19, <3>2
      <4>2. Trim(all)[j - d] = f /\ j - d \in DOMAIN Trim(all)
        BY <4>1, <3>2, <2>20, <2>22, <2>23
      <4> QED
        BY <4>2, <3>1 DEF Range
    <3> QED
      BY <3>1, <3>2, <3>3
  <2>26. left' \subseteq Past'
    <3>1. \A j \in DOMAIN all : IsLocal(all[j], raw', late') => all[j].n \in Past'
      BY <2>19 DEF InTime, IsLocal
    <3>2. \A x \in Local(Range(all) \ Range(Trim(all)), raw', late') : x \in Past'
      BY <3>1, <2>19, <2>25
    <3> QED
      BY <3>2, <2>11, <2>20 DEF Playing
  <2>27. \A i \in DOMAIN queue', m \in left' : IsLocal(queue'[i], raw', late') =>
           queue'[i].n # m /\ (queue'[i].n > m \/ queue'[i].n \in late')
    <3> SUFFICES ASSUME NEW i \in DOMAIN queue', NEW m \in left', IsLocal(queue'[i], raw', late')
                 PROVE  queue'[i].n # m /\ (queue'[i].n > m \/ queue'[i].n \in late')
      OBVIOUS
    <3>1. queue'[i].n \in Int /\ m \in Int
      <4>1. queue'[i] \in Frames
        BY <2>23
      <4>2. m \in Nat
        BY <2>11, <2>26
      <4> QED
        BY <4>1, <4>2 DEF Frames
    <3>2. CASE m \in left
      <4>1. i + d \in DOMAIN all /\ queue'[i] = all[i + d]
        BY <2>19, <2>20, <2>22, <2>23
      <4>2. CASE queue'[i].n = n
        <5>1. m \in Nat /\ m < newest /\ m # n
          BY <3>2, <1>0, <2>11 DEF Playing, Past
        <5> QED
          BY <4>2, <5>1, <1>0, <2>1, <2>4
      <4>3. CASE \E j \in DOMAIN queue : IsLocal(queue[j], raw, late) /\ all[i + d] = queue[j]
        BY <4>1, <4>3, <3>2, <2>1 DEF Playing
      <4> QED
        BY <4>1, <4>2, <4>3, <2>21
    <3>3. CASE m \notin left
      <4>1. PICK j \in 1 .. d : IsLocal(all[j], raw', late') /\ m = all[j].n
        BY <3>3, <2>20, <2>25
      <4>2. m < queue'[i].n
        BY <4>1, <2>24
      <4> QED
        BY <4>2, <3>1
    <3> QED
      BY <3>2, <3>3
  <2> QED
    BY <2>1, <2>11, <2>23, <2>24, <2>26, <2>27, <1>a
<1>4. CASE DecodeFrame
  <2>1. /\ queue # <<>> /\ queue' = Tail(queue)
        /\ left' = left \cup Local({Head(queue)}, raw, late)
        /\ UNCHANGED <<time_skew, remote, net, newest, late, raw>>
    BY <1>4 DEF DecodeFrame, ProduceOutput
  <2>2. /\ Tail(queue) \in Seq(Frames) /\ Len(Tail(queue)) = Len(queue) - 1 /\ Len(queue) >= 1
        /\ \A i \in 1 .. Len(queue) - 1 : Tail(queue)[i] = queue[i + 1]
        /\ Head(queue) = queue[1] /\ 1 \in DOMAIN queue
    BY <1>0, <2>1
  <2>3. Past' = Past
    BY <2>1 DEF Past
  <2>4. /\ InTime(Tail(queue), Past, raw, late, time_skew)
        /\ \A i \in DOMAIN Tail(queue) : IsLocal(Tail(queue)[i], raw, late) =>
             \A j \in 1 .. 1 : IsLocal(queue[j], raw, late) => queue[j].n < Tail(queue)[i].n
    <3>1. 1 \in 0 .. Len(queue) /\ InTime(queue, Past, raw, late, time_skew)
      BY <2>2 DEF Playing
    <3> DEFINE r == Tail(queue)
    <3>2. r \in Seq(Frames) /\ Len(r) = Len(queue) - 1 /\ \A i \in 1 .. Len(queue) - 1 : r[i] = queue[i + 1]
      BY <2>2
    <3> HIDE DEF r
    <3> QED
      BY <1>0, <3>1, <3>2, DropInTime DEF r
  <2>5. \A m \in Local({Head(queue)}, raw, late) : IsLocal(queue[1], raw, late) /\ m = queue[1].n
    BY <2>2 DEF Local
  <2>6. left' \subseteq Past'
    BY <2>1, <2>2, <2>3, <2>5 DEF Playing, InTime, IsLocal
  <2>7. \A i \in DOMAIN queue', m \in left' : IsLocal(queue'[i], raw', late') =>
          queue'[i].n # m /\ (queue'[i].n > m \/ queue'[i].n \in late')
    <3> SUFFICES ASSUME NEW i \in DOMAIN Tail(queue), NEW m \in left',
                        IsLocal(Tail(queue)[i], raw, late)
                 PROVE  Tail(queue)[i].n # m
                          /\ (Tail(queue)[i].n > m \/ Tail(queue)[i].n \in late)
      BY <2>1
    <3>1. i + 1 \in DOMAIN queue /\ Tail(queue)[i] = queue[i + 1]
      BY <2>2
    <3>2. CASE m \in left
      BY <3>1, <3>2 DEF Playing
    <3>3. CASE m \notin left
      <4>1. IsLocal(queue[1], raw, late) /\ m = queue[1].n
        BY <3>3, <2>1, <2>5
      <4>2. m < Tail(queue)[i].n
        BY <2>4, <4>1
      <4>3. Tail(queue)[i].n \in Int /\ m \in Int
        <5>1. Tail(queue)[i] \in Frames /\ queue[1] \in Frames
          BY <1>0, <2>2
        <5> QED
          BY <5>1, <4>1 DEF Frames
      <4> QED
        BY <4>2, <4>3
    <3> QED
      BY <3>2, <3>3
  <2> QED
    BY <2>1, <2>2, <2>3, <2>4, <2>6, <2>7, <1>a
<1>5. CASE UNCHANGED vars
  <2>1. UNCHANGED <<queue, time_skew, remote, net, newest, late, raw, left>>
    BY <1>5 DEF vars, bufVars, histVars
  <2> QED
    BY <2>1 DEF Playing, InTime, IsLocal, RemoteTime, Past
<1> QED
  BY <1>1, <1>2, <1>3, <1>4, <1>5 DEF Next

\* Over any network, between any two clocks, the packets that were converted to local
\* time are queued in the order of sending and each once, and follow all that have been
\* played or dropped unless they came late: what jitterbuffer.cpp:67 and 155 are for.
\* Packets queued at the sender's time stand wherever that puts them.
THEOREM PlaysInOrder == Spec => []PlayedInOrder
<1>1. Init => Playing
  BY DEF Init, Playing, InTime, Past
<1>2. Init => OnTime
  <2>1. 0 % NumMod = 0 /\ NumMod \div 2 \in Nat
    BY JitterAssumption
  <2> QED
    BY <2>1 DEF Init, OnTime, TimelineKept
<1>3. Playing => PlayedInOrder
  BY DEF Playing, InTime, PlayedInOrder
<1> QED
  BY <1>1, <1>2, <1>3, TypeCorrect, OnTimeKept, PlayingKept, PTL DEF Spec

=============================================================================
