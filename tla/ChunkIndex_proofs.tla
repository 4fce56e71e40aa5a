------------------------- MODULE ChunkIndex_proofs -------------------------
(***************************************************************************)
(* Theorems about the index of chunks for any number of threads, chunks and*)
(* files: what the tables say outlives the program, entries have their     *)
(* files, and a good entry is not dropped.  And about the scanner that     *)
(* fills it, for any tree of files and directories: its two threads share  *)
(* the work items without using one that is freed, and what it reports and *)
(* sends is what was scanned.                                              *)
(***************************************************************************)
EXTENDS ChunkIndex, MCScanner, WellFoundedInduction, TLAPS

-----------------------------------------------------------------------------
(* What is read of a log. *)

\* The fields that a record of each kind has.
LEMMA RecordFields ==
  ASSUME NEW r \in Records
  PROVE  /\ r.tag = "info" => r.path \in Paths /\ r.is \in Hashes
         /\ r.tag = "meta" => r.hash \in Hashes /\ r.name \in Names
         /\ r.tag = "file" => r.hash \in Hashes /\ r.path \in Paths
         /\ r.tag = "torn" => r.within \in {"tag", "body"}
  BY DEF Records

\* A set of positions has a least one.
LEMMA FirstExists ==
  ASSUME NEW S \in SUBSET Nat, S # {}
  PROVE  \E k \in S : \A j \in S : k <= j
<1>1. PICK x \in S : \A y \in S : ~ (<<y, x>> \in OpToRel(<, Nat))
  BY WFMin, NatLessThanWellFounded
<1>2. \A y \in S : ~ (y < x)
  BY <1>1 DEF OpToRel
<1> QED
  BY <1>2

\* A set of positions of a log has a latest one.
LEMMA LatestIn ==
  ASSUME NEW n \in Nat, NEW S \in SUBSET (1..n), S # {}
  PROVE  Latest(S) \in S /\ \A j \in S : j <= Latest(S)
<1>1. \E k \in S : \A j \in S : j <= k
  <2> DEFINE T == {n - k : k \in S}
  <2>1. T \in SUBSET Nat /\ T # {}
    <3>1. \A k \in S : n - k \in Nat
      OBVIOUS
    <3> QED
      BY <3>1
  <2>2. PICK x \in T : \A y \in T : x <= y
    BY <2>1, FirstExists
  <2>3. PICK k \in S : x = n - k
    OBVIOUS
  <2>4. \A j \in S : j <= k
    <3> TAKE j \in S
    <3>1. x <= n - j
      BY <2>2
    <3> QED
      BY <3>1, <2>3
  <2> QED
    BY <2>4
<1> QED
  BY <1>1 DEF Latest

\* And no other.
LEMMA LatestIs ==
  ASSUME NEW n \in Nat, NEW S \in SUBSET (1..n), NEW k \in S, \A j \in S : j <= k
  PROVE  Latest(S) = k
<1>1. Latest(S) \in S /\ k <= Latest(S)
  BY LatestIn
<1>2. Latest(S) <= k
  BY <1>1
<1>3. Latest(S) \in 1..n /\ k \in 1..n
  BY <1>1
<1> HIDE DEF Latest
<1> QED
  BY <1>1, <1>2, <1>3

\* A log is sound up to its end, or up to a torn record.
LEMMA SoundPrefix ==
  ASSUME NEW l \in Seq(Records)
  PROVE  /\ Sound(l) \in Seq(Records) /\ Len(Sound(l)) \in 0..Len(l)
         /\ \A k \in 1..Len(Sound(l)) : Sound(l)[k] = l[k] /\ l[k].tag # "torn"
         /\ (\A k \in DOMAIN l : l[k].tag # "torn") => Sound(l) = l
<1> DEFINE bad == {k \in DOMAIN l : l[k].tag = "torn"}
<1>1. CASE bad = {}
  <2>1. Sound(l) = SubSeq(l, 1, Len(l))
    BY <1>1 DEF Sound
  <2>2. Sound(l) = l
    BY <2>1
  <2> QED
    BY <2>2, <1>1
<1>2. CASE bad # {}
  <2> DEFINE first == CHOOSE k \in bad : \A j \in bad : k <= j
  <2>0. bad \in SUBSET Nat
    OBVIOUS
  <2>1. first \in bad /\ \A j \in bad : first <= j
    <3>1. \E k \in bad : \A j \in bad : k <= j
      BY <1>2, <2>0, FirstExists
    <3> QED
      BY <3>1
  <2>2. Sound(l) = SubSeq(l, 1, first - 1)
    BY <1>2 DEF Sound
  <2>3. first \in 1..Len(l)
    BY <2>1
  <2>4. \A k \in 1..(first - 1) : k \in DOMAIN l /\ l[k].tag # "torn"
    <3> TAKE k \in 1..(first - 1)
    <3> HIDE DEF first
    <3>1. k \in DOMAIN l /\ ~ (first <= k)
      BY <2>3
    <3> QED
      BY <3>1, <2>1
  <2> HIDE DEF first
  <2>5. /\ SubSeq(l, 1, first - 1) \in Seq(Records) /\ Len(SubSeq(l, 1, first - 1)) = first - 1
        /\ \A k \in 1..(first - 1) : SubSeq(l, 1, first - 1)[k] = l[k]
    BY <2>3
  <2> QED
    BY <1>2, <2>2, <2>3, <2>4, <2>5
<1> QED
  BY <1>1, <1>2

\* What a log says of the file of chunk h is in its record k.
Tells(l, dir, h, k) ==
  /\ k \in DOMAIN l /\ l[k].tag = "meta" /\ l[k].hash = h /\ dir[l[k].name] # None
  /\ \A j \in DOMAIN l :
       l[j].tag = "meta" /\ l[j].hash = h /\ dir[l[j].name] # None => j <= k

LEMMA LogMetaTold ==
  ASSUME NEW l \in Seq(Records), NEW dir, NEW h \in Hashes, NEW k, Tells(l, dir, h, k)
  PROVE  LogMeta(l, dir)[h] = l[k].name
<1> DEFINE S == {j \in DOMAIN l : l[j].tag = "meta" /\ l[j].hash = h /\ dir[l[j].name] # None}
<1>1. S \in SUBSET (1..Len(l)) /\ k \in S /\ \A j \in S : j <= k
  BY DEF Tells
<1>2. Latest(S) = k
  <2>1. S \in SUBSET (1..Len(l)) /\ Len(l) \in Nat
    OBVIOUS
  <2> HIDE DEF S
  <2> QED
    BY <1>1, <2>1, LatestIs
<1>3. LogMeta(l, dir)[h] = IF S = {} THEN None ELSE l[Latest(S)].name
  BY DEF LogMeta
<1> QED
  BY <1>1, <1>2, <1>3

\* The same of the log and the files after a step.
LEMMA ToldNext ==
  ASSUME log' \in Seq(Records), NEW h \in Hashes, NEW k, Tells(log', files', h, k)
  PROVE  LogMeta(log', files')[h] = log'[k].name
<1>1. \A l \in Seq(Records) : Tells(l, files', h, k) => LogMeta(l, files')[h] = l[k].name
  BY LogMetaTold
<1>2. Tells(log', files', h, k) => LogMeta(log', files')[h] = log'[k].name
  BY <1>1
<1> QED
  BY <1>2

LEMMA LogMetaTells ==
  ASSUME NEW l \in Seq(Records), NEW dir, NEW h \in Hashes, LogMeta(l, dir)[h] # None
  PROVE  \E k : Tells(l, dir, h, k) /\ LogMeta(l, dir)[h] = l[k].name
<1> DEFINE S == {j \in DOMAIN l : l[j].tag = "meta" /\ l[j].hash = h /\ dir[l[j].name] # None}
<1>1. LogMeta(l, dir)[h] = IF S = {} THEN None ELSE l[Latest(S)].name
  BY DEF LogMeta
<1>2. S # {} /\ LogMeta(l, dir)[h] = l[Latest(S)].name
  BY <1>1
<1>3. Latest(S) \in S /\ \A j \in S : j <= Latest(S)
  <2>1. S \in SUBSET (1..Len(l)) /\ Len(l) \in Nat
    OBVIOUS
  <2> HIDE DEF S
  <2> QED
    BY <1>2, <2>1, LatestIn
<1>4. Tells(l, dir, h, Latest(S))
  BY <1>3 DEF Tells
<1> QED
  BY <1>2, <1>4

\* What is read of a log has the types of the tables.
LEMMA LogTypes ==
  ASSUME NEW l \in Seq(Records), NEW dir
  PROVE  /\ LogInfo(l) \in [Paths -> Hashes \cup {None}]
         /\ LogMeta(l, dir) \in [Hashes -> Names \cup {None}]
         /\ LogChunks(l) \in [Hashes -> SUBSET Paths]
<1>1. \A h \in Hashes : LogMeta(l, dir)[h] \in Names \cup {None}
  <2> SUFFICES ASSUME NEW h \in Hashes, LogMeta(l, dir)[h] # None
               PROVE  LogMeta(l, dir)[h] \in Names
    OBVIOUS
  <2>1. PICK k : Tells(l, dir, h, k) /\ LogMeta(l, dir)[h] = l[k].name
    BY LogMetaTells
  <2>2. l[k] \in Records /\ l[k].tag = "meta"
    BY <2>1 DEF Tells
  <2> QED
    BY <2>1, <2>2, RecordFields
<1>2. \A p \in Paths : LogInfo(l)[p] \in Hashes \cup {None}
  <2> TAKE p \in Paths
  <2> DEFINE S == {k \in DOMAIN l : l[k].tag = "info" /\ l[k].path = p}
  <2>1. LogInfo(l)[p] = IF S = {} THEN None ELSE l[Latest(S)].is
    BY DEF LogInfo
  <2>2. CASE S # {}
    <3>1. Latest(S) \in S
      <4>1. S \in SUBSET (1..Len(l)) /\ Len(l) \in Nat
        OBVIOUS
      <4> HIDE DEF S
      <4> QED
        BY <2>2, <4>1, LatestIn
    <3>2. l[Latest(S)] \in Records /\ l[Latest(S)].tag = "info"
      BY <3>1
    <3> QED
      BY <2>1, <2>2, <3>2, RecordFields
  <2> QED
    BY <2>1, <2>2
<1>3. LogInfo(l) = [p \in Paths |-> LogInfo(l)[p]]
      /\ LogMeta(l, dir) = [h \in Hashes |-> LogMeta(l, dir)[h]]
  BY DEF LogInfo, LogMeta
<1>4. LogChunks(l) \in [Hashes -> SUBSET Paths]
  BY DEF LogChunks
<1> HIDE DEF LogInfo, LogMeta
<1>5. LogInfo(l) \in [Paths -> Hashes \cup {None}]
  BY <1>2, <1>3
<1>6. LogMeta(l, dir) \in [Hashes -> Names \cup {None}]
  BY <1>1, <1>3
<1> QED
  BY <1>4, <1>5, <1>6

-----------------------------------------------------------------------------
(* The inductive invariant. *)

\* The table, the log or a thread takes the file n for that of chunk h.
Claims(h, n) ==
  \/ meta[h] = n
  \/ \E k \in DOMAIN log : log[k].tag = "meta" /\ log[k].hash = h /\ log[k].name = n
  \/ \E t \in Threads : job[t].at = "check" /\ job[t].hash = h /\ job[t].name = n

JobsHold ==
  \A t \in Threads : /\ job[t].at # "idle" => job[t].hash \in Hashes
                     /\ job[t].at \in {"check", "record"} => job[t].name \in Names

\* A file is taken for one chunk's only, and never holds another.
ClaimsHold ==
  \A n \in Names, h \in Hashes : Claims(h, n) =>
    /\ n \in used /\ files[n] \in {h, Bad, None}
    /\ \A g \in Hashes : Claims(g, n) => g = h

\* A temporary file is one thread's own until it is recorded.
TempsHold ==
  \A t \in Threads : job[t].at = "record" =>
    /\ job[t].name \in used /\ files[job[t].name] = job[t].hash
    /\ \A h \in Hashes : ~Claims(h, job[t].name)
    /\ \A u \in Threads : job[u].at = "record" /\ job[u].name = job[t].name => u = t

\* The log has what the tables know, and of torn records only tags.
TagsTorn == \A k \in DOMAIN log : log[k].tag = "torn" => log[k].within = "tag"
LogHolds == ReadFrom(log) /\ TagsTorn

FilesHold == JobsHold /\ ClaimsHold /\ TempsHold /\ EntriesHaveFiles
IInv == TypeOK /\ FilesHold /\ LogHolds

\* What is true of the files stays so when claims are only given up, no thread
\* comes to record, and only files that are claimed change, and not to another's.
LEMMA ClaimsGivenUp ==
  ASSUME TypeOK, FilesHold, TypeOK',
         \A h \in Hashes, n \in Names : Claims(h, n)' => Claims(h, n),
         \A t \in Threads : job'[t].at = "record" => job'[t] = job[t],
         used \subseteq used',
         \A n \in Names : files'[n] = files[n] \/
            (files'[n] \in {Bad, None} /\ \E h \in Hashes : Claims(h, n))
  PROVE  ClaimsHold' /\ TempsHold'
<1> USE DEF FilesHold
<1>1. ClaimsHold'
  <2> SUFFICES ASSUME NEW n \in Names, NEW h \in Hashes, Claims(h, n)'
               PROVE  /\ n \in used' /\ files'[n] \in {h, Bad, None}
                      /\ \A g \in Hashes : Claims(g, n)' => g = h
    BY DEF ClaimsHold
  <2>1. Claims(h, n)
    OBVIOUS
  <2> QED
    BY <2>1 DEF ClaimsHold
<1>2. TempsHold'
  <2> SUFFICES ASSUME NEW t \in Threads, job'[t].at = "record"
               PROVE  /\ job'[t].name \in used' /\ files'[job'[t].name] = job'[t].hash
                      /\ \A h \in Hashes : ~Claims(h, job[t].name)'
                      /\ job'[t].name = job[t].name
                      /\ \A u \in Threads : job'[u].at = "record" /\ job'[u].name = job'[t].name => u = t
    BY DEF TempsHold, Claims
  <2>1. job'[t] = job[t] /\ job[t].name \in Names
    BY DEF JobsHold
  <2>2. job[t].name \in used /\ files[job[t].name] = job[t].hash
    BY <2>1 DEF TempsHold
  <2>3. \A h \in Hashes : ~Claims(h, job[t].name)
    BY <2>1 DEF TempsHold
  <2>4. files'[job[t].name] = files[job[t].name]
    BY <2>1, <2>3
  <2>5. \A h \in Hashes : ~Claims(h, job[t].name)'
    BY <2>1, <2>3
  <2>6. \A u \in Threads : job'[u].at = "record" /\ job'[u].name = job'[t].name => u = t
    <3> SUFFICES ASSUME NEW u \in Threads, job'[u].at = "record", job'[u].name = job'[t].name
                 PROVE  u = t
      OBVIOUS
    <3>1. job'[u] = job[u]
      OBVIOUS
    <3> QED
      BY <2>1, <3>1 DEF TempsHold
  <2> QED
    BY <2>1, <2>2, <2>4, <2>5, <2>6
<1> QED
  BY <1>1, <1>2

\* Whatever is written to the log is a record.
LEMMA WriteTypes ==
  ASSUME TypeOK, NEW r \in Records, Write(r)
  PROVE  log' \in Seq(Records) /\ Len(log') <= MaxLog
<1>1. log' = Append(log, r) /\ Len(log) < MaxLog /\ log \in Seq(Records)
  BY DEF Write, TypeOK
<1>2. Append(log, r) \in Seq(Records) /\ Len(Append(log, r)) = Len(log) + 1 /\ Len(log) \in Nat
  BY <1>1
<1> QED
  BY <1>1, <1>2, IndexAssumption

LEMMA RestartTypes ==
  ASSUME TypeOK, Crash
  PROVE  TypeOK' /\ JobsHold'
<1>1. PICK l \in {log} \cup {x \in Torn : Len(x) <= MaxLog} : Restart(l)
  BY DEF Crash
<1>2. l \in Seq(Records) /\ Len(l) <= MaxLog
  <2>1. CASE l = log
    BY <2>1 DEF TypeOK
  <2>2. CASE l \in Torn /\ Len(l) <= MaxLog
    <3>1. PICK w \in {"tag", "body"} : l = Append(log, [tag |-> "torn", within |-> w])
      BY <2>2 DEF Torn
    <3>2. [tag |-> "torn", within |-> w] \in Records
      BY DEF Records
    <3> QED
      BY <2>2, <3>1, <3>2 DEF TypeOK
  <2> QED
    BY <2>1, <2>2
<1>3. Sound(l) \in Seq(Records)
  BY <1>2, SoundPrefix
<1>4. info' \in [Paths -> Hashes \cup {None}]
  BY <1>1, <1>3, LogTypes DEF Restart
<1>5. /\ log' \in Seq(Records) /\ Len(log') <= MaxLog
      /\ meta' \in [Hashes -> Names \cup {None}] /\ chunks' \in [Hashes -> SUBSET Paths]
      /\ files' \in [Names -> Hashes \cup {Bad, None}]
  <2>1. CASE ~Corrupt(l)
    <3>1. log' = l /\ meta' = LogMeta(Sound(l), files) /\ chunks' = LogChunks(Sound(l)) /\ files' = files
      BY <1>1, <2>1 DEF Restart, Load
    <3> QED
      BY <1>2, <1>3, <3>1, LogTypes DEF TypeOK
  <2>2. CASE Corrupt(l)
    BY <1>1, <2>2, IndexAssumption DEF Restart, Load
  <2> QED
    BY <2>1, <2>2
<1>6. job' = [t \in Threads |-> Idle] /\ UNCHANGED <<content, used>>
  BY <1>1 DEF Restart
<1>7. Idle \in Jobs /\ Idle.at = "idle"
  BY DEF Idle, Jobs
<1>8. job' \in [Threads -> Jobs] /\ \A t \in Threads : job'[t] = Idle
  BY <1>6, <1>7
<1> QED
  BY <1>4, <1>5, <1>6, <1>7, <1>8 DEF TypeOK, JobsHold

\* A thread's step to a job of its type keeps all the jobs typed.
LEMMA JobTypes ==
  ASSUME TypeOK, JobsHold, NEW t \in Threads, NEW j \in Jobs, job' = [job EXCEPT ![t] = j],
         j.at = "idle" => j = Idle, j.at # "idle" => j.hash \in Hashes,
         j.at \in {"check", "record"} => j.name \in Names
  PROVE  /\ job' \in [Threads -> Jobs] /\ JobsHold'
         /\ \A u \in Threads : job'[u].at = "idle" => job'[u] = Idle
<1>1. job' \in [Threads -> Jobs] /\ \A u \in Threads : job'[u] = IF u = t THEN j ELSE job[u]
  BY DEF TypeOK
<1> QED
  BY <1>1 DEF TypeOK, JobsHold

\* Every variable keeps its type, and jobs have what they work with.
LEMMA TypesKept == TypeOK /\ JobsHold /\ [Next]_vars => TypeOK' /\ JobsHold'
<1> SUFFICES ASSUME TypeOK, JobsHold, [Next]_vars PROVE TypeOK' /\ JobsHold'
  OBVIOUS
<1> USE IndexAssumption
<1>1. ASSUME NEW p \in Paths, NEW h \in Hashes, AddFileInfo(p, h) \/ AddFileChunk(p, h)
      PROVE  TypeOK' /\ JobsHold'
  <2>1. CASE AddFileInfo(p, h)
    <3>1. [tag |-> "info", path |-> p, is |-> h] \in Records
      BY DEF Records
    <3>2. log' \in Seq(Records) /\ Len(log') <= MaxLog
      BY <2>1, <3>1, WriteTypes DEF AddFileInfo
    <3> QED
      BY <2>1, <3>2 DEF AddFileInfo, TypeOK, JobsHold
  <2>2. CASE AddFileChunk(p, h)
    <3>1. [tag |-> "file", hash |-> h, path |-> p] \in Records
      BY DEF Records
    <3>2. log' \in Seq(Records) /\ Len(log') <= MaxLog
      BY <2>2, <3>1, WriteTypes DEF AddFileChunk
    <3> QED
      BY <2>2, <3>2 DEF AddFileChunk, TypeOK, JobsHold
  <2> QED
    BY <1>1, <2>1, <2>2
<1>2. ASSUME NEW t \in Threads, Done(t)
      PROVE  /\ job' \in [Threads -> Jobs] /\ JobsHold'
             /\ \A u \in Threads : job'[u].at = "idle" => job'[u] = Idle
  <2>1. Idle \in Jobs /\ Idle.at = "idle"
    BY DEF Idle, Jobs
  <2> QED
    BY <1>2, <2>1, JobTypes DEF Done
<1>3. ASSUME NEW t \in Threads, NEW op \in {"add", "read"}, job[t].at = "check", Goes(t, NotFound(op))
      PROVE  /\ job' \in [Threads -> Jobs] /\ JobsHold'
             /\ \A u \in Threads : job'[u].at = "idle" => job'[u] = Idle
  <2> DEFINE j == [job[t] EXCEPT !.at = NotFound(op)]
  <2>1. job[t] \in Jobs /\ job[t].hash \in Hashes
    BY <1>3 DEF TypeOK, JobsHold
  <2>2. NotFound(op) \in {"missing", "copy"}
    BY DEF NotFound
  <2>3. j \in Jobs /\ j.at = NotFound(op) /\ j.hash = job[t].hash
    BY <2>1, <2>2 DEF Jobs
  <2>4. job' = [job EXCEPT ![t] = j]
    BY <1>3 DEF Goes
  <2> HIDE DEF j
  <2> QED
    BY <2>1, <2>2, <2>3, <2>4, JobTypes
<1>4. ASSUME NEW t \in Threads, CheckFile(t) PROVE TypeOK' /\ JobsHold'
  <2>1. job[t] \in Jobs /\ job[t].name \in Names
    BY <1>4 DEF CheckFile, TypeOK, JobsHold
  <2>2. /\ job' \in [Threads -> Jobs] /\ JobsHold'
        /\ \A u \in Threads : job'[u].at = "idle" => job'[u] = Idle
    <3>1. job[t].op \in {"add", "read"}
      BY <2>1 DEF Jobs
    <3>2. Done(t) \/ (job[t].at = "check" /\ Goes(t, NotFound(job[t].op)))
      BY <1>4 DEF CheckFile
    <3> QED
      BY <3>1, <3>2, <1>2, <1>3
  <2>3. /\ meta' \in [Hashes -> Names \cup {None}]
        /\ files' \in [Names -> Hashes \cup {Bad, None}]
    BY <1>4 DEF CheckFile, TypeOK, WithoutBad
  <2> QED
    BY <1>4, <2>2, <2>3 DEF CheckFile, TypeOK
<1>5. ASSUME NEW t \in Threads, WriteTemp(t) PROVE TypeOK' /\ JobsHold'
  <2>1. PICK n \in Names \ used :
          /\ used' = used \cup {n} /\ files' = [files EXCEPT ![n] = job[t].hash]
          /\ job' = [job EXCEPT ![t].at = "record", ![t].name = n]
    BY <1>5 DEF WriteTemp
  <2> DEFINE j == [job[t] EXCEPT !.at = "record", !.name = n]
  <2>2. job[t] \in Jobs /\ job[t].hash \in Hashes
    BY <1>5 DEF WriteTemp, TypeOK, JobsHold
  <2>3. j \in Jobs /\ j.at = "record" /\ j.hash = job[t].hash /\ j.name = n
    BY <2>2 DEF Jobs
  <2>4. job' = [job EXCEPT ![t] = j]
    BY <2>1
  <2>5. /\ job' \in [Threads -> Jobs] /\ JobsHold'
        /\ \A u \in Threads : job'[u].at = "idle" => job'[u] = Idle
    <3> HIDE DEF j
    <3> QED
      BY <2>2, <2>3, <2>4, JobTypes
  <2> QED
    BY <1>5, <2>1, <2>2, <2>5 DEF WriteTemp, TypeOK, tables
<1>6. ASSUME NEW t \in Threads, RecordMeta(t) PROVE TypeOK' /\ JobsHold'
  <2>1. job[t].name \in Names /\ job[t].hash \in Hashes
    BY <1>6 DEF RecordMeta, JobsHold
  <2>2. [tag |-> "meta", hash |-> job[t].hash, name |-> job[t].name] \in Records
    BY <2>1 DEF Records
  <2>3. log' \in Seq(Records) /\ Len(log') <= MaxLog
    BY <1>6, <2>2, WriteTypes DEF RecordMeta, TypeOK
  <2>4. /\ job' \in [Threads -> Jobs] /\ JobsHold'
        /\ \A u \in Threads : job'[u].at = "idle" => job'[u] = Idle
    BY <1>6, <1>2 DEF RecordMeta
  <2>5. /\ meta' \in [Hashes -> Names \cup {None}]
        /\ files' \in [Names -> Hashes \cup {Bad, None}]
    BY <1>6, <2>1 DEF RecordMeta, TypeOK
  <2> QED
    BY <1>6, <2>3, <2>4, <2>5 DEF RecordMeta, TypeOK
<1>7. ASSUME NEW t \in Threads, CopyPlaces(t) PROVE TypeOK' /\ JobsHold'
  <2> DEFINE j == [job[t] EXCEPT !.at = "try", !.try = chunks[job[t].hash]]
  <2>1. job[t] \in Jobs /\ job[t].hash \in Hashes
    BY <1>7 DEF CopyPlaces, TypeOK, JobsHold
  <2>2. j \in Jobs /\ j.at = "try" /\ j.hash = job[t].hash
    BY <2>1 DEF Jobs, TypeOK
  <2>3. job' = [job EXCEPT ![t] = j]
    BY <1>7 DEF CopyPlaces
  <2>4. /\ job' \in [Threads -> Jobs] /\ JobsHold'
        /\ \A u \in Threads : job'[u].at = "idle" => job'[u] = Idle
    <3> HIDE DEF j
    <3> QED
      BY <2>1, <2>2, <2>3, JobTypes
  <2> QED
    BY <1>7, <2>4 DEF CopyPlaces, TypeOK, tables
<1>8. ASSUME NEW t \in Threads, TryPlace(t) PROVE TypeOK' /\ JobsHold'
  <2>1. job[t] \in Jobs /\ job[t].hash \in Hashes /\ job[t].at = "try"
    BY <1>8 DEF TryPlace, TypeOK, JobsHold
  <2>2. /\ job' \in [Threads -> Jobs] /\ JobsHold'
        /\ \A u \in Threads : job'[u].at = "idle" => job'[u] = Idle
    <3>1. CASE Done(t)
      BY <3>1, <1>2
    <3>2. ASSUME NEW p \in job[t].try, job' = [job EXCEPT ![t].try = @ \ {p}]
          PROVE  /\ job' \in [Threads -> Jobs] /\ JobsHold'
                 /\ \A u \in Threads : job'[u].at = "idle" => job'[u] = Idle
      <4> DEFINE j == [job[t] EXCEPT !.try = @ \ {p}]
      <4>1. j \in Jobs /\ j.at = "try" /\ j.hash = job[t].hash
        BY <2>1 DEF Jobs
      <4>2. job' = [job EXCEPT ![t] = j]
        BY <3>2
      <4> HIDE DEF j
      <4> QED
        BY <2>1, <4>1, <4>2, JobTypes
    <3> QED
      BY <1>8, <3>1, <3>2 DEF TryPlace
  <2>3. chunks' \in [Hashes -> SUBSET Paths]
    BY <1>8, <2>1 DEF TryPlace, TypeOK
  <2> QED
    BY <1>8, <2>2, <2>3 DEF TryPlace, TypeOK
<1>9. ASSUME NEW t \in Threads, NEW op \in {"add", "read"}, NEW h \in Hashes, Lookup(t, op, h)
      PROVE  TypeOK' /\ JobsHold'
  <2> DEFINE j == [Idle EXCEPT !.op = op, !.hash = h, !.name = meta[h],
                               !.at = IF meta[h] = None THEN NotFound(op) ELSE "check"]
  <2>1. meta[h] \in Names \cup {None} /\ NotFound(op) \in {"missing", "copy"}
    BY DEF TypeOK, NotFound
  <2>2. /\ j \in Jobs /\ j.hash = h /\ j.name = meta[h]
        /\ j.at = IF meta[h] = None THEN NotFound(op) ELSE "check"
    BY <2>1 DEF Jobs, Idle
  <2>3. job' = [job EXCEPT ![t] = j]
    BY <1>9 DEF Lookup
  <2>4. /\ job' \in [Threads -> Jobs] /\ JobsHold'
        /\ \A u \in Threads : job'[u].at = "idle" => job'[u] = Idle
    <3> HIDE DEF j
    <3> QED
      BY <2>1, <2>2, <2>3, JobTypes
  <2> QED
    BY <1>9, <2>4 DEF Lookup, TypeOK, tables
<1>10. ASSUME NEW p \in Paths, NEW h \in Hashes \cup {None}, Edit(p, h) PROVE TypeOK' /\ JobsHold'
  BY <1>10 DEF Edit, TypeOK, JobsHold, tables
<1>11. ASSUME NEW n \in Names, Damage(n) PROVE TypeOK' /\ JobsHold'
  BY <1>11 DEF Damage, TypeOK, JobsHold, tables
<1>12. CASE Crash
  BY <1>12, RestartTypes
<1>13. CASE UNCHANGED vars
  BY <1>13 DEF vars, tables, TypeOK, JobsHold
<1> QED
  BY <1>1, <1>4, <1>5, <1>6, <1>7, <1>8, <1>9, <1>10, <1>11, <1>12, <1>13 DEF Next

-----------------------------------------------------------------------------
(* The files of the chunks directory. *)

\* An entry whose file is bad: whoever claims the file, claims it for this chunk.
LEMMA CheckFileHolds ==
  ASSUME TypeOK, FilesHold, TypeOK', NEW t \in Threads, CheckFile(t)
  PROVE  ClaimsHold' /\ TempsHold' /\ EntriesHaveFiles'
<1> USE IndexAssumption
<1>1. job[t].at = "check" /\ job[t].hash \in Hashes /\ job[t].name \in Names
  BY DEF CheckFile, FilesHold, JobsHold
<1>2. /\ \A u \in Threads : u # t => job'[u] = job[u]
      /\ job'[t].at \in {"idle", "missing", "copy"}
  <2>1. job \in [Threads -> Jobs] /\ NotFound(job[t].op) \in {"missing", "copy"}
    BY DEF TypeOK, NotFound
  <2>2. CASE Done(t)
    BY <2>1, <2>2 DEF Done, Idle
  <2>3. CASE Goes(t, NotFound(job[t].op))
    BY <2>1, <2>3 DEF Goes, Jobs
  <2> QED
    BY <2>2, <2>3 DEF CheckFile
<1>3. \A h \in Hashes : meta'[h] = meta[h] \/ meta'[h] = None
  BY <1>1 DEF CheckFile, WithoutBad, TypeOK
<1>4. \A h \in Hashes, n \in Names : Claims(h, n)' => Claims(h, n)
  BY <1>2, <1>3 DEF CheckFile, Claims
<1>5. Claims(job[t].hash, job[t].name)
  BY <1>1 DEF Claims
<1>6. \A n \in Names : files'[n] = files[n] \/ (files'[n] = None /\ n = job[t].name)
  BY <1>1 DEF CheckFile, TypeOK
<1>7. ClaimsHold' /\ TempsHold'
  <2>1. \A u \in Threads : job'[u].at = "record" => job'[u] = job[u]
    BY <1>2
  <2>2. used \subseteq used'
    BY DEF CheckFile
  <2>3. \A n \in Names : files'[n] = files[n] \/
          (files'[n] \in {Bad, None} /\ \E h \in Hashes : Claims(h, n))
    BY <1>1, <1>5, <1>6
  <2> QED
    BY <1>4, <2>1, <2>2, <2>3, ClaimsGivenUp
<1>8. EntriesHaveFiles'
  <2> SUFFICES ASSUME NEW h \in Hashes, meta'[h] # None PROVE files'[meta'[h]] \in {h, Bad}
    BY DEF EntriesHaveFiles
  <2>1. meta'[h] = meta[h] /\ meta[h] \in Names /\ files[meta[h]] \in {h, Bad}
    BY <1>3 DEF FilesHold, EntriesHaveFiles, TypeOK
  <2>2. CASE files' = files
    BY <2>1, <2>2
  <2>3. CASE files' # files
    <3>1. meta' = WithoutBad(t)
      BY <2>3 DEF CheckFile
    <3>2. ASSUME meta[h] = job[t].name PROVE FALSE
      <4>1. Claims(h, job[t].name)
        BY <3>2 DEF Claims
      <4>2. h = job[t].hash
        BY <1>1, <1>5, <4>1 DEF FilesHold, ClaimsHold
      <4>3. meta' = [meta EXCEPT ![job[t].hash] = None]
        BY <3>1, <3>2, <4>2 DEF WithoutBad
      <4> QED
        BY <4>2, <4>3 DEF TypeOK
    <3>3. files'[meta[h]] = files[meta[h]]
      BY <1>6, <2>1, <3>2
    <3> QED
      BY <2>1, <3>3
  <2> QED
    BY <2>2, <2>3
<1> QED
  BY <1>7, <1>8

\* A new file has a name that nobody claims, and comes to be claimed with the
\* chunk it was written for.
LEMMA RecordingHolds ==
  ASSUME TypeOK, FilesHold, TypeOK', NEW t \in Threads, WriteTemp(t) \/ RecordMeta(t)
  PROVE  ClaimsHold' /\ TempsHold' /\ EntriesHaveFiles'
<1> USE IndexAssumption
<1>1. job[t].hash \in Hashes
  BY DEF WriteTemp, RecordMeta, FilesHold, JobsHold
<1>2. CASE WriteTemp(t)
  <2>1. PICK n \in Names \ used :
          /\ used' = used \cup {n} /\ files' = [files EXCEPT ![n] = job[t].hash]
          /\ job' = [job EXCEPT ![t].at = "record", ![t].name = n]
    BY <1>2 DEF WriteTemp
  <2>2. /\ \A u \in Threads : u # t => job'[u] = job[u]
        /\ job'[t].at = "record" /\ job'[t].name = n /\ job'[t].hash = job[t].hash
    BY <2>1 DEF TypeOK, Jobs
  <2>3. UNCHANGED <<meta, log>>
    BY <1>2 DEF WriteTemp, tables
  <2>4. \A h \in Hashes, m \in Names : Claims(h, m)' => Claims(h, m)
    BY <2>2, <2>3 DEF Claims
  <2>5. \A h \in Hashes : ~Claims(h, n)
    BY <2>1 DEF FilesHold, ClaimsHold
  <2>6. \A m \in Names : files'[m] = IF m = n THEN job[t].hash ELSE files[m]
    BY <2>1 DEF TypeOK
  <2>7. ClaimsHold'
    <3> SUFFICES ASSUME NEW m \in Names, NEW h \in Hashes, Claims(h, m)'
                 PROVE  /\ m \in used' /\ files'[m] \in {h, Bad, None}
                        /\ \A g \in Hashes : Claims(g, m)' => g = h
      BY DEF ClaimsHold
    <3>1. Claims(h, m) /\ m # n
      BY <2>4, <2>5
    <3> QED
      BY <2>1, <2>4, <2>6, <3>1 DEF FilesHold, ClaimsHold
  <2>8. TempsHold'
    <3> SUFFICES ASSUME NEW u \in Threads, job'[u].at = "record"
                 PROVE  /\ job'[u].name \in used' /\ files'[job'[u].name] = job'[u].hash
                        /\ \A h \in Hashes : ~Claims(h, job[u].name)'
                        /\ \A v \in Threads : job'[v].at = "record" /\ job'[v].name = job'[u].name => v = u
      BY DEF TempsHold, Claims
    <3>1. \A v \in Threads : v # t /\ job'[v].at = "record" =>
            /\ job'[v] = job[v] /\ job[v].at = "record" /\ job[v].name \in Names
            /\ job[v].name \in used /\ job[v].name # n
      BY <2>1, <2>2 DEF FilesHold, TempsHold, JobsHold
    <3>2. CASE u = t
      <4>1. \A h \in Hashes : ~Claims(h, n)'
        BY <2>1, <2>4, <2>5
      <4>2. \A h \in Hashes : ~Claims(h, job[u].name)'
        BY <4>1, <2>2, <3>2 DEF Claims
      <4>3. job'[u].name \in used' /\ files'[job'[u].name] = job'[u].hash
        BY <2>1, <2>2, <2>6, <3>2
      <4>4. \A v \in Threads : job'[v].at = "record" /\ job'[v].name = job'[u].name => v = u
        BY <2>2, <3>1, <3>2
      <4> QED
        BY <4>2, <4>3, <4>4
    <3>3. CASE u # t
      <4>1. /\ files[job[u].name] = job[u].hash /\ \A h \in Hashes : ~Claims(h, job[u].name)
            /\ \A v \in Threads : job[v].at = "record" /\ job[v].name = job[u].name => v = u
        BY <3>1, <3>3 DEF FilesHold, TempsHold
      <4>2. \A h \in Hashes : ~Claims(h, job[u].name)'
        BY <2>4, <3>1, <3>3, <4>1
      <4>3. job'[u].name \in used' /\ files'[job'[u].name] = job'[u].hash
        <5>1. job'[u] = job[u] /\ job[u].name \in Names /\ job[u].name # n /\ job[u].name \in used
          BY <3>1, <3>3
        <5>2. files'[job[u].name] = files[job[u].name]
          BY <2>6, <5>1
        <5>3. used \subseteq used'
          BY <2>1
        <5>4. files[job[u].name] = job[u].hash
          BY <4>1
        <5> QED
          BY <5>1, <5>2, <5>3, <5>4, Zenon
      <4>4. \A v \in Threads : job'[v].at = "record" /\ job'[v].name = job'[u].name => v = u
        BY <2>2, <3>1, <3>3, <4>1
      <4> QED
        BY <4>2, <4>3, <4>4
    <3> QED
      BY <3>2, <3>3
  <2>9. EntriesHaveFiles'
    <3> SUFFICES ASSUME NEW h \in Hashes, meta'[h] # None PROVE files'[meta'[h]] \in {h, Bad}
      BY DEF EntriesHaveFiles
    <3>1. meta'[h] = meta[h] /\ meta[h] \in Names /\ Claims(h, meta[h])
      BY <2>3 DEF TypeOK, Claims
    <3>2. meta[h] # n
      BY <2>5, <3>1
    <3> QED
      BY <2>6, <3>1, <3>2 DEF FilesHold, EntriesHaveFiles
  <2> QED
    BY <2>7, <2>8, <2>9
<1>3. CASE RecordMeta(t)
  <2> DEFINE n == job[t].name
             g == job[t].hash
  <2>1. /\ job[t].at = "record" /\ n \in Names /\ n \in used /\ files[n] = g
        /\ \A h \in Hashes : ~Claims(h, n)
        /\ \A u \in Threads : job[u].at = "record" /\ job[u].name = n => u = t
    BY <1>3 DEF RecordMeta, FilesHold, JobsHold, TempsHold
  <2>2. /\ \A u \in Threads : u # t => job'[u] = job[u]
        /\ job'[t].at = "idle"
    BY <1>3 DEF RecordMeta, Done, Idle, TypeOK
  <2>3. used' = used
    BY <1>3 DEF RecordMeta
  <2>4. CASE /\ files' = [files EXCEPT ![n] = None] /\ UNCHANGED <<log, meta>>
    <3>1. \A h \in Hashes, m \in Names : Claims(h, m)' => Claims(h, m)
      BY <2>2, <2>4 DEF Claims
    <3>2. \A m \in Names : files'[m] = IF m = n THEN None ELSE files[m]
      BY <2>4 DEF TypeOK
    <3>3. ClaimsHold'
      <4> SUFFICES ASSUME NEW m \in Names, NEW h \in Hashes, Claims(h, m)'
                   PROVE  /\ m \in used' /\ files'[m] \in {h, Bad, None}
                          /\ \A f \in Hashes : Claims(f, m)' => f = h
        BY DEF ClaimsHold
      <4>1. Claims(h, m) /\ m # n
        BY <3>1, <2>1
      <4> QED
        BY <2>3, <3>1, <3>2, <4>1 DEF FilesHold, ClaimsHold
    <3>4. TempsHold'
      <4> SUFFICES ASSUME NEW u \in Threads, job'[u].at = "record"
                   PROVE  /\ job'[u].name \in used' /\ files'[job'[u].name] = job'[u].hash
                          /\ \A h \in Hashes : ~Claims(h, job[u].name)'
                          /\ \A v \in Threads : job'[v].at = "record" /\ job'[v].name = job'[u].name => v = u
        BY DEF TempsHold, Claims
      <4>1. /\ u # t /\ job'[u] = job[u] /\ job[u].at = "record" /\ job[u].name \in Names
            /\ job[u].name # n
        BY <2>1, <2>2 DEF FilesHold, JobsHold
      <4>2. /\ job[u].name \in used /\ files[job[u].name] = job[u].hash
            /\ \A h \in Hashes : ~Claims(h, job[u].name)
            /\ \A v \in Threads : job[v].at = "record" /\ job[v].name = job[u].name => v = u
        BY <4>1 DEF FilesHold, TempsHold
      <4>3. \A h \in Hashes : ~Claims(h, job[u].name)'
        BY <3>1, <4>1, <4>2
      <4> QED
        BY <2>2, <2>3, <3>2, <4>1, <4>2, <4>3
    <3>5. EntriesHaveFiles'
      <4> SUFFICES ASSUME NEW h \in Hashes, meta'[h] # None PROVE files'[meta'[h]] \in {h, Bad}
        BY DEF EntriesHaveFiles
      <4>1. meta'[h] = meta[h] /\ meta[h] \in Names /\ Claims(h, meta[h])
        BY <2>4 DEF TypeOK, Claims
      <4>2. meta[h] # n
        BY <2>1, <4>1
      <4> QED
        BY <3>2, <4>1, <4>2 DEF FilesHold, EntriesHaveFiles
    <3> QED
      BY <3>3, <3>4, <3>5
  <2>5. CASE /\ meta' = [meta EXCEPT ![g] = n] /\ files' = files
             /\ log' = Append(log, [tag |-> "meta", hash |-> g, name |-> n])
    <3>1. \A h \in Hashes, m \in Names : Claims(h, m)' => Claims(h, m) \/ (h = g /\ m = n)
      <4> SUFFICES ASSUME NEW h \in Hashes, NEW m \in Names, Claims(h, m)', ~(h = g /\ m = n)
                   PROVE  Claims(h, m)
        OBVIOUS
      <4>1. CASE meta'[h] = m
        <5>1. meta[h] = m
          BY <2>5, <4>1 DEF TypeOK
        <5> QED
          BY <5>1 DEF Claims
      <4>2. CASE \E k \in DOMAIN log' : log'[k].tag = "meta" /\ log'[k].hash = h /\ log'[k].name = m
        <5>1. PICK k \in DOMAIN log' : log'[k].tag = "meta" /\ log'[k].hash = h /\ log'[k].name = m
          BY <4>2
        <5>2. /\ log \in Seq(Records) /\ [tag |-> "meta", hash |-> g, name |-> n] \in Records
          BY <1>1, <2>1 DEF TypeOK, Records
        <5>3. k \in 1..Len(log) + 1 /\ log'[k] = IF k = Len(log) + 1
                THEN [tag |-> "meta", hash |-> g, name |-> n] ELSE log[k]
          BY <2>5, <5>1, <5>2
        <5>4. k # Len(log) + 1
          BY <5>1, <5>3
        <5>5. k \in DOMAIN log /\ log'[k] = log[k]
          BY <5>2, <5>3, <5>4
        <5> QED
          BY <5>1, <5>5 DEF Claims
      <4>3. CASE \E u \in Threads : job'[u].at = "check" /\ job'[u].hash = h /\ job'[u].name = m
        BY <2>2, <4>3 DEF Claims
      <4> QED
        BY <4>1, <4>2, <4>3 DEF Claims
    <3>2. ClaimsHold'
      <4> SUFFICES ASSUME NEW m \in Names, NEW h \in Hashes, Claims(h, m)'
                   PROVE  /\ m \in used' /\ files'[m] \in {h, Bad, None}
                          /\ \A f \in Hashes : Claims(f, m)' => f = h
        BY DEF ClaimsHold
      <4>1. CASE m = n
        <5>1. h = g /\ \A f \in Hashes : Claims(f, m)' => f = g
          BY <2>1, <3>1, <4>1
        <5> QED
          BY <2>1, <2>3, <2>5, <4>1, <5>1
      <4>2. CASE m # n
        BY <2>3, <2>5, <3>1, <4>2 DEF FilesHold, ClaimsHold
      <4> QED
        BY <4>1, <4>2
    <3>3. TempsHold'
      <4> SUFFICES ASSUME NEW u \in Threads, job'[u].at = "record"
                   PROVE  /\ job'[u].name \in used' /\ files'[job'[u].name] = job'[u].hash
                          /\ \A h \in Hashes : ~Claims(h, job[u].name)'
                          /\ \A v \in Threads : job'[v].at = "record" /\ job'[v].name = job'[u].name => v = u
        BY DEF TempsHold, Claims
      <4>1. /\ u # t /\ job'[u] = job[u] /\ job[u].at = "record" /\ job[u].name \in Names
            /\ job[u].name # n
        BY <2>1, <2>2 DEF FilesHold, JobsHold
      <4>2. /\ job[u].name \in used /\ files[job[u].name] = job[u].hash
            /\ \A h \in Hashes : ~Claims(h, job[u].name)
            /\ \A v \in Threads : job[v].at = "record" /\ job[v].name = job[u].name => v = u
        BY <4>1 DEF FilesHold, TempsHold
      <4>3. \A h \in Hashes : ~Claims(h, job[u].name)'
        BY <3>1, <4>1, <4>2
      <4> QED
        BY <2>2, <2>3, <2>5, <4>1, <4>2, <4>3
    <3>4. EntriesHaveFiles'
      BY <1>1, <2>1, <2>5 DEF EntriesHaveFiles, FilesHold, TypeOK
    <3> QED
      BY <3>2, <3>3, <3>4
  <2> QED
    BY <1>3, <2>4, <2>5 DEF RecordMeta, Write
<1> QED
  BY <1>2, <1>3

\* The program starts again: what it takes from the log was claimed before.
LEMMA RestartHolds ==
  ASSUME TypeOK, FilesHold, TypeOK', Crash
  PROVE  ClaimsHold' /\ TempsHold' /\ EntriesHaveFiles'
<1> USE IndexAssumption
<1>1. PICK l \in {log} \cup {x \in Torn : Len(x) <= MaxLog} : Restart(l)
  BY DEF Crash
<1>2. /\ l \in Seq(Records)
      /\ \A k \in DOMAIN l : l[k].tag # "torn" => k \in DOMAIN log /\ l[k] = log[k]
  <2>1. CASE l = log
    BY <2>1 DEF TypeOK
  <2>2. CASE l \in Torn
    <3>1. PICK w \in {"tag", "body"} : l = Append(log, [tag |-> "torn", within |-> w])
      BY <2>2 DEF Torn
    <3>2. [tag |-> "torn", within |-> w] \in Records
      BY DEF Records
    <3> QED
      BY <3>1, <3>2 DEF TypeOK
  <2> QED
    BY <2>1, <2>2
<1>3. \A t \in Threads : job'[t].at = "idle"
  BY <1>1 DEF Restart, Idle
<1>4. CASE ~Corrupt(l)
  <2>1. log' = l /\ meta' = LogMeta(Sound(l), files) /\ files' = files /\ used' = used
    BY <1>1, <1>4 DEF Restart, Load
  <2>2. \A h \in Hashes : meta'[h] # None =>
          /\ files[meta'[h]] # None
          /\ \E k \in DOMAIN log : log[k].tag = "meta" /\ log[k].hash = h /\ log[k].name = meta'[h]
    <3> SUFFICES ASSUME NEW h \in Hashes, meta'[h] # None
                 PROVE  /\ files[meta'[h]] # None
                        /\ \E k \in DOMAIN log : log[k].tag = "meta" /\ log[k].hash = h
                                                /\ log[k].name = meta'[h]
      OBVIOUS
    <3>1. Sound(l) \in Seq(Records)
      BY <1>2, SoundPrefix
    <3>2. PICK k : Tells(Sound(l), files, h, k) /\ meta'[h] = Sound(l)[k].name
      BY <2>1, <3>1, LogMetaTells
    <3>3. k \in DOMAIN l /\ Sound(l)[k] = l[k] /\ l[k].tag = "meta"
      BY <1>2, <3>1, <3>2, SoundPrefix DEF Tells
    <3>4. k \in DOMAIN log /\ l[k] = log[k]
      BY <1>2, <3>3
    <3> QED
      BY <3>2, <3>3, <3>4 DEF Tells
  <2>3. \A h \in Hashes, n \in Names : Claims(h, n)' => Claims(h, n)
    <3> SUFFICES ASSUME NEW h \in Hashes, NEW n \in Names, Claims(h, n)' PROVE Claims(h, n)
      OBVIOUS
    <3>1. CASE meta'[h] = n
      BY <2>2, <3>1 DEF Claims
    <3>2. CASE \E k \in DOMAIN log' : log'[k].tag = "meta" /\ log'[k].hash = h /\ log'[k].name = n
      BY <1>2, <2>1, <3>2 DEF Claims
    <3> QED
      BY <1>3, <3>1, <3>2 DEF Claims
  <2>4. ClaimsHold' /\ TempsHold'
    BY <1>3, <2>1, <2>3, ClaimsGivenUp
  <2>5. EntriesHaveFiles'
    <3> SUFFICES ASSUME NEW h \in Hashes, meta'[h] # None PROVE files'[meta'[h]] \in {h, Bad}
      BY DEF EntriesHaveFiles
    <3>1. Claims(h, meta'[h]) /\ meta'[h] \in Names
      BY <2>2 DEF Claims, TypeOK
    <3> QED
      BY <2>1, <2>2, <3>1 DEF FilesHold, ClaimsHold
  <2> QED
    BY <2>4, <2>5
<1>5. CASE Corrupt(l)
  <2>1. log' = <<>> /\ meta' = [h \in Hashes |-> None]
    BY <1>1, <1>5 DEF Restart, Load
  <2>2. \A h \in Hashes, n \in Names : ~Claims(h, n)'
    BY <1>3, <2>1 DEF Claims
  <2> QED
    BY <1>3, <2>1, <2>2 DEF ClaimsHold, TempsHold, EntriesHaveFiles
<1> QED
  BY <1>4, <1>5

\* Steps that leave the directory alone.
LEMMA OthersHold ==
  ASSUME TypeOK, FilesHold, TypeOK',
         \A h \in Hashes, n \in Names : Claims(h, n)' => Claims(h, n),
         \A t \in Threads : job'[t].at = "record" => job'[t] = job[t],
         meta' = meta, files' = files, used' = used
  PROVE  ClaimsHold' /\ TempsHold' /\ EntriesHaveFiles'
<1>1. ClaimsHold' /\ TempsHold'
  BY ClaimsGivenUp
<1> QED
  BY <1>1 DEF FilesHold, EntriesHaveFiles

LEMMA FilesKept == TypeOK /\ FilesHold /\ TypeOK' /\ JobsHold' /\ [Next]_vars => FilesHold'
<1> SUFFICES ASSUME TypeOK, FilesHold, TypeOK', JobsHold', [Next]_vars
             PROVE  ClaimsHold' /\ TempsHold' /\ EntriesHaveFiles'
  BY DEF FilesHold
<1>1. ASSUME NEW p \in Paths, NEW h \in Hashes, AddFileInfo(p, h) \/ AddFileChunk(p, h)
      PROVE  ClaimsHold' /\ TempsHold' /\ EntriesHaveFiles'
  <2>1. /\ UNCHANGED <<meta, files, used, job>>
        /\ \E r \in Records : r.tag # "meta" /\ log' = Append(log, r)
    BY <1>1 DEF AddFileInfo, AddFileChunk, Write, Records
  <2>2. \A k \in DOMAIN log' : log'[k].tag = "meta" => k \in DOMAIN log /\ log'[k] = log[k]
    BY <2>1 DEF TypeOK
  <2>3. \A g \in Hashes, n \in Names : Claims(g, n)' => Claims(g, n)
    BY <2>1, <2>2 DEF Claims
  <2> QED
    BY <2>1, <2>3, OthersHold
<1>2. ASSUME NEW t \in Threads, CopyPlaces(t) \/ TryPlace(t)
      PROVE  ClaimsHold' /\ TempsHold' /\ EntriesHaveFiles'
  <2>1. /\ UNCHANGED <<meta, files, used, log>>
        /\ \A u \in Threads : u # t => job'[u] = job[u]
        /\ job'[t].at \in {"try", "idle"}
    BY <1>2 DEF CopyPlaces, TryPlace, Done, Idle, TypeOK, Jobs, tables
  <2>2. \A g \in Hashes, n \in Names : Claims(g, n)' => Claims(g, n)
    BY <2>1 DEF Claims
  <2>3. \A u \in Threads : job'[u].at = "record" => job'[u] = job[u]
    BY <2>1
  <2> QED
    BY <2>1, <2>2, <2>3, OthersHold
<1>3. ASSUME NEW t \in Threads, NEW op \in {"add", "read"}, NEW h \in Hashes, Lookup(t, op, h)
      PROVE  ClaimsHold' /\ TempsHold' /\ EntriesHaveFiles'
  <2>1. /\ UNCHANGED <<meta, files, used, log>>
        /\ \A u \in Threads : u # t => job'[u] = job[u]
        /\ job'[t].at = "check" => job'[t].hash = h /\ job'[t].name = meta[h]
        /\ job'[t].at # "record"
    BY <1>3 DEF Lookup, Idle, TypeOK, NotFound, tables
  <2>2. \A g \in Hashes, n \in Names : Claims(g, n)' => Claims(g, n)
    BY <2>1 DEF Claims
  <2>3. \A u \in Threads : job'[u].at = "record" => job'[u] = job[u]
    BY <2>1
  <2> QED
    BY <2>1, <2>2, <2>3, OthersHold
<1>4. ASSUME NEW n \in Names, Damage(n)
      PROVE  ClaimsHold' /\ TempsHold' /\ EntriesHaveFiles'
  <2>1. PICK g \in Hashes : meta[g] = n
    BY <1>4 DEF Damage
  <2>2. UNCHANGED <<meta, used, log, job>> /\ files' = [files EXCEPT ![n] = Bad]
    BY <1>4 DEF Damage, tables
  <2>3. \A f \in Hashes, m \in Names : Claims(f, m)' => Claims(f, m)
    BY <2>2 DEF Claims
  <2>4. Claims(g, n)
    BY <2>1 DEF Claims
  <2>5. \A m \in Names : files'[m] = files[m] \/
          (files'[m] \in {Bad, None} /\ \E f \in Hashes : Claims(f, m))
    BY <2>2, <2>4 DEF TypeOK
  <2>6. ClaimsHold' /\ TempsHold'
    BY <2>2, <2>3, <2>5, ClaimsGivenUp
  <2> QED
    BY <2>2, <2>6 DEF FilesHold, EntriesHaveFiles, TypeOK
<1>5. CASE \E p \in Paths, h \in Hashes \cup {None} : Edit(p, h)
  <2>1. UNCHANGED <<meta, files, used, job, log>>
    BY <1>5 DEF Edit, tables
  <2>2. \A g \in Hashes, n \in Names : Claims(g, n)' => Claims(g, n)
    BY <2>1 DEF Claims
  <2> QED
    BY <2>1, <2>2, OthersHold
<1>6. CASE UNCHANGED vars
  <2>1. UNCHANGED <<meta, files, used, job, log>>
    BY <1>6 DEF vars, tables
  <2>2. \A g \in Hashes, n \in Names : Claims(g, n)' => Claims(g, n)
    BY <2>1 DEF Claims
  <2> QED
    BY <2>1, <2>2, OthersHold
<1>7. CASE \E t \in Threads : CheckFile(t)
  BY <1>7, CheckFileHolds
<1>8. CASE \E t \in Threads : WriteTemp(t) \/ RecordMeta(t)
  BY <1>8, RecordingHolds
<1>9. CASE Crash
  BY <1>9, RestartHolds
<1> QED
  BY <1>1, <1>2, <1>3, <1>4, <1>5, <1>6, <1>7, <1>8, <1>9 DEF Next

-----------------------------------------------------------------------------
(* The tables and the log. *)

\* Reading a log that is not corrupt is reading all of it.
LEMMA SoundReads ==
  ASSUME NEW l \in Seq(Records), NEW dir, ~Corrupt(l)
  PROVE  /\ LogMeta(Sound(l), dir) = LogMeta(l, dir)
         /\ LogChunks(Sound(l)) = LogChunks(l)
<1> DEFINE bad == {k \in DOMAIN l : l[k].tag = "torn"}
<1>1. CASE bad = {}
  <2>1. Sound(l) = l
    BY <1>1, SoundPrefix
  <2> QED
    BY <2>1
<1>2. CASE bad # {}
  <2>1. PICK n \in Nat : n = Len(l)
    OBVIOUS
  <2>2. bad = {n}
    BY <1>2, <2>1 DEF Corrupt
  <2> DEFINE first == CHOOSE k \in bad : \A j \in bad : k <= j
  <2>3. first = n
    <3> HIDE DEF bad
    <3>1. \E k \in bad : \A j \in bad : k <= j
      BY <2>2
    <3> QED
      BY <2>2, <3>1
  <2>4. Sound(l) = SubSeq(l, 1, first - 1)
    BY <1>2 DEF Sound
  <2> HIDE DEF first
  <2>5. n \in DOMAIN l /\ n >= 1 /\ l[n].tag = "torn"
    BY <2>1, <2>2
  <2> HIDE DEF bad
  <2>6. PICK s : s = Sound(l)
    OBVIOUS
  <2>7. s = SubSeq(l, 1, n - 1)
    BY <2>3, <2>4, <2>6
  <2>8. DOMAIN s = 1 .. n - 1 /\ \A k \in DOMAIN s : s[k] = l[k]
    BY <2>1, <2>5, <2>7
  <2>9. DOMAIN l = 1 .. n
    BY <2>1
  <2>10. \A k : k \in DOMAIN s <=> k \in DOMAIN l /\ k # n
    BY <2>1, <2>5, <2>8, <2>9
  <2>11. ASSUME NEW h \in Hashes PROVE LogMeta(s, dir)[h] = LogMeta(l, dir)[h]
    <3> DEFINE S(x) == {k \in DOMAIN x : x[k].tag = "meta" /\ x[k].hash = h /\ dir[x[k].name] # None}
    <3>1. S(s) = S(l)
      BY <2>5, <2>8, <2>10
    <3>2. S(s) # {} => s[Latest(S(s))].name = l[Latest(S(s))].name
      <4>1. PICK T : T = S(s)
        OBVIOUS
      <4>2. T \subseteq DOMAIN s /\ T \in SUBSET (1 .. n) /\ n \in Nat
        BY <2>1, <2>5, <2>8, <4>1
      <4>3. T # {} => Latest(T) \in DOMAIN s
        BY <4>2, LatestIn
      <4> QED
        BY <2>8, <4>1, <4>3
    <3>3. \A x : LogMeta(x, dir)[h] = IF S(x) = {} THEN None ELSE x[Latest(S(x))].name
      BY DEF LogMeta
    <3> HIDE DEF S
    <3> QED
      BY <3>1, <3>2, <3>3
  <2>12. LogMeta(s, dir) = LogMeta(l, dir)
    BY <2>11 DEF LogMeta
  <2>13. \A h, q : (\E k \in DOMAIN s : s[k].tag = "file" /\ s[k].hash = h /\ s[k].path = q)
            <=> (\E k \in DOMAIN l : l[k].tag = "file" /\ l[k].hash = h /\ l[k].path = q)
    BY <2>5, <2>8, <2>10
  <2>14. LogChunks(s) = LogChunks(l)
    BY <2>13 DEF LogChunks
  <2> QED
    BY <2>6, <2>12, <2>14
<1> QED
  BY <1>1, <1>2

\* A sound log is what is read of it with a record cut short at its end.
LEMMA TornEnd ==
  ASSUME NEW l \in Seq(Records), NEW r \in Records, r.tag = "torn", ~Corrupt(Append(l, r))
  PROVE  (\A k \in DOMAIN l : l[k].tag # "torn") /\ Sound(Append(l, r)) = l
<1> DEFINE a == Append(l, r)
           bad == {k \in DOMAIN a : a[k].tag = "torn"}
<1>1. /\ DOMAIN l = 1..Len(l) /\ Len(l) \in Nat
      /\ DOMAIN a = 1..(Len(l) + 1) /\ Len(a) = Len(l) + 1 /\ a \in Seq(Records)
      /\ a[Len(l) + 1] = r /\ \A k \in DOMAIN l : a[k] = l[k]
  OBVIOUS
<1> HIDE DEF a
<1>2. \A k \in DOMAIN l : l[k].tag # "torn"
  <2> SUFFICES ASSUME NEW k \in DOMAIN l, l[k].tag = "torn" PROVE FALSE
    OBVIOUS
  <2>1. k \in DOMAIN a /\ a[k].tag = "torn" /\ k < Len(a)
    BY <1>1
  <2>2. ~Corrupt(a)
    BY DEF a
  <2> QED
    BY <2>1, <2>2 DEF Corrupt
<1>3. bad = {Len(l) + 1}
  <2>1. Len(l) + 1 \in bad
    BY <1>1
  <2>2. \A k \in bad : k = Len(l) + 1
    BY <1>1, <1>2
  <2> HIDE DEF bad
  <2> QED
    BY <2>1, <2>2
<1>4. (CHOOSE k \in bad : \A j \in bad : k <= j) = Len(l) + 1
  <2>1. Len(l) + 1 <= Len(l) + 1
    BY <1>1
  <2> HIDE DEF bad
  <2>2. \E k \in bad : \A j \in bad : k <= j
    BY <1>3, <2>1
  <2> QED
    BY <1>3, <2>2
<1>5. Sound(a) = SubSeq(a, 1, Len(l))
  <2>1. Sound(a) = SubSeq(a, 1, (CHOOSE k \in bad : \A j \in bad : k <= j) - 1)
    <3>1. bad # {}
      BY <1>3
    <3> QED
      BY <3>1 DEF Sound
  <2>2. (Len(l) + 1) - 1 = Len(l)
    BY <1>1
  <2> QED
    BY <1>4, <2>1, <2>2
<1>6. SubSeq(a, 1, Len(l)) = l
  <2>1. SubSeq(a, 1, Len(l)) \in Seq(Records) /\ Len(SubSeq(a, 1, Len(l))) = Len(l)
    BY <1>1
  <2>2. \A k \in 1..Len(l) : SubSeq(a, 1, Len(l))[k] = l[k]
    BY <1>1
  <2> QED
    BY <1>1, <2>1, <2>2
<1> QED
  BY <1>2, <1>5, <1>6 DEF a

\* Steps that write nothing: entries are only given up, or their files kept.
LEMMA LogUnwritten ==
  ASSUME TypeOK, LogHolds, log' = log, EntriesHaveFiles',
         \A h \in Hashes : /\ meta'[h] # None => meta'[h] = meta[h]
                           /\ chunks'[h] \subseteq chunks[h],
         \A k \in DOMAIN log :
           log[k].tag = "meta" /\ files'[log[k].name] # None => files[log[k].name] # None
  PROVE  LogHolds'
<1> USE IndexAssumption
<1>0. TagsTorn'
  BY DEF LogHolds, TagsTorn
<1> SUFFICES ASSUME NEW h \in Hashes
             PROVE  /\ meta'[h] # None => LogMeta(log, files')[h] = meta'[h]
                    /\ chunks'[h] \subseteq LogChunks(log)[h]
  BY <1>0 DEF LogHolds, ReadFrom
<1>1. chunks'[h] \subseteq LogChunks(log)[h]
  BY DEF LogHolds, ReadFrom
<1>2. ASSUME meta'[h] # None PROVE LogMeta(log, files')[h] = meta'[h]
  <2>1. meta'[h] = meta[h] /\ LogMeta(log, files)[h] = meta[h] /\ meta[h] # None
    BY <1>2 DEF LogHolds, ReadFrom
  <2>2. log \in Seq(Records)
    BY DEF TypeOK
  <2>3. PICK k : Tells(log, files, h, k) /\ meta[h] = log[k].name
    BY <2>1, <2>2, LogMetaTells
  <2>4. files'[meta[h]] # None
    BY <1>2, <2>1 DEF EntriesHaveFiles
  <2>5. Tells(log, files', h, k)
    BY <2>3, <2>4 DEF Tells
  <2> QED
    BY <2>1, <2>2, <2>3, <2>5, LogMetaTold
<1> QED
  BY <1>1, <1>2

\* Steps that write a record of something other than a metadata chunk.
LEMMA LogWritten ==
  ASSUME TypeOK, LogHolds, NEW r \in Records, r.tag \in {"info", "file"}, log' = Append(log, r),
         meta' = meta, files' = files,
         \A h \in Hashes : chunks'[h] \subseteq chunks[h] \cup
                             {p \in Paths : r.tag = "file" /\ r.hash = h /\ r.path = p}
  PROVE  LogHolds'
<1>1. TagsTorn'
  BY DEF TypeOK, LogHolds, TagsTorn
<1> SUFFICES ASSUME NEW h \in Hashes
             PROVE  /\ meta'[h] # None => LogMeta(log', files')[h] = meta'[h]
                    /\ chunks'[h] \subseteq LogChunks(log')[h]
  BY <1>1 DEF LogHolds, ReadFrom
<1>2. /\ log \in Seq(Records) /\ log' \in Seq(Records)
      /\ DOMAIN log = 1..Len(log) /\ Len(log) \in Nat
      /\ DOMAIN log' = 1..(Len(log) + 1)
      /\ log'[Len(log) + 1] = r /\ \A k \in DOMAIN log : log'[k] = log[k]
  BY DEF TypeOK
<1>3. ASSUME meta'[h] # None PROVE LogMeta(log', files')[h] = meta'[h]
  <2>1. LogMeta(log, files)[h] = meta[h] /\ meta[h] # None
    BY <1>3 DEF LogHolds, ReadFrom
  <2>2. PICK k : Tells(log, files, h, k) /\ meta[h] = log[k].name
    BY <1>2, <2>1, LogMetaTells
  <2>3. Tells(log', files', h, k)
    BY <1>2, <2>2 DEF Tells
  <2>4. log'[k] = log[k]
    BY <1>2, <2>2 DEF Tells
  <2>5. LogMeta(log', files')[h] = log'[k].name
    BY <1>2, <2>3, ToldNext
  <2> QED
    BY <2>2, <2>4, <2>5
<1>4. chunks'[h] \subseteq LogChunks(log')[h]
  <2> SUFFICES ASSUME NEW p \in Paths, p \in chunks'[h] PROVE p \in LogChunks(log')[h]
    <3>1. chunks'[h] \subseteq Paths
      BY DEF TypeOK
    <3> QED
      BY <3>1
  <2>1. CASE p \in chunks[h]
    <3>1. p \in LogChunks(log)[h]
      BY <2>1 DEF LogHolds, ReadFrom
    <3>2. PICK k \in DOMAIN log : log[k].tag = "file" /\ log[k].hash = h /\ log[k].path = p
      BY <3>1 DEF LogChunks
    <3>3. k \in DOMAIN log' /\ log'[k] = log[k]
      BY <1>2
    <3> QED
      BY <3>2, <3>3 DEF LogChunks
  <2>2. CASE r.tag = "file" /\ r.hash = h /\ r.path = p
    <3>1. Len(log) + 1 \in DOMAIN log'
      BY <1>2
    <3> QED
      BY <1>2, <2>2, <3>1 DEF LogChunks
  <2> QED
    BY <2>1, <2>2
<1> QED
  BY <1>3, <1>4

\* The step that records the chunk: the table and the log get the same entry.
LEMMA LogRecorded ==
  ASSUME TypeOK, FilesHold, LogHolds, NEW t \in Threads, job[t].at = "record",
         log' = Append(log, [tag |-> "meta", hash |-> job[t].hash, name |-> job[t].name]),
         meta' = [meta EXCEPT ![job[t].hash] = job[t].name],
         files' = files, chunks' = chunks
  PROVE  LogHolds'
<1> USE IndexAssumption
<1> DEFINE g == job[t].hash
           n == job[t].name
           r == [tag |-> "meta", hash |-> g, name |-> n]
<1>0. g \in Hashes /\ n \in Names /\ files[n] = g /\ r \in Records
  <2>1. g \in Hashes /\ n \in Names /\ files[n] = g
    BY DEF FilesHold, JobsHold, TempsHold
  <2> QED
    BY <2>1 DEF Records
<1>1. TagsTorn'
  BY <1>0 DEF TypeOK, LogHolds, TagsTorn
<1> SUFFICES ASSUME NEW h \in Hashes
             PROVE  /\ meta'[h] # None => LogMeta(log', files')[h] = meta'[h]
                    /\ chunks'[h] \subseteq LogChunks(log')[h]
  BY <1>1 DEF LogHolds, ReadFrom
<1>2. /\ log \in Seq(Records) /\ log' \in Seq(Records)
      /\ DOMAIN log = 1..Len(log) /\ Len(log) \in Nat
      /\ DOMAIN log' = 1..(Len(log) + 1)
      /\ log'[Len(log) + 1] = r /\ \A k \in DOMAIN log : log'[k] = log[k]
  BY <1>0 DEF TypeOK
<1>3. chunks'[h] \subseteq LogChunks(log')[h]
  <2> SUFFICES ASSUME NEW p \in Paths, p \in chunks[h] PROVE p \in LogChunks(log')[h]
    BY DEF TypeOK
  <2>1. p \in LogChunks(log)[h]
    BY DEF LogHolds, ReadFrom
  <2>2. PICK k \in DOMAIN log : log[k].tag = "file" /\ log[k].hash = h /\ log[k].path = p
    BY <2>1 DEF LogChunks
  <2>3. k \in DOMAIN log' /\ log'[k] = log[k]
    BY <1>2
  <2> QED
    BY <2>2, <2>3 DEF LogChunks
<1>4. ASSUME h = g PROVE LogMeta(log', files')[h] = meta'[h]
  <2>1. meta'[h] = n
    BY <1>4, <1>0 DEF TypeOK
  <2>2. Tells(log', files', h, Len(log) + 1)
    <3>1. files'[n] # None
      BY <1>0
    <3> QED
      BY <1>2, <1>4, <3>1 DEF Tells
  <2>3. LogMeta(log', files')[h] = log'[Len(log) + 1].name
    BY <1>2, <2>2, ToldNext
  <2> QED
    BY <1>2, <2>1, <2>3
<1>5. ASSUME h # g, meta'[h] # None PROVE LogMeta(log', files')[h] = meta'[h]
  <2>1. meta'[h] = meta[h] /\ LogMeta(log, files)[h] = meta[h] /\ meta[h] # None
    BY <1>0, <1>5 DEF LogHolds, ReadFrom, TypeOK
  <2>2. PICK k : Tells(log, files, h, k) /\ meta[h] = log[k].name
    BY <1>2, <2>1, LogMetaTells
  <2>3. Tells(log', files', h, k)
    BY <1>2, <1>5, <2>2 DEF Tells
  <2>4. log'[k] = log[k]
    BY <1>2, <2>2 DEF Tells
  <2>5. LogMeta(log', files')[h] = log'[k].name
    BY <1>2, <2>3, ToldNext
  <2> QED
    BY <2>1, <2>2, <2>4, <2>5
<1> QED
  BY <1>3, <1>4, <1>5

LEMMA LogKept == TypeOK /\ FilesHold /\ LogHolds /\ FilesHold' /\ [Next]_vars => LogHolds'
<1> SUFFICES ASSUME TypeOK, FilesHold, LogHolds, FilesHold', [Next]_vars PROVE LogHolds'
  OBVIOUS
<1> USE IndexAssumption
<1>0. EntriesHaveFiles'
  BY DEF FilesHold
<1>1. ASSUME NEW p \in Paths, NEW h \in Hashes, AddFileInfo(p, h) PROVE LogHolds'
  <2>1. [tag |-> "info", path |-> p, is |-> h] \in Records
    BY DEF Records
  <2> QED
    BY <1>1, <2>1, LogWritten DEF AddFileInfo, Write
<1>2. ASSUME NEW p \in Paths, NEW h \in Hashes, AddFileChunk(p, h) PROVE LogHolds'
  <2> DEFINE r == [tag |-> "file", hash |-> h, path |-> p]
  <2>1. r \in Records /\ r.tag = "file" /\ r.hash = h /\ r.path = p
    BY DEF Records
  <2>2. \A g \in Hashes : chunks'[g] \subseteq chunks[g] \cup
                            {q \in Paths : r.tag = "file" /\ r.hash = g /\ r.path = q}
    BY <1>2, <2>1 DEF AddFileChunk, TypeOK
  <2>3. log' = Append(log, r) /\ meta' = meta /\ files' = files
    BY <1>2 DEF AddFileChunk, Write
  <2> HIDE DEF r
  <2> QED
    BY <2>1, <2>2, <2>3, LogWritten
<1>3. ASSUME NEW t \in Threads, CheckFile(t) PROVE LogHolds'
  <2>1. job[t].name \in Names /\ job[t].hash \in Hashes
    BY <1>3 DEF CheckFile, FilesHold, JobsHold
  <2>2. log' = log /\ chunks' = chunks
    BY <1>3 DEF CheckFile
  <2>3. \A h \in Hashes : meta'[h] # None => meta'[h] = meta[h]
    BY <1>3, <2>1 DEF CheckFile, WithoutBad, TypeOK
  <2>4. \A n \in Names : files'[n] # None => files[n] # None
    BY <1>3, <2>1 DEF CheckFile, TypeOK
  <2>5. \A k \in DOMAIN log : log[k].tag = "meta" => log[k].name \in Names
    BY RecordFields DEF TypeOK
  <2> QED
    BY <1>0, <2>2, <2>3, <2>4, <2>5, LogUnwritten
<1>4. ASSUME NEW t \in Threads, WriteTemp(t) PROVE LogHolds'
  <2>1. PICK n \in Names \ used : files' = [files EXCEPT ![n] = job[t].hash]
    BY <1>4 DEF WriteTemp
  <2>2. log' = log /\ meta' = meta /\ chunks' = chunks
    BY <1>4 DEF WriteTemp, tables
  <2>3. \A k \in DOMAIN log : log[k].tag = "meta" => log[k].name \in used
    <3> SUFFICES ASSUME NEW k \in DOMAIN log, log[k].tag = "meta" PROVE log[k].name \in used
      OBVIOUS
    <3>1. log[k].hash \in Hashes /\ log[k].name \in Names
      BY RecordFields DEF TypeOK
    <3>2. Claims(log[k].hash, log[k].name)
      BY DEF Claims
    <3> QED
      BY <3>1, <3>2 DEF FilesHold, ClaimsHold
  <2>4. \A k \in DOMAIN log : log[k].tag = "meta" /\ files'[log[k].name] # None
                                => files[log[k].name] # None
    BY <2>1, <2>3 DEF TypeOK
  <2> QED
    BY <1>0, <2>2, <2>4, LogUnwritten
<1>5. ASSUME NEW t \in Threads, RecordMeta(t) PROVE LogHolds'
  <2>1. CASE files' = [files EXCEPT ![job[t].name] = None] /\ UNCHANGED <<log, meta>>
    <3>1. chunks' = chunks
      BY <1>5 DEF RecordMeta
    <3>2. \A k \in DOMAIN log : log[k].tag = "meta" /\ files'[log[k].name] # None
                                  => files[log[k].name] # None
      <4> SUFFICES ASSUME NEW k \in DOMAIN log, log[k].tag = "meta", files'[log[k].name] # None
                   PROVE  files[log[k].name] # None
        OBVIOUS
      <4>1. log[k].name \in Names
        BY RecordFields DEF TypeOK
      <4> QED
        BY <2>1, <4>1 DEF TypeOK
    <3> QED
      BY <1>0, <2>1, <3>1, <3>2, LogUnwritten
  <2>2. CASE /\ meta' = [meta EXCEPT ![job[t].hash] = job[t].name] /\ files' = files
             /\ log' = Append(log, [tag |-> "meta", hash |-> job[t].hash, name |-> job[t].name])
    <3>1. job[t].at = "record" /\ chunks' = chunks
      BY <1>5 DEF RecordMeta
    <3> QED
      BY <2>2, <3>1, LogRecorded
  <2> QED
    BY <1>5, <2>1, <2>2 DEF RecordMeta, Write
<1>6. ASSUME NEW t \in Threads, TryPlace(t) PROVE LogHolds'
  <2>1. log' = log /\ meta' = meta /\ files' = files
    BY <1>6 DEF TryPlace
  <2>2. \A h \in Hashes : chunks'[h] \subseteq chunks[h]
    BY <1>6 DEF TryPlace, TypeOK
  <2> QED
    BY <1>0, <2>1, <2>2, LogUnwritten
<1>7. ASSUME UNCHANGED tables, files' = files PROVE LogHolds'
  BY <1>0, <1>7, LogUnwritten DEF tables
<1>8. ASSUME NEW n \in Names, Damage(n) PROVE LogHolds'
  <2>1. UNCHANGED tables /\ files' = [files EXCEPT ![n] = Bad] /\ files[n] # None
    BY <1>8 DEF Damage
  <2>2. \A k \in DOMAIN log : log[k].tag = "meta" /\ files'[log[k].name] # None
                                => files[log[k].name] # None
    <3> SUFFICES ASSUME NEW k \in DOMAIN log, log[k].tag = "meta", files'[log[k].name] # None
                 PROVE  files[log[k].name] # None
      OBVIOUS
    <3>1. log[k].name \in Names
      BY RecordFields DEF TypeOK
    <3> QED
      BY <2>1, <3>1 DEF TypeOK
  <2> QED
    BY <1>0, <2>1, <2>2, LogUnwritten DEF tables
<1>9. CASE Crash
  <2>1. PICK l : Restart(l) /\ (l = log \/ l \in Torn)
    BY <1>9 DEF Crash
  <2>2. l \in Seq(Records) /\ \A k \in DOMAIN l : k < Len(l) => k \in DOMAIN log /\ l[k] = log[k]
    <3>1. CASE l = log
      BY <3>1 DEF TypeOK
    <3>2. CASE l \in Torn
      <4>1. PICK w \in {"tag", "body"} : l = Append(log, [tag |-> "torn", within |-> w])
        BY <3>2 DEF Torn
      <4>2. [tag |-> "torn", within |-> w] \in Records
        BY DEF Records
      <4> QED
        BY <4>1, <4>2 DEF TypeOK
    <3> QED
      BY <2>1, <3>1, <3>2
  <2>3. CASE ~Corrupt(l)
    <3>1. log' = l /\ files' = files /\ meta' = LogMeta(l, files) /\ chunks' = LogChunks(l)
      BY <2>1, <2>2, <2>3, SoundReads DEF Restart, Load
    <3>2. TagsTorn'
      <4> SUFFICES ASSUME NEW k \in DOMAIN l, l[k].tag = "torn" PROVE l[k].within = "tag"
        BY <3>1 DEF TagsTorn
      <4>1. l[k].within # "body"
        BY <2>3 DEF Corrupt
      <4>2. l[k] \in Records
        BY <2>2
      <4> QED
        BY <4>1, <4>2 DEF Records
    <3> QED
      BY <3>1, <3>2 DEF LogHolds, ReadFrom
  <2>4. CASE Corrupt(l)
    <3>1. /\ log' = <<>> /\ meta' = [h \in Hashes |-> None]
          /\ chunks' = [h \in Hashes |-> {}]
      BY <2>1, <2>4 DEF Restart, Load
    <3> QED
      BY <3>1 DEF LogHolds, ReadFrom, TagsTorn
  <2> QED
    BY <2>3, <2>4
<1>10. CASE UNCHANGED vars
  BY <1>7, <1>10 DEF vars
<1>11. CASE \E t \in Threads : CopyPlaces(t)
  BY <1>7, <1>11 DEF CopyPlaces
<1>12. CASE \E t \in Threads, op \in {"add", "read"}, h \in Hashes : Lookup(t, op, h)
  BY <1>7, <1>12 DEF Lookup
<1>13. CASE \E p \in Paths, h \in Hashes \cup {None} : Edit(p, h)
  BY <1>7, <1>13 DEF Edit
<1> QED
  BY <1>1, <1>2, <1>3, <1>4, <1>5, <1>6, <1>8, <1>9, <1>10, <1>11, <1>12, <1>13 DEF Next

-----------------------------------------------------------------------------
(* The theorems. *)

LEMMA InitHolds == Init => IInv
<1> SUFFICES ASSUME Init PROVE IInv
  OBVIOUS
<1> USE IndexAssumption
<1>1. <<>> \in Seq(Records) /\ DOMAIN <<>> = {} /\ Len(<<>>) = 0
  OBVIOUS
<1>2. \A t \in Threads : job[t] = Idle /\ job[t].at = "idle"
  BY DEF Init, Idle
<1>3. TypeOK
  <2>1. Idle \in Jobs
    BY DEF Idle, Jobs
  <2>2. info \in [Paths -> Hashes \cup {None}] /\ chunks \in [Hashes -> SUBSET Paths]
    BY <1>1, LogTypes DEF Init
  <2> QED
    BY <1>1, <1>2, <2>1, <2>2 DEF Init, TypeOK
<1>4. \A h \in Hashes, n \in Names : ~Claims(h, n)
  BY <1>1, <1>2 DEF Init, Claims
<1>5. FilesHold
  BY <1>2, <1>4 DEF Init, FilesHold, JobsHold, ClaimsHold, TempsHold, EntriesHaveFiles
<1>6. LogHolds
  BY <1>1 DEF Init, LogHolds, ReadFrom, TagsTorn, LogChunks
<1> QED
  BY <1>3, <1>5, <1>6 DEF IInv

LEMMA Kept == IInv /\ [Next]_vars => IInv'
<1> SUFFICES ASSUME IInv, [Next]_vars PROVE IInv'
  OBVIOUS
<1>1. TypeOK' /\ JobsHold'
  BY TypesKept DEF IInv, FilesHold
<1>2. FilesHold'
  BY <1>1, FilesKept DEF IInv
<1>3. LogHolds'
  BY <1>2, LogKept DEF IInv
<1> QED
  BY <1>1, <1>2, <1>3 DEF IInv

\* The invariant holds of the index however many threads use it.
THEOREM IndexHolds == Spec => []IInv
BY InitHolds, Kept, PTL DEF Spec

\* No two threads leave an entry whose file is gone or holds another chunk.
THEOREM FilesOfEntries == Spec => []EntriesHaveFiles
<1>1. IInv => EntriesHaveFiles
  BY DEF IInv, FilesHold
<1> QED
  BY <1>1, IndexHolds, PTL

\* The log has what the tables know, and the next start reads it, unless records
\* were written after a tag that a crash had cut short.
THEOREM DurableTables == Spec => []ChunksAreDurable
<1>1. IInv => ChunksAreDurable
  <2> SUFFICES ASSUME IInv, ~WritesAfterTornTag
               PROVE  ~Corrupt(log) /\ ReadFrom(Sound(log))
    BY DEF ChunksAreDurable, IInv, LogHolds
  <2>1. log \in Seq(Records)
    BY DEF IInv, TypeOK
  <2>2. ~Corrupt(log)
    BY DEF IInv, LogHolds, TagsTorn, WritesAfterTornTag, Corrupt
  <2>3. LogMeta(Sound(log), files) = LogMeta(log, files) /\ LogChunks(Sound(log)) = LogChunks(log)
    BY <2>1, <2>2, SoundReads
  <2> QED
    BY <2>2, <2>3 DEF IInv, LogHolds, ReadFrom
<1> QED
  BY <1>1, IndexHolds, PTL

\* A good entry is dropped by nothing but the rebuilding of a corrupt index.
THEOREM GoodEntriesKept == Spec => GoodEntriesStay
<1> USE IndexAssumption
<1>1. IInv /\ [Next]_vars => [\A h \in Hashes :
        meta[h] # None /\ files[meta[h]] = h /\ log' # <<>> => meta'[h] = meta[h]]_vars
  <2> SUFFICES ASSUME IInv, [Next]_vars, NEW h \in Hashes,
                      meta[h] # None, files[meta[h]] = h, log' # <<>>
               PROVE  meta'[h] = meta[h]
    OBVIOUS
  <2>0. TypeOK /\ FilesHold /\ LogHolds
    BY DEF IInv
  <2>1. ASSUME NEW t \in Threads, CheckFile(t) PROVE meta'[h] = meta[h]
    <3>1. job[t].hash \in Hashes
      BY <2>0, <2>1 DEF CheckFile, FilesHold, JobsHold
    <3>2. CASE meta' = meta
      BY <3>2
    <3>3. CASE files[job[t].name] # job[t].hash /\ meta' = WithoutBad(t)
      BY <2>0, <3>1, <3>3 DEF WithoutBad, TypeOK
    <3> QED
      BY <2>1, <3>2, <3>3 DEF CheckFile
  <2>2. ASSUME NEW t \in Threads, RecordMeta(t) PROVE meta'[h] = meta[h]
    BY <2>0, <2>2 DEF RecordMeta, TypeOK
  <2>3. CASE Crash
    <3>1. PICK l \in {log} \cup {x \in Torn : Len(x) <= MaxLog} : Restart(l)
      BY <2>3 DEF Crash
    <3>2. ~Corrupt(l) /\ log' = l /\ meta' = LogMeta(Sound(l), files)
      BY <3>1 DEF Restart, Load
    <3>3. LogMeta(Sound(l), files) = LogMeta(log, files)
      <4>1. CASE l = log
        BY <2>0, <3>2, <4>1, SoundReads DEF TypeOK
      <4>2. CASE l \in Torn
        <5>1. PICK w \in {"tag", "body"} : l = Append(log, [tag |-> "torn", within |-> w])
          BY <4>2 DEF Torn
        <5> DEFINE r == [tag |-> "torn", within |-> w]
        <5>2. r \in Records /\ r.tag = "torn"
          BY DEF Records
        <5>3. log \in Seq(Records) /\ l = Append(log, r)
          BY <2>0, <5>1 DEF TypeOK
        <5> HIDE DEF r
        <5>4. (\A k \in DOMAIN log : log[k].tag # "torn") /\ Sound(l) = log
          BY <3>2, <5>2, <5>3, TornEnd
        <5> QED
          BY <5>4
      <4> QED
        BY <3>1, <4>1, <4>2
    <3> QED
      BY <2>0, <3>2, <3>3 DEF LogHolds, ReadFrom
  <2>4. CASE meta' = meta
    BY <2>4
  <2>5. CASE UNCHANGED vars
    BY <2>5 DEF vars, tables
  <2> QED
    BY <2>1, <2>2, <2>3, <2>4, <2>5 DEF Next, AddFileInfo, AddFileChunk, WriteTemp, CopyPlaces,
       TryPlace, Lookup, Edit, Damage, tables
<1> QED
  BY <1>1, IndexHolds, PTL DEF Spec, GoodEntriesStay

-----------------------------------------------------------------------------
(* The scanner that fills the index.                                       *)

Worlds == [scan : [Scan!Nodes -> Scan!Scans], items : Seq(Scan!Items), queue : Seq(Nat),
           posted : Seq(Scan!Events),
           chat : [at : {"none", "scanning", "sent", "going", "gone"}, cancelled : BOOLEAN,
                   next : 0..Len(Dropped)],
           sent : Seq(Seq(Scan!Infos)),
           index : [chunks : [Scan!Files -> SUBSET Nat], info : [Scan!Nodes -> Scan!Infos]],
           failed : SUBSET {"running", "item", "done", "freed", "flush", "status"}]
Works == [item : Nat, chunk : Nat, data : Scan!Infos, err : {"", "read"}]

\* What is said of a file's contents is so, in the index x in which
\* chunks of the keys of the files R were refused.
InfoTrue(f, is, x, R) ==
  /\ is = "hollow" => f \in R
  /\ is = "whole" => x.chunks[f] = 1..Chunks[f]

\* The scanner's thread has item i before it.
Ahead(w, j, i) == j.item = i \/ \E k \in DOMAIN w.queue : w.queue[k] = i
Owned(w, i) == \E f \in Scan!Files : w.scan[f].item = i

\* What was dropped and is not started yet.
Waiting(w) ==
  {Dropped[k] : k \in {k \in DOMAIN Dropped : w.chat.next # 0 /\ w.chat.next <= k}}

\* A Scan has its timer to start it, or an item while it runs, and that item is
\* its own: only at its end is the item done with.
ScansHeld(w) ==
  /\ \A n \in Scan!Nodes : w.scan[n].timer => w.scan[n].st \in {"Fresh", "Error"}
  /\ \A n \in Scan!Nodes : w.scan[n].item # 0 =>
       /\ n \in Scan!Files /\ w.scan[n].st = "Running" /\ w.scan[n].item \in DOMAIN w.items
       /\ LET item == w.items[w.scan[n].item] IN item.of = n /\ item.live /\ ~item.cancel
  /\ \A d \in Scan!Dirs : w.scan[d].st \in {"Absent", "Fresh", "Error"} =>
       \A n \in Scan!Part(d) : w.scan[n].st = "Absent"

\* What Scans, items and the index say is so.
TruthHeld(w, R) ==
  /\ \A n \in Scan!Nodes : w.scan[n].st = "Success" => w.scan[n].info # "none"
  /\ \A f \in Scan!Files :
       /\ w.scan[f].st = "Success" => InfoTrue(f, w.scan[f].info, w.index, R)
       /\ InfoTrue(f, w.index.info[f], w.index, R) /\ w.index.chunks[f] \subseteq 1..Chunks[f]
  /\ \A i \in DOMAIN w.items : w.items[i].done /\ w.items[i].err = "" =>
       w.items[i].data # "none" /\ InfoTrue(w.items[i].of, w.items[i].data, w.index, R)
  /\ \A d \in Scan!Dirs : w.scan[d].st = "Success" =>
       /\ \A n \in Scan!Part(d) : w.scan[n].st = "Success"
       /\ w.scan[d].got = Scan!GotOf(w, d) /\ w.scan[d].tot = Scan!TotOf(w, d)
       /\ w.scan[d].nfiles = Scan!FilesOf(w, d)

\* Items: who will free them, and which the thread has still before it.
ItemsHeld(w, j) ==
  /\ \A i \in DOMAIN w.items :
       /\ w.items[i].live => \/ Owned(w, i)
                             \/ w.items[i].cancel /\ (Ahead(w, j, i) \/ w.items[i].err = "open")
       /\ Owned(w, i) /\ ~w.items[i].done => Ahead(w, j, i)
       /\ Ahead(w, j, i) => w.items[i].live /\ ~w.items[i].done
  /\ \A k \in DOMAIN w.queue : w.queue[k] \in DOMAIN w.items /\ w.queue[k] # j.item
  /\ \A k, l \in DOMAIN w.queue : k # l => w.queue[k] # w.queue[l]

\* How far the thread is with its item.
WorkHeld(w, j, R) ==
  j.item # 0 =>
    LET f == w.items[j.item].of
    IN  /\ j.item \in DOMAIN w.items /\ j.chunk \in 1..(Chunks[f] + 1)
        /\ j.data = "none" => j.err = "" /\ 1..(j.chunk - 1) \subseteq w.index.chunks[f]
        /\ j.data = "whole" => w.index.chunks[f] = 1..Chunks[f]
        /\ j.data = "hollow" /\ j.err = "" => f \in R \/ w.items[j.item].cancel

\* Nothing is sent before all is scanned, and Scans wait to be started.
SentHeld(w) ==
  /\ w.chat.at = "none" => \A n \in Scan!Nodes : w.scan[n].st = "Absent"
  /\ w.chat.at \in {"none", "scanning"} => w.sent = <<>>
  /\ w.chat.next # 0 => w.chat.at = "scanning"
  /\ \A n \in Waiting(w) : w.scan[n].st = "Fresh" /\ ~w.scan[n].timer
  /\ Len(w.sent) <= 1
  /\ \A m \in DOMAIN w.sent, k \in DOMAIN Dropped : w.sent[m][k] # "none"

ScannerHeld(w, j, R) ==
  /\ w \in Worlds /\ j \in Works /\ R \subseteq Scan!Files /\ w.failed \subseteq {"flush"}
  /\ ScansHeld(w) /\ TruthHeld(w, R) /\ ItemsHeld(w, j) /\ WorkHeld(w, j, R) /\ SentHeld(w)

(***************************************************************************)
(* What holds of 0, and of each number up to n if of the one before, holds *)
(* of all numbers up to n.                                                 *)
(***************************************************************************)
LEMMA StepByStep ==
  ASSUME NEW n \in Nat, NEW P, 0 \in P, \A k \in 1..n : k - 1 \in P => k \in P
  PROVE  0..n \subseteq P
<1> SUFFICES ASSUME ~(0..n \subseteq P) PROVE FALSE
  OBVIOUS
<1> DEFINE Rest == 0..n \ P
<1>1. Rest \in SUBSET Nat /\ Rest # {}
  OBVIOUS
<1>2. PICK m \in Rest : \A l \in Rest : m <= l
  BY <1>1, FirstExists
<1>3. m \in 1..n /\ m - 1 \in 0..n /\ m - 1 \notin Rest
  BY <1>2
<1> QED
  BY <1>2, <1>3

\* The sums of the first numbers of s.
Sums(f, s, n) ==
  f = [k \in 0..n |-> IF k = 0 THEN 0 ELSE f[k - 1] + s[k]]

(***************************************************************************)
(* The total of natural numbers is one.                                    *)
(***************************************************************************)
LEMMA TotalTyped == ASSUME NEW s \in Seq(Nat) PROVE Scan!Total(s) \in Nat
<1> DEFINE P == {m \in 0..Len(s) : \E f \in [0..m -> Nat] : Sums(f, s, m)}
<1>0. Len(s) \in Nat /\ \A k \in 1..Len(s) : s[k] \in Nat
  OBVIOUS
<1>1. 0 \in P
  <2>1. [k \in 0..0 |-> 0] \in [0..0 -> Nat] /\ Sums([k \in 0..0 |-> 0], s, 0)
    BY DEF Sums
  <2> QED
    BY <2>1, <1>0
<1>2. ASSUME NEW m \in 1..Len(s), m - 1 \in P PROVE m \in P
  <2>1. PICK f \in [0..(m - 1) -> Nat] : Sums(f, s, m - 1)
    BY <1>2
  <2> DEFINE g == [k \in 0..m |-> IF k = m THEN f[m - 1] + s[m] ELSE f[k]]
  <2>2. \A k \in 0..(m - 1) : f[k] = IF k = 0 THEN 0 ELSE f[k - 1] + s[k]
    BY <2>1 DEF Sums
  <2>3. g \in [0..m -> Nat]
    BY <1>0
  <2>4. \A k \in 0..m : g[k] = IF k = 0 THEN 0 ELSE g[k - 1] + s[k]
    BY <2>2
  <2>5. Sums(g, s, m)
    BY <2>3, <2>4 DEF Sums
  <2>6. m \in 0..Len(s)
    BY <1>0
  <2> QED
    BY <2>3, <2>5, <2>6
<1> HIDE DEF P
<1>3. 0..Len(s) \subseteq P
  BY <1>0, <1>1, <1>2, StepByStep
<1>4. \E f : Sums(f, s, Len(s))
  BY <1>0, <1>3 DEF P
<1> DEFINE sum == CHOOSE f : Sums(f, s, Len(s))
<1>5. Sums(sum, s, Len(s))
  BY <1>4
<1>6. Scan!Total(s) = sum[Len(s)]
  BY DEF Scan!Total, Sums
<1> HIDE DEF sum
<1> DEFINE Q == {k \in 0..Len(s) : sum[k] \in Nat}
<1>7. 0 \in Q
  BY <1>0, <1>5 DEF Sums
<1>8. ASSUME NEW k \in 1..Len(s), k - 1 \in Q PROVE k \in Q
  <2>1. sum[k] = sum[k - 1] + s[k]
    BY <1>0, <1>5 DEF Sums
  <2> QED
    BY <2>1, <1>0, <1>8
<1> HIDE DEF Q
<1>9. 0..Len(s) \subseteq Q
  BY <1>0, <1>7, <1>8, StepByStep
<1> QED
  BY <1>0, <1>6, <1>9 DEF Q

\* Directories and their entries are a forest, with what was dropped on top.
LEMMA Forest ==
  /\ Scan!Nodes = Scan!Files \cup Scan!Dirs /\ Scan!Files \cap Scan!Dirs = {}
  /\ \A d \in Scan!Dirs : /\ Scan!Part(d) \subseteq Scan!Nodes \ {d}
                          /\ Subs[d] \in Seq(Scan!Nodes)
                          /\ Scan!Part(d) = {Subs[d][k] : k \in DOMAIN Subs[d]}
  /\ \A d, e \in Scan!Dirs : d # e => Scan!Part(d) \cap Scan!Part(e) = {}
  /\ \A n \in Scan!Nodes \ Scan!Dirs : Scan!Part(n) = {}
  /\ Dropped \in Seq(Scan!Nodes) /\ Dropped # <<>>
  /\ \A k \in DOMAIN Dropped : Dropped[k] \in Scan!Nodes /\ \A d \in Scan!Dirs : Dropped[k] \notin Scan!Part(d)
  /\ \A k, l \in DOMAIN Dropped : k # l => Dropped[k] # Dropped[l]
  /\ \A f \in Scan!Files : Chunks[f] \in Nat
  /\ Known \subseteq Scan!Files /\ MaxFaults \in Nat
<1> USE ScannerAssumption DEF Scan!ScannerAssumption, Scan!Nodes
<1>1. \A d \in Scan!Dirs : /\ Subs[d] \in Seq(Scan!Nodes \ {d})
                           /\ Scan!Part(d) = {Subs[d][k] : k \in DOMAIN Subs[d]}
                           /\ Scan!Part(d) \cap {Dropped[k] : k \in DOMAIN Dropped} = {}
                           /\ \A e \in Scan!Dirs \ {d} : Scan!Part(d) \cap Scan!Part(e) = {}
  BY DEF Scan!Part
<1>2. ASSUME NEW d \in Scan!Dirs
      PROVE  Scan!Part(d) \subseteq Scan!Nodes \ {d} /\ Subs[d] \in Seq(Scan!Nodes)
  <2>1. PICK s : s = Subs[d]
    OBVIOUS
  <2>2. s \in Seq(Scan!Nodes \ {d})
    BY <1>1, <2>1
  <2>3. Scan!Part(d) = {s[k] : k \in DOMAIN s}
    BY <1>1, <2>1
  <2> HIDE DEF Scan!Nodes
  <2>4. s \in Seq(Scan!Nodes) /\ \A k \in DOMAIN s : s[k] \in Scan!Nodes \ {d}
    BY <2>2
  <2> QED
    BY <2>1, <2>3, <2>4
<1>3. \A k, l \in DOMAIN Dropped : k # l => Dropped[k] # Dropped[l]
  BY DEF Scan!IsInjective
<1>4. Dropped \in Seq(Scan!Nodes) /\ Dropped # <<>> /\ \A k \in DOMAIN Dropped : Dropped[k] \in Scan!Nodes
  OBVIOUS
<1>5. \A n \in Scan!Nodes \ Scan!Dirs : Scan!Part(n) = {}
  BY DEF Scan!Part
<1>6. /\ Scan!Files \cap Scan!Dirs = {} /\ Known \subseteq Scan!Files /\ MaxFaults \in Nat
      /\ \A f \in Scan!Files : Chunks[f] \in Nat
  OBVIOUS
<1>7. \A k \in DOMAIN Dropped : \A d \in Scan!Dirs : Dropped[k] \notin Scan!Part(d)
  <2> TAKE k \in DOMAIN Dropped
  <2>1. Dropped[k] \in {Dropped[l] : l \in DOMAIN Dropped}
    OBVIOUS
  <2> QED
    BY <1>1, <2>1
<1>8. \A d, e \in Scan!Dirs : d # e => Scan!Part(d) \cap Scan!Part(e) = {}
  BY <1>1
<1>9. Scan!Nodes = Scan!Files \cup Scan!Dirs
  OBVIOUS
<1> HIDE DEF Scan!Nodes, Scan!ScannerAssumption
<1> QED
  BY <1>1, <1>2, <1>3, <1>4, <1>5, <1>6, <1>7, <1>8, <1>9

-----------------------------------------------------------------------------
(* What the window's handlers are made of.                                 *)

\* Two worlds that differ in their events and in what the ChatScanner does.
SameScans(v, w) ==
  /\ v.scan = w.scan /\ v.items = w.items /\ v.queue = w.queue
  /\ v.index = w.index /\ v.failed = w.failed

(***************************************************************************)
(* Only what is sent and still to be started depends on that.              *)
(***************************************************************************)
LEMMA ScansKept ==
  ASSUME NEW w, NEW v \in Worlds, NEW j, NEW R, ScannerHeld(w, j, R), SameScans(v, w), SentHeld(v)
  PROVE  ScannerHeld(v, j, R)
<1>1. ScansHeld(w) => ScansHeld(v)
  BY DEF ScansHeld, SameScans
<1>2. TruthHeld(w, R) => TruthHeld(v, R)
  BY DEF TruthHeld, SameScans, Scan!GotOf, Scan!TotOf, Scan!FilesOf
<1>3. ItemsHeld(w, j) => ItemsHeld(v, j)
  BY DEF ItemsHeld, SameScans, Owned, Ahead
<1>4. WorkHeld(w, j, R) => WorkHeld(v, j, R)
  BY DEF WorkHeld, SameScans
<1> QED
  BY <1>1, <1>2, <1>3, <1>4 DEF ScannerHeld, SameScans

\* v is w when somebody has been told something, and is sound.
Told(v, w, j, R) == ScannerHeld(v, j, R) /\ SameScans(v, w) /\ v.chat.next = w.chat.next

(***************************************************************************)
(* An event more, or the ChatScanner's next state, changes none of it.     *)
(***************************************************************************)
LEMMA PostHeld ==
  ASSUME NEW w, NEW j, NEW R, ScannerHeld(w, j, R), NEW e \in Scan!Events
  PROVE  Told(Scan!Post(w, e), w, j, R)
<1>1. PICK v : v = Scan!Post(w, e)
  OBVIOUS
<1>2. w \in Worlds /\ SentHeld(w)
  BY DEF ScannerHeld
<1>3. v = [w EXCEPT !.posted = Append(w.posted, e)] /\ Append(w.posted, e) \in Seq(Scan!Events)
  BY <1>1, <1>2 DEF Scan!Post, Worlds
<1>4. v \in Worlds /\ SameScans(v, w) /\ v.chat = w.chat /\ v.sent = w.sent
  BY <1>2, <1>3 DEF Worlds, SameScans
<1>5. SentHeld(v)
  BY <1>2, <1>4 DEF SentHeld, SameScans, Waiting
<1> QED
  BY <1>1, <1>4, <1>5, ScansKept DEF Told

LEMMA DeleteLaterHeld ==
  ASSUME NEW w, NEW j, NEW R, ScannerHeld(w, j, R)
  PROVE  Told(Scan!DeleteLater(w), w, j, R)
<1>1. [what |-> "delete", to |-> "chat"] \in Scan!Events
  BY DEF Scan!Events
<1>2. Told(Scan!Post(w, [what |-> "delete", to |-> "chat"]), w, j, R)
  BY <1>1, PostHeld
<1> QED
  BY <1>2 DEF Scan!DeleteLater, Told, SameScans

(***************************************************************************)
(* When the last of the dropped is done they are sent, with their contents.*)
(***************************************************************************)
LEMMA ScanProgressHeld ==
  ASSUME NEW w, NEW j, NEW R, ScannerHeld(w, j, R)
  PROVE  Told(Scan!ScanProgress(w), w, j, R)
<1> DEFINE what == [k \in DOMAIN Dropped |-> w.scan[Dropped[k]].info]
<1>1. CASE w.chat.at = "scanning" /\ \A k \in DOMAIN Dropped : Scan!IsDone(w, Dropped[k])
  <2>1. PICK v : v = [w EXCEPT !.sent = Append(@, what), !.chat.at = "sent"]
    OBVIOUS
  <2>2. w \in Worlds /\ TruthHeld(w, R) /\ SentHeld(w)
    BY DEF ScannerHeld
  <2>3. \A k \in DOMAIN Dropped : what[k] \in Scan!Infos /\ what[k] # "none"
    BY <1>1, <2>2, Forest DEF Scan!IsDone, TruthHeld, Worlds, Scan!Scans
  <2>4. what \in Seq(Scan!Infos) /\ DOMAIN what = DOMAIN Dropped
    <3>1. PICK n \in Nat : DOMAIN Dropped = 1..n
      BY Forest
    <3>2. what \in [1..n -> Scan!Infos]
      BY <2>3, <3>1
    <3> QED
      BY <3>1, <3>2
  <2> HIDE DEF what
  <2>5. w.sent = <<>> /\ w.chat.next \in Nat
    BY <1>1, <2>2 DEF SentHeld, Worlds
  <2>6. Append(w.sent, what) = <<what>> /\ <<what>> \in Seq(Seq(Scan!Infos))
    BY <2>4, <2>5
  <2>7. v = [w EXCEPT !.sent = <<what>>, !.chat = [w.chat EXCEPT !.at = "sent"]]
    BY <2>1, <2>6
  <2>8. v \in Worlds /\ SameScans(v, w) /\ v.sent = <<what>> /\ v.chat = [w.chat EXCEPT !.at = "sent"]
    BY <2>2, <2>6, <2>7 DEF Worlds, SameScans
  <2>9. w.chat.next = 0
    <3> SUFFICES ASSUME w.chat.next # 0 PROVE FALSE
      OBVIOUS
    <3>1. w.chat.next \in DOMAIN Dropped /\ Dropped[w.chat.next] \in Waiting(w)
      BY <2>2, Forest DEF Waiting, Worlds
    <3> QED
      BY <3>1, <1>1, <2>2 DEF SentHeld, Scan!IsDone
  <2>10. v.chat.at = "sent" /\ v.chat.next = 0 /\ Waiting(v) = {}
    BY <2>2, <2>8, <2>9 DEF Waiting, Worlds
  <2>11. Len(v.sent) <= 1 /\ \A m \in DOMAIN v.sent, k \in DOMAIN Dropped : v.sent[m][k] # "none"
    BY <2>3, <2>8
  <2>12. SentHeld(v)
    BY <2>10, <2>11 DEF SentHeld
  <2>13. ScannerHeld(v, j, R) /\ v.chat.next = w.chat.next
    BY <2>8, <2>9, <2>10, <2>12, ScansKept
  <2>14. Scan!ScanProgress(w) = Scan!DeleteLater(v)
    BY <1>1, <2>1 DEF Scan!ScanProgress, what
  <2>15. Told(Scan!DeleteLater(v), v, j, R)
    BY <2>13, DeleteLaterHeld
  <2> QED
    BY <2>8, <2>13, <2>14, <2>15 DEF Told, SameScans
<1>2. CASE ~(w.chat.at = "scanning" /\ \A k \in DOMAIN Dropped : Scan!IsDone(w, Dropped[k]))
  BY <1>2 DEF Scan!ScanProgress, Told, SameScans
<1> QED
  BY <1>1, <1>2

LEMMA StatusChangedHeld ==
  ASSUME NEW w, NEW j, NEW R, ScannerHeld(w, j, R), NEW n
  PROVE  Told(Scan!StatusChanged(w, n), w, j, R)
<1> DEFINE above == {d \in Scan!Dirs : n \in Scan!Part(d) /\ w.scan[d].st # "Absent"}
           e == [what |-> "dir", to |-> CHOOSE d \in above : TRUE]
<1>1. CASE above # {}
  <2>1. e \in Scan!Events
    BY <1>1 DEF Scan!Events
  <2>2. Scan!StatusChanged(w, n) = Scan!Post(w, e)
    BY <1>1 DEF Scan!StatusChanged
  <2> QED
    BY <2>1, <2>2, PostHeld
<1>2. CASE above = {}
  <2>1. Scan!StatusChanged(w, n) = Scan!ScanProgress(w)
    BY <1>2 DEF Scan!StatusChanged
  <2> QED
    BY <2>1, ScanProgressHeld
<1> QED
  BY <1>1, <1>2

\* A status that was not final becomes st, and who is to know is told.
LEMMA StatusHeld ==
  ASSUME NEW w, NEW j, NEW R, NEW n, NEW old, NEW st, w.scan[n].st # "Success",
         NEW v, v = [w EXCEPT !.scan[n].st = st], ScannerHeld(v, j, R)
  PROVE  Told(Scan!Status(w, n, old, st), v, j, R)
<1>1. Told(Scan!StatusChanged(v, n), v, j, R)
  BY StatusChangedHeld
<1>2. Told(v, v, j, R)
  BY DEF Told, SameScans
<1> QED
  BY <1>1, <1>2 DEF Scan!Status

-----------------------------------------------------------------------------
(* One Scan changes.                                                       *)

\* v is w with s as the Scan of n.
Rescanned(v, w, n, s) ==
  /\ v.scan = [w.scan EXCEPT ![n] = s] /\ v.items = w.items /\ v.queue = w.queue
  /\ v.posted = w.posted /\ v.chat = w.chat /\ v.sent = w.sent
  /\ v.index = w.index /\ v.failed = w.failed

\* s can follow on the Scan of n: what is said at its end is so.
Follows(w, n, s, R) ==
  /\ s \in Scan!Scans /\ w.scan[n].st \notin {"Success", "Absent"} /\ s.st # "Absent"
  /\ s.item = w.scan[n].item /\ (s.item # 0 => s.st = "Running")
  /\ s.timer => s.st \in {"Fresh", "Error"}
  /\ n \in Scan!Dirs /\ s.st \in {"Fresh", "Error"} => \A m \in Scan!Part(n) : w.scan[m].st = "Absent"
  /\ s.st = "Success" =>
       /\ s.info # "none" /\ (n \in Scan!Files => InfoTrue(n, s.info, w.index, R))
       /\ n \in Scan!Dirs => /\ \A m \in Scan!Part(n) : w.scan[m].st = "Success"
                             /\ s.got = Scan!GotOf(w, n) /\ s.tot = Scan!TotOf(w, n)
                             /\ s.nfiles = Scan!FilesOf(w, n)

(***************************************************************************)
(* The sums of a directory are of its entries alone.                       *)
(***************************************************************************)
LEMMA SumsKept ==
  ASSUME NEW w, NEW v, NEW d \in Scan!Dirs, \A m \in Scan!Part(d) : v.scan[m] = w.scan[m]
  PROVE  /\ Scan!GotOf(v, d) = Scan!GotOf(w, d) /\ Scan!TotOf(v, d) = Scan!TotOf(w, d)
         /\ Scan!FilesOf(v, d) = Scan!FilesOf(w, d)
<1>0. Scan!Part(d) = {Subs[d][k] : k \in DOMAIN Subs[d]}
  BY Forest
<1>1. \A k \in DOMAIN Subs[d] : v.scan[Subs[d][k]] = w.scan[Subs[d][k]]
  BY <1>0
<1>2. /\ [k \in DOMAIN Subs[d] |-> v.scan[Subs[d][k]].got] = [k \in DOMAIN Subs[d] |-> w.scan[Subs[d][k]].got]
      /\ [k \in DOMAIN Subs[d] |-> v.scan[Subs[d][k]].tot] = [k \in DOMAIN Subs[d] |-> w.scan[Subs[d][k]].tot]
      /\ [k \in DOMAIN Subs[d] |-> v.scan[Subs[d][k]].nfiles]
           = [k \in DOMAIN Subs[d] |-> w.scan[Subs[d][k]].nfiles]
  BY <1>1
<1> QED
  BY <1>2 DEF Scan!GotOf, Scan!TotOf, Scan!FilesOf

LEMMA SumsTyped ==
  ASSUME NEW w \in Worlds, NEW d \in Scan!Dirs
  PROVE  Scan!GotOf(w, d) \in Nat /\ Scan!TotOf(w, d) \in Nat /\ Scan!FilesOf(w, d) \in Nat
<1>1. PICK n \in Nat : DOMAIN Subs[d] = 1..n
  BY Forest
<1>0. Scan!Part(d) = {Subs[d][k] : k \in DOMAIN Subs[d]} /\ Scan!Part(d) \subseteq Scan!Nodes
  BY Forest
<1>2. \A k \in 1..n : Subs[d][k] \in Scan!Nodes /\ w.scan[Subs[d][k]] \in Scan!Scans
  BY <1>0, <1>1 DEF Worlds
<1>3. /\ [k \in 1..n |-> w.scan[Subs[d][k]].got] \in [1..n -> Nat]
      /\ [k \in 1..n |-> w.scan[Subs[d][k]].tot] \in [1..n -> Nat]
      /\ [k \in 1..n |-> w.scan[Subs[d][k]].nfiles] \in [1..n -> Nat]
  BY <1>2 DEF Scan!Scans
<1>4. \A s \in [1..n -> Nat] : s \in Seq(Nat)
  OBVIOUS
<1>5. /\ Scan!Total([k \in 1..n |-> w.scan[Subs[d][k]].got]) \in Nat
      /\ Scan!Total([k \in 1..n |-> w.scan[Subs[d][k]].tot]) \in Nat
      /\ Scan!Total([k \in 1..n |-> w.scan[Subs[d][k]].nfiles]) \in Nat
  BY <1>3, <1>4, TotalTyped
<1> QED
  BY <1>1, <1>5 DEF Scan!GotOf, Scan!TotOf, Scan!FilesOf

(***************************************************************************)
(* A Scan that follows on another leaves all as it should be.              *)
(***************************************************************************)
LEMMA RescannedHeld ==
  ASSUME NEW w, NEW v \in Worlds, NEW j, NEW R, ScannerHeld(w, j, R),
         NEW n \in Scan!Nodes, n \notin Waiting(w), NEW s, Rescanned(v, w, n, s), Follows(w, n, s, R)
  PROVE  ScannerHeld(v, j, R)
<1>0. w \in Worlds /\ ScansHeld(w) /\ TruthHeld(w, R) /\ ItemsHeld(w, j) /\ WorkHeld(w, j, R) /\ SentHeld(w)
  BY DEF ScannerHeld
<1>1. /\ v.scan[n] = s /\ \A m \in Scan!Nodes : m # n => v.scan[m] = w.scan[m]
      /\ v.items = w.items /\ v.queue = w.queue /\ v.chat = w.chat /\ v.sent = w.sent
      /\ v.index = w.index /\ v.failed = w.failed
      /\ w.scan[n].st \notin {"Success", "Absent"}
  BY <1>0 DEF Rescanned, Follows, Worlds
<1>2. \A m \in Scan!Nodes : v.scan[m].item = w.scan[m].item
  BY <1>1 DEF Follows
<1>3. ScansHeld(v)
  <2>1. \A m \in Scan!Nodes : v.scan[m].timer => v.scan[m].st \in {"Fresh", "Error"}
    BY <1>0, <1>1 DEF ScansHeld, Follows
  <2>2. ASSUME NEW m \in Scan!Nodes, v.scan[m].item # 0
        PROVE  /\ m \in Scan!Files /\ v.scan[m].st = "Running" /\ v.scan[m].item \in DOMAIN v.items
               /\ LET item == v.items[v.scan[m].item] IN item.of = m /\ item.live /\ ~item.cancel
    BY <2>2, <1>0, <1>1, <1>2 DEF ScansHeld, Follows
  <2>3. ASSUME NEW d \in Scan!Dirs, v.scan[d].st \in {"Absent", "Fresh", "Error"}, NEW m \in Scan!Part(d)
        PROVE  v.scan[m].st = "Absent"
    <3>1. m \in Scan!Nodes /\ m # d /\ d \in Scan!Nodes
      BY Forest
    <3>2. w.scan[m].st = "Absent"
      BY <2>3, <3>1, <1>0, <1>1 DEF ScansHeld, Follows
    <3> QED
      BY <3>1, <3>2, <1>1
  <2> QED
    BY <2>1, <2>2, <2>3 DEF ScansHeld
<1>4. TruthHeld(v, R)
  <2>1. \A m \in Scan!Nodes : v.scan[m].st = "Success" => v.scan[m].info # "none"
    BY <1>0, <1>1 DEF TruthHeld, Follows
  <2>2. ASSUME NEW f \in Scan!Files
        PROVE  /\ v.scan[f].st = "Success" => InfoTrue(f, v.scan[f].info, v.index, R)
               /\ InfoTrue(f, v.index.info[f], v.index, R) /\ v.index.chunks[f] \subseteq 1..Chunks[f]
    BY <1>0, <1>1, Forest DEF TruthHeld, Follows
  <2>3. ASSUME NEW d \in Scan!Dirs, v.scan[d].st = "Success"
        PROVE  /\ \A m \in Scan!Part(d) : v.scan[m].st = "Success"
               /\ v.scan[d].got = Scan!GotOf(v, d) /\ v.scan[d].tot = Scan!TotOf(v, d)
               /\ v.scan[d].nfiles = Scan!FilesOf(v, d)
    <3>0. d \in Scan!Nodes /\ Scan!Part(d) \subseteq Scan!Nodes
      BY Forest
    <3>1. \A m \in Scan!Part(d) : m \in Scan!Nodes /\ w.scan[m].st = "Success"
      <4>1. CASE d = n
        BY <4>1, <3>0, <2>3, <1>1 DEF Follows
      <4>2. CASE d # n
        <5>1. w.scan[d].st = "Success"
          BY <4>2, <3>0, <2>3, <1>1
        <5> QED
          BY <5>1, <3>0, <1>0 DEF TruthHeld
      <4> QED
        BY <4>1, <4>2
    <3>2. \A m \in Scan!Part(d) : v.scan[m] = w.scan[m]
      BY <3>1, <1>1
    <3>3. /\ v.scan[d].got = Scan!GotOf(w, d) /\ v.scan[d].tot = Scan!TotOf(w, d)
          /\ v.scan[d].nfiles = Scan!FilesOf(w, d)
      <4>1. CASE d = n
        BY <4>1, <3>0, <2>3, <1>1 DEF Follows
      <4>2. CASE d # n
        <5>1. w.scan[d].st = "Success" /\ v.scan[d] = w.scan[d]
          BY <4>2, <3>0, <2>3, <1>1
        <5> QED
          BY <5>1, <1>0 DEF TruthHeld
      <4> QED
        BY <4>1, <4>2
    <3> QED
      BY <3>1, <3>2, <3>3, SumsKept
  <2>4. \A i \in DOMAIN v.items : v.items[i].done /\ v.items[i].err = "" =>
          v.items[i].data # "none" /\ InfoTrue(v.items[i].of, v.items[i].data, v.index, R)
    BY <1>0, <1>1 DEF TruthHeld
  <2> QED
    BY <2>1, <2>2, <2>3, <2>4 DEF TruthHeld
<1>5. ItemsHeld(v, j)
  <2>1. \A i : Owned(v, i) <=> Owned(w, i)
    BY <1>2, Forest DEF Owned
  <2>2. \A i : Ahead(v, j, i) <=> Ahead(w, j, i)
    BY <1>1 DEF Ahead
  <2> QED
    BY <2>1, <2>2, <1>0, <1>1 DEF ItemsHeld
<1>6. WorkHeld(v, j, R)
  BY <1>0, <1>1 DEF WorkHeld
<1>7. SentHeld(v)
  <2>1. Waiting(v) = Waiting(w) /\ \A m \in Waiting(w) : m \in Scan!Nodes /\ m # n
    BY <1>1, Forest DEF Waiting
  <2>2. v.chat.at # "none"
    BY <1>0, <1>1 DEF SentHeld
  <2> QED
    BY <2>1, <2>2, <1>0, <1>1 DEF SentHeld
<1> QED
  BY <1>1, <1>3, <1>4, <1>5, <1>6, <1>7 DEF ScannerHeld

-----------------------------------------------------------------------------
(* The handlers of a Scan.                                                 *)

\* An error starts the timer.
LEMMA SetErrorHeld ==
  ASSUME NEW w, NEW j, NEW R, ScannerHeld(w, j, R), NEW n \in Scan!Nodes, n \notin Waiting(w),
         w.scan[n].st \notin {"Success", "Absent"}, w.scan[n].item = 0,
         n \in Scan!Dirs => \A m \in Scan!Part(n) : w.scan[m].st = "Absent"
  PROVE  ScannerHeld(Scan!SetError(w, n), j, R)
<1>1. PICK s : s = [w.scan[n] EXCEPT !.timer = TRUE, !.st = "Error"]
  OBVIOUS
<1>2. PICK u : u = [w EXCEPT !.scan[n].timer = TRUE]
  OBVIOUS
<1>3. PICK v : v = [u EXCEPT !.scan[n].st = "Error"]
  OBVIOUS
<1>4. w \in Worlds /\ w.scan[n] \in Scan!Scans
  BY DEF ScannerHeld, Worlds
<1>5. s \in Scan!Scans /\ s.st = "Error" /\ s.item = w.scan[n].item
  BY <1>1, <1>4 DEF Scan!Scans
<1>6. u.scan[n].st = w.scan[n].st
  BY <1>2, <1>4 DEF Worlds, Scan!Scans
<1>7. v = [w EXCEPT !.scan = [w.scan EXCEPT ![n] = s]]
  BY <1>1, <1>2, <1>3, <1>4 DEF Worlds, Scan!Scans
<1>8. v \in Worlds /\ Rescanned(v, w, n, s)
  BY <1>4, <1>5, <1>7 DEF Worlds, Rescanned
<1>9. Follows(w, n, s, R)
  BY <1>5 DEF Follows
<1>10. ScannerHeld(v, j, R)
  BY <1>8, <1>9, RescannedHeld
<1>11. Told(Scan!Status(u, n, u.scan[n], "Error"), v, j, R)
  BY <1>3, <1>6, <1>10, StatusHeld
<1> QED
  BY <1>2, <1>11 DEF Scan!SetError, Told

\* What the index is told of a file is so.
LEMMA IndexHeld ==
  ASSUME NEW w, NEW j, NEW R, ScannerHeld(w, j, R), NEW n \in Scan!Nodes,
         n \in Scan!Files => InfoTrue(n, w.scan[n].info, w.index, R)
  PROVE  ScannerHeld([w EXCEPT !.index.info[n] = w.scan[n].info], j, R)
<1>1. PICK v : v = [w EXCEPT !.index.info[n] = w.scan[n].info]
  OBVIOUS
<1>2. w \in Worlds /\ w.scan[n].info \in Scan!Infos
  BY DEF ScannerHeld, Worlds, Scan!Scans
<1>3. v = [w EXCEPT !.index = [w.index EXCEPT !.info = [w.index.info EXCEPT ![n] = w.scan[n].info]]]
  BY <1>1
<1>4. [w.index EXCEPT !.info = [w.index.info EXCEPT ![n] = w.scan[n].info]]
        \in [chunks : [Scan!Files -> SUBSET Nat], info : [Scan!Nodes -> Scan!Infos]]
  BY <1>2 DEF Worlds
<1>5. /\ v \in Worlds /\ v.scan = w.scan /\ v.items = w.items /\ v.queue = w.queue
      /\ v.chat = w.chat /\ v.sent = w.sent /\ v.failed = w.failed
      /\ v.index.chunks = w.index.chunks
      /\ v.index.info = [w.index.info EXCEPT ![n] = w.scan[n].info]
  BY <1>2, <1>3, <1>4 DEF Worlds
<1>6. \A f \in Scan!Files : InfoTrue(f, v.index.info[f], v.index, R)
  <2> TAKE f \in Scan!Files
  <2>1. InfoTrue(f, w.index.info[f], w.index, R) /\ w.index.info \in [Scan!Nodes -> Scan!Infos]
    BY <1>2 DEF ScannerHeld, TruthHeld, Worlds
  <2> QED
    BY <2>1, <1>5, Forest DEF InfoTrue
<1>7. ScansHeld(v) /\ ItemsHeld(v, j) /\ WorkHeld(v, j, R) /\ SentHeld(v)
  <2>1. ScansHeld(w) => ScansHeld(v)
    BY <1>5 DEF ScansHeld
  <2>2. ItemsHeld(w, j) => ItemsHeld(v, j)
    BY <1>5 DEF ItemsHeld, Owned, Ahead
  <2>3. WorkHeld(w, j, R) => WorkHeld(v, j, R)
    BY <1>5 DEF WorkHeld
  <2>4. SentHeld(w) => SentHeld(v)
    BY <1>5 DEF SentHeld, Waiting
  <2> QED
    BY <2>1, <2>2, <2>3, <2>4 DEF ScannerHeld
<1>8. TruthHeld(v, R)
  <2>1. \A f, is : InfoTrue(f, is, v.index, R) <=> InfoTrue(f, is, w.index, R)
    BY <1>5 DEF InfoTrue
  <2>2. \A d : /\ Scan!GotOf(v, d) = Scan!GotOf(w, d) /\ Scan!TotOf(v, d) = Scan!TotOf(w, d)
               /\ Scan!FilesOf(v, d) = Scan!FilesOf(w, d)
    BY <1>5 DEF Scan!GotOf, Scan!TotOf, Scan!FilesOf
  <2>3. TruthHeld(w, R)
    BY DEF ScannerHeld
  <2>4. \A f \in Scan!Files :
          /\ v.scan[f].st = "Success" => InfoTrue(f, v.scan[f].info, v.index, R)
          /\ InfoTrue(f, v.index.info[f], v.index, R) /\ v.index.chunks[f] \subseteq 1..Chunks[f]
    BY <2>1, <2>3, <1>5, <1>6 DEF TruthHeld
  <2>5. \A i \in DOMAIN v.items : v.items[i].done /\ v.items[i].err = "" =>
          v.items[i].data # "none" /\ InfoTrue(v.items[i].of, v.items[i].data, v.index, R)
    BY <2>1, <2>3, <1>5 DEF TruthHeld
  <2>6. \A d \in Scan!Dirs : v.scan[d].st = "Success" =>
          /\ \A m \in Scan!Part(d) : v.scan[m].st = "Success"
          /\ v.scan[d].got = Scan!GotOf(v, d) /\ v.scan[d].tot = Scan!TotOf(v, d)
          /\ v.scan[d].nfiles = Scan!FilesOf(v, d)
    BY <2>2, <2>3, <1>5 DEF TruthHeld
  <2>7. \A m \in Scan!Nodes : v.scan[m].st = "Success" => v.scan[m].info # "none"
    BY <2>3, <1>5 DEF TruthHeld
  <2> QED
    BY <2>4, <2>5, <2>6, <2>7 DEF TruthHeld
<1> QED
  BY <1>1, <1>5, <1>7, <1>8 DEF ScannerHeld

\* A Scan's end: what it says of a file, and of a directory's entries, is so.
LEMMA ReportDoneHeld ==
  ASSUME NEW w, NEW j, NEW R, ScannerHeld(w, j, R), NEW n \in Scan!Nodes, n \notin Waiting(w),
         w.scan[n].st \notin {"Success", "Absent"}, w.scan[n].item = 0, ~w.scan[n].timer,
         w.scan[n].info # "none", n \in Scan!Files => InfoTrue(n, w.scan[n].info, w.index, R),
         n \in Scan!Dirs =>
           /\ \A m \in Scan!Part(n) : w.scan[m].st = "Success"
           /\ w.scan[n].got = Scan!GotOf(w, n) /\ w.scan[n].tot = Scan!TotOf(w, n)
           /\ w.scan[n].nfiles = Scan!FilesOf(w, n)
  PROVE  ScannerHeld(Scan!ReportDone(w, n), j, R)
<1>1. PICK u : u = [w EXCEPT !.index.info[n] = w.scan[n].info]
  OBVIOUS
<1>2. PICK s : s = [w.scan[n] EXCEPT !.st = "Success"]
  OBVIOUS
<1>3. PICK v : v = [u EXCEPT !.scan[n].st = "Success"]
  OBVIOUS
<1>4. ScannerHeld(u, j, R)
  BY <1>1, IndexHeld
<1>5. w \in Worlds /\ u \in Worlds /\ w.scan[n] \in Scan!Scans
  BY <1>4 DEF ScannerHeld, Worlds
<1>6. u.scan = w.scan /\ u.chat = w.chat /\ u.index.chunks = w.index.chunks
  BY <1>1, <1>5 DEF Worlds
<1>7. s \in Scan!Scans /\ s.st = "Success" /\ s.item = 0 /\ s.info = w.scan[n].info /\ s.timer = w.scan[n].timer
      /\ s.got = w.scan[n].got /\ s.tot = w.scan[n].tot /\ s.nfiles = w.scan[n].nfiles
  BY <1>2, <1>5 DEF Scan!Scans
<1>8. v = [u EXCEPT !.scan = [u.scan EXCEPT ![n] = s]]
  BY <1>2, <1>3, <1>6
<1>9. v \in Worlds /\ Rescanned(v, u, n, s)
  BY <1>5, <1>7, <1>8 DEF Worlds, Rescanned
<1>10. Follows(u, n, s, R)
  <2>1. n \in Scan!Files => InfoTrue(n, s.info, u.index, R)
    BY <1>6, <1>7 DEF InfoTrue
  <2>2. /\ Scan!GotOf(u, n) = Scan!GotOf(w, n) /\ Scan!TotOf(u, n) = Scan!TotOf(w, n)
        /\ Scan!FilesOf(u, n) = Scan!FilesOf(w, n)
    BY <1>6 DEF Scan!GotOf, Scan!TotOf, Scan!FilesOf
  <2> QED
    BY <2>1, <2>2, <1>6, <1>7 DEF Follows
<1>11. n \notin Waiting(u)
  BY <1>6 DEF Waiting
<1>12. ScannerHeld(v, j, R)
  BY <1>4, <1>9, <1>10, <1>11, RescannedHeld
<1>13. Told(Scan!Status(u, n, Scan!Blank, "Success"), v, j, R)
  BY <1>3, <1>6, <1>12, StatusHeld
<1> QED
  BY <1>1, <1>13 DEF Scan!ReportDone, Told

\* What a sequence with one element more has.
LEMMA Lengthened ==
  ASSUME NEW S, NEW s \in Seq(S), NEW e \in S, NEW t, t = Append(s, e), NEW z, z = Len(s) + 1
  PROVE  /\ t \in Seq(S) /\ z \in Nat \ {0} /\ z \in DOMAIN t /\ t[z] = e
         /\ \A k \in DOMAIN s : k \in DOMAIN t /\ k # z /\ t[k] = s[k]
         /\ \A k \in DOMAIN t : k = z \/ k \in DOMAIN s
  OBVIOUS

\* A file's Scan that has none gets an item, for the thread to find.
LEMMA ScanFileHeld ==
  ASSUME NEW w, NEW j, NEW R, ScannerHeld(w, j, R), NEW f \in Scan!Files, f \notin Waiting(w),
         w.scan[f].st \in {"Fresh", "Error"}, ~w.scan[f].timer
  PROVE  ScannerHeld(Scan!ScanFile(w, f), j, R)
<1> DEFINE new == [of |-> f, got |-> 0, done |-> FALSE, cancel |-> FALSE, err |-> "",
                   data |-> "none", live |-> TRUE]
<1>1. PICK i : i = Len(w.items) + 1
  OBVIOUS
<1>2. PICK u : u = [w EXCEPT !.items = Append(@, new), !.queue = Append(@, i),
                             !.scan[f] = [@ EXCEPT !.item = i, !.tot = Chunks[f]]]
  OBVIOUS
<1>3. PICK v : v = [u EXCEPT !.scan[f].st = "Running"]
  OBVIOUS
<1>4. PICK s : s = [w.scan[f] EXCEPT !.item = i, !.tot = Chunks[f], !.st = "Running"]
  OBVIOUS
<1>5. /\ w \in Worlds /\ ScansHeld(w) /\ TruthHeld(w, R) /\ ItemsHeld(w, j) /\ WorkHeld(w, j, R)
      /\ SentHeld(w) /\ w.failed \subseteq {"flush"} /\ j \in Works /\ R \subseteq Scan!Files
  BY DEF ScannerHeld
<1>6. f \in Scan!Nodes /\ f \notin Scan!Dirs /\ Chunks[f] \in Nat
  BY Forest
<1>7. w.scan[f] \in Scan!Scans /\ w.items \in Seq(Scan!Items) /\ i \in Nat \ {0} /\ w.queue \in Seq(Nat)
  BY <1>1, <1>5, <1>6 DEF Worlds
<1>8. new \in Scan!Items
  BY DEF Scan!Items, Scan!Infos
<1>9. s \in Scan!Scans /\ s.st = "Running" /\ s.item = i /\ ~s.timer /\ w.scan[f].item = 0
  BY <1>4, <1>5, <1>6, <1>7 DEF Scan!Scans, ScansHeld
<1>10. PICK its : its = Append(w.items, new)
  OBVIOUS
<1>11. PICK q : q = Append(w.queue, i)
  OBVIOUS
<1> HIDE DEF new
<1>12. /\ its \in Seq(Scan!Items) /\ i \in DOMAIN its /\ its[i] = new
       /\ \A x \in DOMAIN w.items : x \in DOMAIN its /\ x # i /\ its[x] = w.items[x]
       /\ \A x \in DOMAIN its : x = i \/ x \in DOMAIN w.items
  BY <1>1, <1>7, <1>8, <1>10, Lengthened
<1> PICK z : z = Len(w.queue) + 1
  OBVIOUS
<1>13. /\ q \in Seq(Nat) /\ z \in DOMAIN q /\ q[z] = i
       /\ \A k \in DOMAIN w.queue : k \in DOMAIN q /\ k # z /\ q[k] = w.queue[k]
       /\ \A k \in DOMAIN q : k = z \/ k \in DOMAIN w.queue
  BY <1>7, <1>11, Lengthened
<1>14. v = [w EXCEPT !.items = its, !.queue = q, !.scan = [w.scan EXCEPT ![f] = s]]
  <2>1. u = [w EXCEPT !.items = its, !.queue = q,
               !.scan = [w.scan EXCEPT ![f] = [w.scan[f] EXCEPT !.item = i, !.tot = Chunks[f]]]]
    BY <1>2, <1>5, <1>10, <1>11 DEF Worlds
  <2> QED
    BY <2>1, <1>3, <1>4, <1>5, <1>6 DEF Worlds
<1>15. /\ v \in Worlds /\ v.items = its /\ v.queue = q /\ v.scan[f] = s
       /\ \A m \in Scan!Nodes : m # f => v.scan[m] = w.scan[m]
       /\ v.chat = w.chat /\ v.sent = w.sent /\ v.index = w.index /\ v.failed = w.failed
  BY <1>5, <1>6, <1>9, <1>12, <1>13, <1>14 DEF Worlds
<1>16. new.of = f /\ new.live = TRUE /\ new.cancel = FALSE /\ new.done = FALSE
  BY DEF new
<1>17. ScansHeld(v)
  <2>1. \A m \in Scan!Nodes : v.scan[m].timer => v.scan[m].st \in {"Fresh", "Error"}
    BY <1>5, <1>9, <1>15 DEF ScansHeld
  <2>2. ASSUME NEW m \in Scan!Nodes, v.scan[m].item # 0
        PROVE  /\ m \in Scan!Files /\ v.scan[m].st = "Running" /\ v.scan[m].item \in DOMAIN v.items
               /\ LET item == v.items[v.scan[m].item] IN item.of = m /\ item.live /\ ~item.cancel
    <3>1. CASE m = f
      BY <3>1, <1>7, <1>9, <1>12, <1>15, <1>16
    <3>2. CASE m # f
      BY <3>2, <2>2, <1>5, <1>7, <1>12, <1>15 DEF ScansHeld
    <3> QED
      BY <3>1, <3>2
  <2>3. ASSUME NEW d \in Scan!Dirs, v.scan[d].st \in {"Absent", "Fresh", "Error"}, NEW m \in Scan!Part(d)
        PROVE  v.scan[m].st = "Absent"
    <3>1. d \in Scan!Nodes /\ m \in Scan!Nodes /\ d # f
      BY <1>6, Forest
    <3>2. w.scan[m].st = "Absent"
      BY <3>1, <2>3, <1>5, <1>15 DEF ScansHeld
    <3> QED
      BY <3>1, <3>2, <1>15
  <2> QED
    BY <2>1, <2>2, <2>3 DEF ScansHeld
<1>18. TruthHeld(v, R)
  <2>1. \A m \in Scan!Nodes : v.scan[m].st = "Success" => v.scan[m].info # "none"
    BY <1>5, <1>9, <1>15 DEF TruthHeld
  <2>2. \A g \in Scan!Files :
          /\ v.scan[g].st = "Success" => InfoTrue(g, v.scan[g].info, v.index, R)
          /\ InfoTrue(g, v.index.info[g], v.index, R) /\ v.index.chunks[g] \subseteq 1..Chunks[g]
    BY <1>5, <1>9, <1>15, Forest DEF TruthHeld
  <2>3. ASSUME NEW d \in Scan!Dirs, v.scan[d].st = "Success"
        PROVE  /\ \A m \in Scan!Part(d) : v.scan[m].st = "Success"
               /\ v.scan[d].got = Scan!GotOf(v, d) /\ v.scan[d].tot = Scan!TotOf(v, d)
               /\ v.scan[d].nfiles = Scan!FilesOf(v, d)
    <3>1. d \in Scan!Nodes /\ d # f /\ v.scan[d] = w.scan[d]
      BY <1>6, <1>15, Forest
    <3>2. \A m \in Scan!Part(d) : m \in Scan!Nodes /\ w.scan[m].st = "Success"
      BY <3>1, <2>3, <1>5, Forest DEF TruthHeld
    <3>3. \A m \in Scan!Part(d) : v.scan[m] = w.scan[m]
      BY <3>2, <1>15
    <3>4. /\ w.scan[d].got = Scan!GotOf(w, d) /\ w.scan[d].tot = Scan!TotOf(w, d)
          /\ w.scan[d].nfiles = Scan!FilesOf(w, d)
      BY <3>1, <2>3, <1>5 DEF TruthHeld
    <3> QED
      BY <3>1, <3>2, <3>3, <3>4, SumsKept
  <2>4. \A x \in DOMAIN v.items : v.items[x].done /\ v.items[x].err = "" =>
          v.items[x].data # "none" /\ InfoTrue(v.items[x].of, v.items[x].data, v.index, R)
    <3> TAKE x \in DOMAIN v.items
    <3>1. CASE x = i
      BY <3>1, <1>12, <1>15, <1>16
    <3>2. CASE x # i
      <4>1. x \in DOMAIN w.items /\ v.items[x] = w.items[x]
        BY <3>2, <1>12, <1>15
      <4> QED
        BY <4>1, <1>5, <1>15 DEF TruthHeld
    <3> QED
      BY <3>1, <3>2
  <2> QED
    BY <2>1, <2>2, <2>3, <2>4 DEF TruthHeld
<1>19. j.item \in Nat /\ j.item # i
  BY <1>5, <1>7, <1>12 DEF WorkHeld, Works
<1>20. ItemsHeld(v, j)
  <2>1. \A k \in DOMAIN w.queue : w.queue[k] \in DOMAIN w.items /\ w.queue[k] # i
    BY <1>5, <1>7, <1>12 DEF ItemsHeld
  <2>2. \A x \in DOMAIN w.items : Ahead(v, j, x) <=> Ahead(w, j, x)
    <3> TAKE x \in DOMAIN w.items
    <3>1. x # i
      BY <1>12
    <3>2. (\E k \in DOMAIN q : q[k] = x) <=> \E k \in DOMAIN w.queue : w.queue[k] = x
      BY <3>1, <1>13
    <3> QED
      BY <3>2, <1>15 DEF Ahead
  <2>3. Ahead(v, j, i)
    BY <1>13, <1>15 DEF Ahead
  <2>4. \A x \in DOMAIN w.items : Owned(v, x) <=> Owned(w, x)
    <3> TAKE x \in DOMAIN w.items
    <3>1. x # i /\ x # 0 /\ v.scan[f].item # x /\ w.scan[f].item # x
      BY <1>7, <1>9, <1>12, <1>15
    <3>2. \A g \in Scan!Files : g # f => v.scan[g].item = w.scan[g].item
      BY <1>15, Forest
    <3> QED
      BY <3>1, <3>2 DEF Owned
  <2>5. Owned(v, i)
    BY <1>6, <1>9, <1>15 DEF Owned
  <2>6. ASSUME NEW x \in DOMAIN v.items
        PROVE  /\ v.items[x].live => \/ Owned(v, x)
                                     \/ v.items[x].cancel /\ (Ahead(v, j, x) \/ v.items[x].err = "open")
               /\ Owned(v, x) /\ ~v.items[x].done => Ahead(v, j, x)
               /\ Ahead(v, j, x) => v.items[x].live /\ ~v.items[x].done
    <3>1. CASE x = i
      BY <3>1, <2>3, <2>5, <1>12, <1>15, <1>16
    <3>2. CASE x # i
      <4>1. x \in DOMAIN w.items /\ v.items[x] = w.items[x]
        BY <3>2, <1>7, <1>12, <1>15
      <4> QED
        BY <4>1, <2>2, <2>4, <1>5, <1>12 DEF ItemsHeld
    <3> QED
      BY <3>1, <3>2
  <2>7. \A k \in DOMAIN v.queue : v.queue[k] \in DOMAIN v.items /\ v.queue[k] # j.item
    BY <2>1, <1>5, <1>7, <1>12, <1>13, <1>15, <1>19 DEF ItemsHeld
  <2>8. \A k, l \in DOMAIN v.queue : k # l => v.queue[k] # v.queue[l]
    BY <2>1, <1>5, <1>13, <1>15 DEF ItemsHeld
  <2> QED
    BY <2>6, <2>7, <2>8 DEF ItemsHeld
<1>21. WorkHeld(v, j, R)
  BY <1>5, <1>7, <1>12, <1>15 DEF WorkHeld
<1>22. SentHeld(v)
  <2>1. Waiting(v) = Waiting(w) /\ \A m \in Waiting(w) : m \in Scan!Nodes /\ m # f
    BY <1>15, Forest DEF Waiting
  <2>2. v.chat.at # "none"
    BY <1>5, <1>6, <1>15 DEF SentHeld
  <2> QED
    BY <2>1, <2>2, <1>5, <1>15 DEF SentHeld
<1>23. ScannerHeld(v, j, R)
  BY <1>5, <1>15, <1>17, <1>18, <1>20, <1>21, <1>22 DEF ScannerHeld
<1>24. u.scan[f].st # "Success"
  BY <1>2, <1>5, <1>6 DEF Worlds, Scan!Scans
<1>25. Told(Scan!Status(u, f, Scan!Blank, "Running"), v, j, R)
  BY <1>3, <1>23, <1>24, StatusHeld
<1>26. Scan!ScanFile(w, f) = Scan!Status(u, f, Scan!Blank, "Running")
  BY <1>1, <1>2, <1>9 DEF Scan!ScanFile, Scan!Report, new
<1> QED
  BY <1>25, <1>26 DEF Told

\* A directory that is scanned makes the Scans of its entries, to start soon.
LEMMA ScanDirHeld ==
  ASSUME NEW w, NEW j, NEW R, ScannerHeld(w, j, R), NEW d \in Scan!Dirs, d \notin Waiting(w),
         w.scan[d].st \in {"Fresh", "Error"}, ~w.scan[d].timer
  PROVE  ScannerHeld(Scan!ScanDir(w, d), j, R)
<1> DEFINE fresh == [Scan!Blank EXCEPT !.st = "Fresh", !.timer = TRUE]
<1>1. PICK u : u = [w EXCEPT !.scan = [n \in Scan!Nodes |->
                      IF n \in Scan!Part(d) THEN fresh ELSE @[n]]]
  OBVIOUS
<1>2. PICK v : v = [u EXCEPT !.scan[d].st = "Running"]
  OBVIOUS
<1>3. PICK s : s = [w.scan[d] EXCEPT !.st = "Running"]
  OBVIOUS
<1>4. /\ w \in Worlds /\ ScansHeld(w) /\ TruthHeld(w, R) /\ ItemsHeld(w, j) /\ WorkHeld(w, j, R)
      /\ SentHeld(w) /\ w.failed \subseteq {"flush"} /\ j \in Works /\ R \subseteq Scan!Files
  BY DEF ScannerHeld
<1>5. /\ d \in Scan!Nodes /\ d \notin Scan!Files /\ d \notin Scan!Part(d)
      /\ Scan!Part(d) \subseteq Scan!Nodes
  BY Forest
<1>6. w.scan[d] \in Scan!Scans /\ w.scan \in [Scan!Nodes -> Scan!Scans]
  BY <1>4, <1>5 DEF Worlds
<1>7. s \in Scan!Scans /\ s.st = "Running" /\ s.item = 0 /\ ~s.timer /\ w.scan[d].item = 0
  BY <1>3, <1>4, <1>5, <1>6 DEF Scan!Scans, ScansHeld
<1>8. fresh \in Scan!Scans /\ fresh.st = "Fresh" /\ fresh.item = 0
  BY DEF Scan!Scans, Scan!Blank, Scan!Infos
<1> HIDE DEF fresh
<1>9. PICK sc : sc = [n \in Scan!Nodes |-> IF n = d THEN s ELSE IF n \in Scan!Part(d) THEN fresh ELSE w.scan[n]]
  OBVIOUS
<1>10. /\ sc \in [Scan!Nodes -> Scan!Scans] /\ sc[d] = s /\ \A n \in Scan!Part(d) : sc[n] = fresh
       /\ \A n \in Scan!Nodes : n # d /\ n \notin Scan!Part(d) => sc[n] = w.scan[n]
  BY <1>5, <1>6, <1>7, <1>8, <1>9
<1>11. v = [w EXCEPT !.scan = sc]
  <2>1. PICK sd : sd = [n \in Scan!Nodes |-> IF n \in Scan!Part(d) THEN fresh ELSE w.scan[n]]
    OBVIOUS
  <2>2. u = [w EXCEPT !.scan = sd]
    BY <1>1, <2>1
  <2>3. sd[d] = w.scan[d]
    BY <2>1, <1>5
  <2>4. v = [u EXCEPT !.scan = [sd EXCEPT ![d] = s]]
    BY <2>2, <2>3, <1>2, <1>3, <1>4 DEF Worlds
  <2>5. [sd EXCEPT ![d] = s] = sc
    BY <2>1, <1>5, <1>9
  <2> QED
    BY <2>2, <2>4, <2>5, <1>4 DEF Worlds
<1>12. /\ v \in Worlds /\ v.scan = sc /\ v.items = w.items /\ v.queue = w.queue
       /\ v.chat = w.chat /\ v.sent = w.sent /\ v.index = w.index /\ v.failed = w.failed
  BY <1>4, <1>10, <1>11 DEF Worlds
\* The entries had no Scans before.
<1>13. \A n \in Scan!Part(d) : w.scan[n].st = "Absent" /\ w.scan[n].item = 0
  BY <1>4, <1>5 DEF ScansHeld
<1>14. \A n \in Scan!Nodes : sc[n].item = w.scan[n].item
  BY <1>7, <1>8, <1>10, <1>13
<1>15. ASSUME NEW n \in Scan!Nodes, sc[n].st = "Success"
       PROVE  sc[n] = w.scan[n]
  BY <1>15, <1>7, <1>8, <1>10
<1>16. ScansHeld(v)
  <2>1. \A n \in Scan!Nodes : v.scan[n].timer => v.scan[n].st \in {"Fresh", "Error"}
    BY <1>4, <1>7, <1>8, <1>10, <1>12 DEF ScansHeld
  <2>2. ASSUME NEW n \in Scan!Nodes, v.scan[n].item # 0
        PROVE  /\ n \in Scan!Files /\ v.scan[n].st = "Running" /\ v.scan[n].item \in DOMAIN v.items
               /\ LET item == v.items[v.scan[n].item] IN item.of = n /\ item.live /\ ~item.cancel
    <3>1. sc[n] = w.scan[n]
      BY <2>2, <1>7, <1>8, <1>10, <1>12
    <3> QED
      BY <3>1, <2>2, <1>4, <1>12 DEF ScansHeld
  <2>3. ASSUME NEW e \in Scan!Dirs, v.scan[e].st \in {"Absent", "Fresh", "Error"}, NEW m \in Scan!Part(e)
        PROVE  v.scan[m].st = "Absent"
    <3>1. e \in Scan!Nodes /\ m \in Scan!Nodes /\ e # d
      BY <2>3, <1>7, <1>10, <1>12, Forest
    <3>2. w.scan[e].st \in {"Absent", "Fresh", "Error"}
      BY <3>1, <2>3, <1>10, <1>12, <1>13
    <3>3. w.scan[m].st = "Absent"
      BY <3>2, <1>4 DEF ScansHeld
    <3>4. m \notin Scan!Part(d)
      BY <3>1, Forest
    <3> QED
      BY <3>1, <3>3, <3>4, <1>10, <1>12
  <2> QED
    BY <2>1, <2>2, <2>3 DEF ScansHeld
<1>17. TruthHeld(v, R)
  <2>1. \A m \in Scan!Nodes : v.scan[m].st = "Success" => v.scan[m].info # "none"
    BY <1>4, <1>12, <1>15 DEF TruthHeld
  <2>2. \A g \in Scan!Files :
          /\ v.scan[g].st = "Success" => InfoTrue(g, v.scan[g].info, v.index, R)
          /\ InfoTrue(g, v.index.info[g], v.index, R) /\ v.index.chunks[g] \subseteq 1..Chunks[g]
    BY <1>4, <1>12, <1>15, Forest DEF TruthHeld
  <2>3. ASSUME NEW e \in Scan!Dirs, v.scan[e].st = "Success"
        PROVE  /\ \A m \in Scan!Part(e) : v.scan[m].st = "Success"
               /\ v.scan[e].got = Scan!GotOf(v, e) /\ v.scan[e].tot = Scan!TotOf(v, e)
               /\ v.scan[e].nfiles = Scan!FilesOf(v, e)
    <3>1. e \in Scan!Nodes /\ v.scan[e] = w.scan[e]
      BY <2>3, <1>12, <1>15, Forest
    <3>2. \A m \in Scan!Part(e) : m \in Scan!Nodes /\ w.scan[m].st = "Success"
      BY <3>1, <2>3, <1>4, Forest DEF TruthHeld
    <3>3. \A m \in Scan!Part(e) : v.scan[m] = w.scan[m]
      <4> TAKE m \in Scan!Part(e)
      <4>1. m \in Scan!Nodes /\ m # d /\ m \notin Scan!Part(d)
        BY <3>2, <1>13
      <4> QED
        BY <4>1, <1>10, <1>12
    <3>4. /\ w.scan[e].got = Scan!GotOf(w, e) /\ w.scan[e].tot = Scan!TotOf(w, e)
          /\ w.scan[e].nfiles = Scan!FilesOf(w, e)
      BY <3>1, <2>3, <1>4 DEF TruthHeld
    <3> QED
      BY <3>1, <3>2, <3>3, <3>4, SumsKept
  <2>4. \A x \in DOMAIN v.items : v.items[x].done /\ v.items[x].err = "" =>
          v.items[x].data # "none" /\ InfoTrue(v.items[x].of, v.items[x].data, v.index, R)
    BY <1>4, <1>12 DEF TruthHeld
  <2> QED
    BY <2>1, <2>2, <2>3, <2>4 DEF TruthHeld
<1>18. ItemsHeld(v, j)
  <2>1. \A x : Owned(v, x) <=> Owned(w, x)
    BY <1>12, <1>14, Forest DEF Owned
  <2>2. \A x : Ahead(v, j, x) <=> Ahead(w, j, x)
    BY <1>12 DEF Ahead
  <2> QED
    BY <2>1, <2>2, <1>4, <1>12 DEF ItemsHeld
<1>19. WorkHeld(v, j, R)
  BY <1>4, <1>12 DEF WorkHeld
<1>20. SentHeld(v)
  <2>1. Waiting(v) = Waiting(w)
    BY <1>12 DEF Waiting
  <2>2. \A m \in Waiting(w) : m \in Scan!Nodes /\ m # d /\ m \notin Scan!Part(d)
    BY Forest DEF Waiting
  <2>3. v.chat.at # "none"
    BY <1>4, <1>5, <1>12 DEF SentHeld
  <2>4. \A m \in Waiting(v) : v.scan[m].st = "Fresh" /\ ~v.scan[m].timer
    BY <2>1, <2>2, <1>4, <1>10, <1>12 DEF SentHeld
  <2> QED
    BY <2>3, <2>4, <1>4, <1>12 DEF SentHeld
<1>21. ScannerHeld(v, j, R)
  BY <1>4, <1>12, <1>16, <1>17, <1>18, <1>19, <1>20 DEF ScannerHeld
<1>22. u.scan[d].st # "Success"
  BY <1>1, <1>4, <1>5 DEF Worlds
<1>23. Told(Scan!Status(u, d, Scan!Blank, "Running"), v, j, R)
  BY <1>2, <1>21, <1>22, StatusHeld
<1>24. Scan!ScanDir(w, d) = Scan!Status(u, d, Scan!Blank, "Running")
  BY <1>1 DEF Scan!ScanDir, Scan!Report, fresh
<1> QED
  BY <1>23, <1>24 DEF Told

\* Whatever is found at its path, a Scan starts well.
LEMMA StartHeld ==
  ASSUME NEW w, NEW j, NEW R, ScannerHeld(w, j, R), NEW n \in Scan!Nodes, n \notin Waiting(w),
         w.scan[n].st \in {"Fresh", "Error"}, ~w.scan[n].timer, NEW as \in Scan!Sights,
         as = "same" => n \in Scan!Files /\ w.index.info[n] # "none",
         as = "empty" => n \in Scan!Dirs
  PROVE  ScannerHeld(Scan!Start(w, n, as), j, R)
<1>1. w \in Worlds /\ w.scan[n] \in Scan!Scans /\ ScansHeld(w) /\ TruthHeld(w, R)
  BY DEF ScannerHeld, Worlds
<1>2. w.scan[n].item = 0 /\ (n \in Scan!Dirs => \A m \in Scan!Part(n) : w.scan[m].st = "Absent")
  BY <1>1 DEF ScansHeld
<1>3. CASE as \in {"missing", "odd"}
  <2>1. ScannerHeld(Scan!SetError(w, n), j, R)
    BY <1>2, SetErrorHeld
  <2>2. Scan!Start(w, n, as) = Scan!SetError(w, n)
    BY <1>3 DEF Scan!Start
  <2> QED
    BY <2>1, <2>2
<1>4. CASE as = "same"
  <2>1. PICK s : s = [w.scan[n] EXCEPT !.info = w.index.info[n]]
    OBVIOUS
  <2>2. PICK v : v = [w EXCEPT !.scan[n].info = w.index.info[n]]
    OBVIOUS
  <2>3. w.index.info[n] \in Scan!Infos /\ InfoTrue(n, w.index.info[n], w.index, R) /\ n \notin Scan!Dirs
    BY <1>1, <1>4, Forest DEF Worlds, TruthHeld
  <2>4. /\ s \in Scan!Scans /\ s.st = w.scan[n].st /\ s.item = 0 /\ ~s.timer
        /\ s.info = w.index.info[n]
    BY <2>1, <2>3, <1>1, <1>2 DEF Scan!Scans
  <2>5. v = [w EXCEPT !.scan = [w.scan EXCEPT ![n] = s]]
    BY <2>1, <2>2
  <2>6. v \in Worlds /\ Rescanned(v, w, n, s) /\ v.scan[n] = s /\ Waiting(v) = Waiting(w)
    BY <2>4, <2>5, <1>1 DEF Worlds, Rescanned, Waiting
  <2>7. Follows(w, n, s, R)
    BY <2>3, <2>4, <1>2 DEF Follows
  <2>8. ScannerHeld(v, j, R)
    BY <2>6, <2>7, RescannedHeld
  <2>9. ScannerHeld(Scan!ReportDone(v, n), j, R)
    <3>1. v.index = w.index
      BY <2>6 DEF Rescanned
    <3>2. InfoTrue(n, v.scan[n].info, v.index, R) /\ v.scan[n].info # "none"
      BY <3>1, <2>3, <2>4, <2>6, <1>4
    <3> QED
      BY <3>2, <2>3, <2>4, <2>6, <2>8, ReportDoneHeld
  <2>10. Scan!Start(w, n, as) = Scan!ReportDone(v, n)
    BY <2>2, <1>4 DEF Scan!Start
  <2> QED
    BY <2>9, <2>10
<1>5. CASE as = "there" /\ n \in Scan!Dirs
  <2>1. Scan!Start(w, n, as) = Scan!ScanDir(w, n)
    BY <1>5 DEF Scan!Start
  <2> QED
    BY <2>1, <1>5, ScanDirHeld
<1>6. CASE as = "there" /\ n \notin Scan!Dirs
  <2>1. Scan!Start(w, n, as) = Scan!ScanFile(w, n) /\ n \in Scan!Files
    BY <1>6, Forest DEF Scan!Start
  <2> QED
    BY <2>1, ScanFileHeld
<1>7. CASE as = "empty"
  <2>1. PICK s : s = [w.scan[n] EXCEPT !.st = "Running"]
    OBVIOUS
  <2>2. PICK v : v = [w EXCEPT !.scan[n].st = "Running"]
    OBVIOUS
  <2>3. s \in Scan!Scans /\ s.st = "Running" /\ s.item = 0 /\ ~s.timer
    BY <2>1, <1>1, <1>2 DEF Scan!Scans
  <2>4. v = [w EXCEPT !.scan = [w.scan EXCEPT ![n] = s]]
    BY <2>1, <2>2
  <2>5. v \in Worlds /\ Rescanned(v, w, n, s) /\ Waiting(v) = Waiting(w)
    BY <2>3, <2>4, <1>1 DEF Worlds, Rescanned, Waiting
  <2>6. Follows(w, n, s, R)
    BY <2>3, <1>2 DEF Follows
  <2>7. ScannerHeld(v, j, R)
    BY <2>5, <2>6, RescannedHeld
  <2>8. Told(Scan!Status(w, n, Scan!Blank, "Running"), v, j, R)
    BY <2>2, <2>7, StatusHeld
  <2>9. Scan!Start(w, n, as) = Scan!Status(w, n, Scan!Blank, "Running")
    BY <1>7 DEF Scan!Start, Scan!ScanEmpty, Scan!Report
  <2> QED
    BY <2>8, <2>9 DEF Told
<1> QED
  BY <1>3, <1>4, <1>5, <1>6, <1>7 DEF Scan!Sights

\* s follows on the Scan of f, whose item i is freed.
Freed(w, f, s, i) == [w EXCEPT !.scan[f] = s, !.items[i].live = FALSE]

\* The window frees the item of a Scan once the thread is done with it.
LEMMA FreedHeld ==
  ASSUME NEW w, NEW j, NEW R, ScannerHeld(w, j, R), NEW f \in Scan!Files,
         NEW i, i = w.scan[f].item, i # 0, w.items[i].done, NEW s \in Scan!Scans,
         s.st = "Running", s.item = 0, ~s.timer, NEW v, v = Freed(w, f, s, i)
  PROVE  /\ ScannerHeld(v, j, R) /\ v.scan[f] = s /\ v.chat = w.chat /\ v.index = w.index
<1>1. /\ w \in Worlds /\ ScansHeld(w) /\ TruthHeld(w, R) /\ ItemsHeld(w, j) /\ WorkHeld(w, j, R)
      /\ SentHeld(w) /\ w.failed \subseteq {"flush"} /\ j \in Works /\ R \subseteq Scan!Files
  BY DEF ScannerHeld
<1>2. f \in Scan!Nodes /\ f \notin Scan!Dirs
  BY Forest
<1>3. /\ w.scan[f].st = "Running" /\ i \in DOMAIN w.items /\ w.items[i].of = f
  BY <1>1, <1>2 DEF ScansHeld
<1>4. PICK its : its = [w.items EXCEPT ![i].live = FALSE]
  OBVIOUS
<1>5. w.items \in Seq(Scan!Items) /\ \A x \in DOMAIN w.items : w.items[x] \in Scan!Items
  BY <1>1 DEF Worlds
<1>6. [w.items[i] EXCEPT !.live = FALSE] \in Scan!Items
  BY <1>3, <1>5 DEF Scan!Items
<1>7. /\ its \in Seq(Scan!Items) /\ DOMAIN its = DOMAIN w.items
      /\ \A x \in DOMAIN w.items : x # i => its[x] = w.items[x]
      /\ its[i] = [w.items[i] EXCEPT !.live = FALSE]
  BY <1>3, <1>4, <1>5, <1>6
<1>8. /\ its[i].live = FALSE /\ its[i].done = w.items[i].done /\ its[i].of = w.items[i].of
      /\ its[i].err = w.items[i].err /\ its[i].data = w.items[i].data
  BY <1>3, <1>5, <1>7 DEF Scan!Items
<1>9. v = [w EXCEPT !.scan = [w.scan EXCEPT ![f] = s], !.items = its]
  BY <1>1, <1>4 DEF Worlds, Freed
<1>10. /\ v \in Worlds /\ v.scan[f] = s /\ v.items = its /\ v.queue = w.queue
       /\ \A m \in Scan!Nodes : m # f => v.scan[m] = w.scan[m]
       /\ v.chat = w.chat /\ v.sent = w.sent /\ v.index = w.index /\ v.failed = w.failed
  <2>1. PICK sc : sc = [w.scan EXCEPT ![f] = s]
    OBVIOUS
  <2>2. w \in Worlds /\ w.scan \in [Scan!Nodes -> Scan!Scans]
    BY <1>1 DEF Worlds
  <2>3. /\ sc \in [Scan!Nodes -> Scan!Scans] /\ sc[f] = s
        /\ \A m \in Scan!Nodes : m # f => sc[m] = w.scan[m]
    BY <2>1, <2>2, <1>2
  <2>4. v = [w EXCEPT !.scan = sc, !.items = its]
    BY <2>1, <1>9
  <2>5. /\ v \in Worlds /\ v.scan = sc /\ v.items = its /\ v.queue = w.queue
        /\ v.chat = w.chat /\ v.sent = w.sent /\ v.index = w.index /\ v.failed = w.failed
    BY <2>2, <2>3, <2>4, <1>7 DEF Worlds
  <2> QED
    BY <2>3, <2>5
\* Nobody else has the item, and the thread has it no longer before it.
<1>11. ~Ahead(w, j, i) /\ j.item # i
  BY <1>1, <1>3 DEF ItemsHeld, Ahead
<1>12. \A g \in Scan!Nodes : g # f => w.scan[g].item # i
  BY <1>1, <1>3 DEF ScansHeld
<1>13. ScansHeld(v)
  <2>1. \A m \in Scan!Nodes : v.scan[m].timer => v.scan[m].st \in {"Fresh", "Error"}
    BY <1>1, <1>10 DEF ScansHeld
  <2>2. ASSUME NEW m \in Scan!Nodes, v.scan[m].item # 0
        PROVE  /\ m \in Scan!Files /\ v.scan[m].st = "Running" /\ v.scan[m].item \in DOMAIN v.items
               /\ LET item == v.items[v.scan[m].item] IN item.of = m /\ item.live /\ ~item.cancel
    <3>1. m # f /\ v.scan[m] = w.scan[m] /\ w.scan[m].item # i
      BY <2>2, <1>10, <1>12
    <3>2. /\ m \in Scan!Files /\ w.scan[m].st = "Running" /\ w.scan[m].item \in DOMAIN w.items
          /\ LET item == w.items[w.scan[m].item] IN item.of = m /\ item.live /\ ~item.cancel
      BY <3>1, <2>2, <1>1 DEF ScansHeld
    <3>3. v.scan[m].item \in DOMAIN v.items /\ v.items[v.scan[m].item] = w.items[w.scan[m].item]
      BY <3>1, <3>2, <1>7, <1>10
    <3> QED
      BY <3>1, <3>2, <3>3
  <2>3. ASSUME NEW d \in Scan!Dirs, v.scan[d].st \in {"Absent", "Fresh", "Error"}, NEW m \in Scan!Part(d)
        PROVE  v.scan[m].st = "Absent"
    <3>1. d \in Scan!Nodes /\ m \in Scan!Nodes /\ d # f
      BY <1>2, Forest
    <3>2. w.scan[m].st = "Absent"
      BY <3>1, <2>3, <1>1, <1>10 DEF ScansHeld
    <3> QED
      BY <3>1, <3>2, <1>3, <1>10
  <2> QED
    BY <2>1, <2>2, <2>3 DEF ScansHeld
<1>14. TruthHeld(v, R)
  <2>1. \A m \in Scan!Nodes : v.scan[m].st = "Success" => v.scan[m].info # "none"
    BY <1>1, <1>10 DEF TruthHeld
  <2>2. \A g \in Scan!Files :
          /\ v.scan[g].st = "Success" => InfoTrue(g, v.scan[g].info, v.index, R)
          /\ InfoTrue(g, v.index.info[g], v.index, R) /\ v.index.chunks[g] \subseteq 1..Chunks[g]
    BY <1>1, <1>10, Forest DEF TruthHeld
  <2>3. ASSUME NEW d \in Scan!Dirs, v.scan[d].st = "Success"
        PROVE  /\ \A m \in Scan!Part(d) : v.scan[m].st = "Success"
               /\ v.scan[d].got = Scan!GotOf(v, d) /\ v.scan[d].tot = Scan!TotOf(v, d)
               /\ v.scan[d].nfiles = Scan!FilesOf(v, d)
    <3>1. d \in Scan!Nodes /\ d # f /\ v.scan[d] = w.scan[d]
      BY <1>2, <1>10, Forest
    <3>2. \A m \in Scan!Part(d) : m \in Scan!Nodes /\ w.scan[m].st = "Success"
      BY <3>1, <2>3, <1>1, Forest DEF TruthHeld
    <3>3. \A m \in Scan!Part(d) : v.scan[m] = w.scan[m]
      BY <3>2, <1>3, <1>10
    <3>4. /\ w.scan[d].got = Scan!GotOf(w, d) /\ w.scan[d].tot = Scan!TotOf(w, d)
          /\ w.scan[d].nfiles = Scan!FilesOf(w, d)
      BY <3>1, <2>3, <1>1 DEF TruthHeld
    <3> QED
      BY <3>1, <3>2, <3>3, <3>4, SumsKept
  <2>4. ASSUME NEW x \in DOMAIN v.items, v.items[x].done, v.items[x].err = ""
        PROVE  v.items[x].data # "none" /\ InfoTrue(v.items[x].of, v.items[x].data, v.index, R)
    <3>1. /\ x \in DOMAIN w.items /\ v.items[x].done = w.items[x].done /\ v.items[x].err = w.items[x].err
          /\ v.items[x].data = w.items[x].data /\ v.items[x].of = w.items[x].of
      BY <1>7, <1>8, <1>10
    <3>2. w.items[x].data # "none" /\ InfoTrue(w.items[x].of, w.items[x].data, w.index, R)
      BY <3>1, <2>4, <1>1 DEF TruthHeld
    <3> QED
      BY <3>1, <3>2, <1>10
  <2> QED
    BY <2>1, <2>2, <2>3, <2>4 DEF TruthHeld
<1>15. ItemsHeld(v, j)
  <2>1. \A x : Ahead(v, j, x) <=> Ahead(w, j, x)
    BY <1>10 DEF Ahead
  <2>2. \A x \in DOMAIN w.items : x # i => (Owned(v, x) <=> Owned(w, x))
    <3> TAKE x \in DOMAIN w.items
    <3>1. x # 0
      BY <1>5
    <3>2. \A g \in Scan!Files : g # f => v.scan[g].item = w.scan[g].item
      BY <1>10, Forest
    <3> QED
      BY <3>1, <3>2, <1>10 DEF Owned
  <2>3. ASSUME NEW x \in DOMAIN v.items
        PROVE  /\ v.items[x].live => \/ Owned(v, x)
                                     \/ v.items[x].cancel /\ (Ahead(v, j, x) \/ v.items[x].err = "open")
               /\ Owned(v, x) /\ ~v.items[x].done => Ahead(v, j, x)
               /\ Ahead(v, j, x) => v.items[x].live /\ ~v.items[x].done
    <3>1. CASE x = i
      BY <3>1, <2>1, <1>8, <1>10, <1>11
    <3>2. CASE x # i
      <4>1. x \in DOMAIN w.items /\ v.items[x] = w.items[x]
        BY <3>2, <1>7, <1>10
      <4> QED
        BY <4>1, <3>2, <2>1, <2>2, <1>1 DEF ItemsHeld
    <3> QED
      BY <3>1, <3>2
  <2>4. /\ \A k \in DOMAIN v.queue : v.queue[k] \in DOMAIN v.items /\ v.queue[k] # j.item
        /\ \A k, l \in DOMAIN v.queue : k # l => v.queue[k] # v.queue[l]
    BY <1>1, <1>7, <1>10 DEF ItemsHeld
  <2> QED
    BY <2>3, <2>4 DEF ItemsHeld
<1>16. WorkHeld(v, j, R)
  BY <1>1, <1>7, <1>10, <1>11 DEF WorkHeld
<1>17. SentHeld(v)
  <2>1. Waiting(v) = Waiting(w) /\ \A m \in Waiting(w) : m \in Scan!Nodes
    BY <1>10, Forest DEF Waiting
  <2>2. f \notin Waiting(w) /\ v.chat.at # "none"
    BY <1>1, <1>2, <1>3, <1>10 DEF SentHeld
  <2> QED
    BY <2>1, <2>2, <1>1, <1>10 DEF SentHeld
<1> QED
  BY <1>1, <1>10, <1>13, <1>14, <1>15, <1>16, <1>17 DEF ScannerHeld

\* What the thread has reported of a file is taken over.
LEMMA FileProgressHeld ==
  ASSUME NEW w, NEW j, NEW R, ScannerHeld(w, j, R), NEW f \in Scan!Files, f \notin Waiting(w)
  PROVE  ScannerHeld(Scan!FileProgress(w, f), j, R)
<1>1. PICK i : i = w.scan[f].item
  OBVIOUS
<1>2. CASE i = 0
  BY <1>1, <1>2 DEF Scan!FileProgress
<1>3. CASE i # 0
  <2>1. w \in Worlds /\ ScansHeld(w) /\ TruthHeld(w, R) /\ f \in Scan!Nodes /\ f \notin Scan!Dirs
    BY Forest DEF ScannerHeld
  <2>2. /\ w.scan[f].st = "Running" /\ i \in DOMAIN w.items
        /\ w.items[i].of = f /\ w.items[i].live
    BY <1>1, <1>3, <2>1 DEF ScansHeld
  <2>3. ~w.scan[f].timer
    BY <2>1, <2>2 DEF ScansHeld
  <2>4. w.scan[f] \in Scan!Scans /\ w.items[i] \in Scan!Items
    BY <2>1, <2>2 DEF Worlds
  <2>5. PICK item : item = w.items[i]
    OBVIOUS
  <2>6. CASE ~item.done
    <3>1. PICK s : s = [w.scan[f] EXCEPT !.got = item.got,
                             !.tot = IF item.got > w.scan[f].tot THEN item.got ELSE w.scan[f].tot]
      OBVIOUS
    <3>2. PICK u : u = [w EXCEPT !.scan[f] = s]
      OBVIOUS
    <3>3. PICK v : v = [u EXCEPT !.scan[f].st = "Running"]
      OBVIOUS
    <3>4. s \in Scan!Scans /\ s.st = "Running" /\ s.item = i /\ ~s.timer /\ s = [s EXCEPT !.st = "Running"]
      BY <3>1, <1>1, <2>2, <2>3, <2>4, <2>5 DEF Scan!Scans, Scan!Items
    <3>5. u.scan[f] = s
      BY <3>2, <2>1 DEF Worlds
    <3>6. v = [w EXCEPT !.scan = [w.scan EXCEPT ![f] = s]]
      BY <3>2, <3>3, <3>4, <2>1 DEF Worlds
    <3>7. v \in Worlds /\ Rescanned(v, w, f, s)
      BY <3>4, <3>6, <2>1 DEF Worlds, Rescanned
    <3>8. Follows(w, f, s, R)
      BY <3>4, <1>1, <2>1, <2>2 DEF Follows
    <3>9. ScannerHeld(v, j, R)
      BY <3>7, <3>8, <2>1, RescannedHeld
    <3>10. Told(Scan!Status(u, f, w.scan[f], "Running"), v, j, R)
      BY <3>3, <3>4, <3>5, <3>9, StatusHeld
    <3>11. Scan!FileProgress(w, f) = Scan!Status(u, f, w.scan[f], "Running")
      BY <3>1, <3>2, <1>1, <1>3, <2>2, <2>5, <2>6 DEF Scan!FileProgress, Scan!Report
    <3> QED
      BY <3>10, <3>11 DEF Told
  <2>7. CASE item.done
    <3>1. PICK s : s = [w.scan[f] EXCEPT !.got = item.got, !.tot = item.got, !.info = item.data, !.item = 0]
      OBVIOUS
    <3>2. PICK v : v = Freed(w, f, s, i)
      OBVIOUS
    <3>3. s \in Scan!Scans /\ s.st = "Running" /\ s.item = 0 /\ ~s.timer /\ s.info = item.data
      BY <3>1, <2>2, <2>3, <2>4, <2>5 DEF Scan!Scans, Scan!Items
    <3>4. ScannerHeld(v, j, R) /\ v.scan[f] = s /\ v.chat = w.chat /\ v.index = w.index
      <4>1. w.items[i].done
        BY <2>5, <2>7
      <4> QED
        BY <4>1, <3>2, <3>3, <1>1, <1>3, FreedHeld
    <3>5. f \notin Waiting(v)
      BY <3>4 DEF Waiting
    <3>6. /\ v = [w EXCEPT !.scan[f] = [w.scan[f] EXCEPT !.got = w.items[i].got, !.tot = w.items[i].got,
                                                        !.info = w.items[i].data, !.item = 0],
                          !.items[i].live = FALSE]
          /\ w.items[i].done /\ w.items[i].live /\ w.scan[f].st = "Running" /\ w.scan[f].item # 0
      BY <3>1, <3>2, <1>1, <1>3, <2>2, <2>5, <2>7 DEF Freed
    <3>7. CASE item.err # ""
      <4>1. Scan!FileProgress(w, f) = Scan!SetError(v, f)
        BY <3>6, <3>7, <1>1, <2>5 DEF Scan!FileProgress
      <4> QED
        BY <4>1, <3>3, <3>4, <3>5, <2>1, SetErrorHeld
    <3>8. CASE item.err = ""
      <4>1. item.data # "none" /\ InfoTrue(f, item.data, w.index, R)
        BY <3>8, <2>1, <2>2, <2>5, <2>7 DEF TruthHeld
      <4>2. Scan!FileProgress(w, f) = Scan!ReportDone(v, f)
        BY <3>6, <3>8, <1>1, <2>5 DEF Scan!FileProgress
      <4> QED
        BY <4>1, <4>2, <3>3, <3>4, <3>5, <3>8, <2>1, ReportDoneHeld
    <3> QED
      BY <3>7, <3>8
  <2> QED
    BY <2>6, <2>7
<1> QED
  BY <1>2, <1>3

\* A directory sums up what its entries report, and is done when they are.
LEMMA DirProgressHeld ==
  ASSUME NEW w, NEW j, NEW R, ScannerHeld(w, j, R), NEW d \in Scan!Dirs, d \notin Waiting(w)
  PROVE  ScannerHeld(Scan!DirProgress(w, d), j, R)
<1>1. CASE w.scan[d].st # "Running"
  BY <1>1 DEF Scan!DirProgress
<1>2. CASE w.scan[d].st = "Running"
  <2>1. w \in Worlds /\ ScansHeld(w) /\ d \in Scan!Nodes /\ d \notin Scan!Files /\ d \notin Scan!Part(d)
    BY Forest DEF ScannerHeld
  <2>2. w.scan[d] \in Scan!Scans /\ w.scan[d].item = 0 /\ ~w.scan[d].timer
    <3>1. w.scan[d] \in Scan!Scans
      BY <2>1 DEF Worlds
    <3>2. w.scan[d].item # 0 => d \in Scan!Files
      BY <2>1 DEF ScansHeld
    <3>3. w.scan[d].timer => w.scan[d].st \in {"Fresh", "Error"}
      BY <2>1 DEF ScansHeld
    <3> QED
      BY <3>1, <3>2, <3>3, <1>2, <2>1
  <2>3. PICK s : s = [w.scan[d] EXCEPT !.got = Scan!GotOf(w, d), !.tot = Scan!TotOf(w, d),
                                       !.nfiles = Scan!FilesOf(w, d)]
    OBVIOUS
  <2>4. PICK u : u = [w EXCEPT !.scan[d] = s]
    OBVIOUS
  <2>5. PICK v : v = [u EXCEPT !.scan[d].st = "Running"]
    OBVIOUS
  <2>6. Scan!GotOf(w, d) \in Nat /\ Scan!TotOf(w, d) \in Nat /\ Scan!FilesOf(w, d) \in Nat
    BY <2>1, SumsTyped
  <2>7. /\ s \in Scan!Scans /\ s.st = "Running" /\ s.item = 0 /\ ~s.timer /\ s = [s EXCEPT !.st = "Running"]
        /\ s.got = Scan!GotOf(w, d) /\ s.tot = Scan!TotOf(w, d) /\ s.nfiles = Scan!FilesOf(w, d)
    BY <1>2, <2>2, <2>3, <2>6 DEF Scan!Scans
  <2>8. u.scan[d] = s
    BY <2>1, <2>4 DEF Worlds
  <2>9. v = [w EXCEPT !.scan = [w.scan EXCEPT ![d] = s]]
    BY <2>1, <2>4, <2>5, <2>7 DEF Worlds
  <2>10. v \in Worlds /\ Rescanned(v, w, d, s)
    BY <2>1, <2>7, <2>9 DEF Worlds, Rescanned
  <2>11. Follows(w, d, s, R)
    BY <1>2, <2>2, <2>7 DEF Follows
  <2>12. ScannerHeld(v, j, R)
    BY <2>1, <2>10, <2>11, RescannedHeld
  <2>13. PICK r : r = Scan!Report(u, d, w.scan[d])
    OBVIOUS
  <2>14. Told(r, v, j, R)
    BY <2>5, <2>7, <2>8, <2>12, <2>13, StatusHeld DEF Scan!Report
  <2>15. /\ ScannerHeld(r, j, R) /\ r.scan[d] = s /\ d \notin Waiting(r)
         /\ \A n \in Scan!Nodes : n # d => r.scan[n] = w.scan[n]
    <3>1. r.scan = v.scan /\ r.chat.next = w.chat.next
      BY <2>10, <2>14 DEF Told, SameScans, Rescanned
    <3>2. v.scan[d] = s /\ \A n \in Scan!Nodes : n # d => v.scan[n] = w.scan[n]
      BY <2>1, <2>10 DEF Rescanned, Worlds
    <3> QED
      BY <3>1, <3>2, <2>14 DEF Told, Waiting
  <2>16. CASE ~\A n \in Scan!Part(d) : Scan!IsDone(w, n)
    <3>1. Scan!DirProgress(w, d) = r
      BY <1>2, <2>3, <2>4, <2>13, <2>16 DEF Scan!DirProgress
    <3> QED
      BY <3>1, <2>15
  <2>17. CASE \A n \in Scan!Part(d) : Scan!IsDone(w, n)
    <3>1. PICK is \in Scan!Infos \ {"none"} :
            is = IF \A n \in Scan!Part(d) : w.scan[n].info = "whole" THEN "whole" ELSE "hollow"
      BY DEF Scan!Infos
    <3>2. PICK t : t = [s EXCEPT !.info = is]
      OBVIOUS
    <3>3. PICK q : q = [r EXCEPT !.scan[d].info = is]
      OBVIOUS
    <3>4. r \in Worlds
      BY <2>15 DEF ScannerHeld
    <3>5. /\ t \in Scan!Scans /\ t.st = "Running" /\ t.item = 0 /\ ~t.timer /\ t.info = is
          /\ t.got = s.got /\ t.tot = s.tot /\ t.nfiles = s.nfiles
      BY <3>1, <3>2, <2>7 DEF Scan!Scans
    <3>6. q = [r EXCEPT !.scan = [r.scan EXCEPT ![d] = t]]
      BY <3>2, <3>3, <2>15
    <3>7. q \in Worlds /\ Rescanned(q, r, d, t) /\ q.scan[d] = t /\ Waiting(q) = Waiting(r)
      BY <3>4, <3>5, <3>6, <2>1 DEF Worlds, Rescanned, Waiting
    <3>8. Follows(r, d, t, R)
      BY <3>5, <2>7, <2>15 DEF Follows
    <3>9. ScannerHeld(q, j, R)
      BY <3>7, <3>8, <2>1, <2>15, RescannedHeld
    <3>10. \A n \in Scan!Part(d) : q.scan[n] = w.scan[n]
      <4> TAKE n \in Scan!Part(d)
      <4>1. n \in Scan!Nodes /\ n # d
        BY Forest
      <4> QED
        BY <4>1, <3>4, <3>7, <2>15 DEF Rescanned, Worlds
    <3>11. /\ Scan!GotOf(q, d) = Scan!GotOf(w, d) /\ Scan!TotOf(q, d) = Scan!TotOf(w, d)
           /\ Scan!FilesOf(q, d) = Scan!FilesOf(w, d)
      BY <3>10, SumsKept
    <3>12. \A n \in Scan!Part(d) : q.scan[n].st = "Success"
      BY <3>10, <2>17 DEF Scan!IsDone
    <3>13. ScannerHeld(Scan!ReportDone(q, d), j, R)
      BY <3>1, <3>5, <3>7, <3>9, <3>11, <3>12, <2>1, <2>7, <2>15, ReportDoneHeld
    <3>14. Scan!DirProgress(w, d) = Scan!ReportDone(q, d)
      BY <1>2, <2>3, <2>4, <2>13, <2>17, <3>1, <3>3 DEF Scan!DirProgress
    <3> QED
      BY <3>13, <3>14
  <2> QED
    BY <2>16, <2>17
<1> QED
  BY <1>1, <1>2

-----------------------------------------------------------------------------
(* The steps of the window's thread.                                       *)

\* v is w after the user has dropped something.
Dropping(v, w) ==
  /\ w.chat.at = "none" /\ v.chat.at = "scanning" /\ v.chat.next = 1
  /\ v.items = w.items /\ v.queue = w.queue /\ v.sent = w.sent /\ v.index = w.index
  /\ v.failed = w.failed
  /\ v.scan = [n \in Scan!Nodes |-> IF \E k \in DOMAIN Dropped : Dropped[k] = n
                                    THEN [Scan!Blank EXCEPT !.st = "Fresh"] ELSE w.scan[n]]

\* What the user drops gets its Scans, to be started.
LEMMA DropHeld ==
  ASSUME NEW w, NEW j, NEW R, ScannerHeld(w, j, R), NEW v \in Worlds, Dropping(v, w)
  PROVE  ScannerHeld(v, j, R)
<1>0. /\ w.chat.at = "none" /\ v.chat.at = "scanning" /\ v.chat.next = 1
      /\ v.items = w.items /\ v.queue = w.queue /\ v.sent = w.sent /\ v.index = w.index
      /\ v.failed = w.failed
  BY DEF Dropping
<1> PICK fresh : fresh = [Scan!Blank EXCEPT !.st = "Fresh"]
  OBVIOUS
<1>1. /\ w \in Worlds /\ ScansHeld(w) /\ TruthHeld(w, R) /\ ItemsHeld(w, j) /\ WorkHeld(w, j, R)
      /\ SentHeld(w) /\ w.failed \subseteq {"flush"} /\ j \in Works /\ R \subseteq Scan!Files
  BY DEF ScannerHeld
<1>2. \A n \in Scan!Nodes : w.scan[n].st = "Absent"
  BY <1>0, <1>1 DEF SentHeld
<1>3. \A n \in Scan!Nodes : w.scan[n].item = 0 /\ ~w.scan[n].timer
  BY <1>1, <1>2 DEF ScansHeld
<1>4. fresh.st = "Fresh" /\ fresh.item = 0 /\ fresh.timer = FALSE
  BY DEF Scan!Blank
<1>5. /\ \A n \in Scan!Nodes : v.scan[n] = fresh \/ v.scan[n] = w.scan[n]
      /\ \A k \in DOMAIN Dropped : v.scan[Dropped[k]] = fresh
      /\ \A d \in Scan!Dirs : \A n \in Scan!Part(d) : n \in Scan!Nodes /\ v.scan[n] = w.scan[n]
  <2>1. /\ \A n \in Scan!Nodes : v.scan[n] = IF \E k \in DOMAIN Dropped : Dropped[k] = n
                                            THEN fresh ELSE w.scan[n]
    BY DEF Dropping
  <2>2. \A k \in DOMAIN Dropped : Dropped[k] \in Scan!Nodes
    BY Forest
  <2>3. \A d \in Scan!Dirs : \A n \in Scan!Part(d) :
          n \in Scan!Nodes /\ \A k \in DOMAIN Dropped : Dropped[k] # n
    BY Forest
  <2> QED
    BY <2>1, <2>2, <2>3
<1>6. \A n \in Scan!Nodes : /\ v.scan[n].st \in {"Fresh", "Absent"} /\ v.scan[n].item = 0
                            /\ ~v.scan[n].timer
  BY <1>2, <1>3, <1>4, <1>5
<1>7. ScansHeld(v)
  <2>1. \A d \in Scan!Dirs : \A n \in Scan!Part(d) : v.scan[n].st = "Absent"
    BY <1>2, <1>5
  <2> QED
    BY <2>1, <1>6 DEF ScansHeld
<1>8. TruthHeld(v, R)
  <2>1. \A f \in Scan!Files :
          /\ v.scan[f].st = "Success" => InfoTrue(f, v.scan[f].info, v.index, R)
          /\ InfoTrue(f, v.index.info[f], v.index, R) /\ v.index.chunks[f] \subseteq 1..Chunks[f]
    BY <1>0, <1>1, <1>6, Forest DEF TruthHeld
  <2>2. \A i \in DOMAIN v.items : v.items[i].done /\ v.items[i].err = "" =>
          v.items[i].data # "none" /\ InfoTrue(v.items[i].of, v.items[i].data, v.index, R)
    BY <1>0, <1>1 DEF TruthHeld
  <2>3. \A n \in Scan!Nodes : v.scan[n].st # "Success"
    BY <1>6
  <2>4. \A d \in Scan!Dirs : v.scan[d].st # "Success"
    BY <2>3, Forest
  <2> QED
    BY <2>1, <2>2, <2>3, <2>4 DEF TruthHeld
<1>9. ItemsHeld(v, j)
  <2>1. \A i : Owned(v, i) <=> Owned(w, i)
    BY <1>3, <1>6, Forest DEF Owned
  <2>2. \A i : Ahead(v, j, i) <=> Ahead(w, j, i)
    BY <1>0 DEF Ahead
  <2> QED
    BY <2>1, <2>2, <1>0, <1>1 DEF ItemsHeld
<1>10. WorkHeld(v, j, R)
  BY <1>0, <1>1 DEF WorkHeld
<1>11. SentHeld(v)
  <2>1. \A n \in Waiting(v) : v.scan[n] = fresh
    BY <1>5 DEF Waiting
  <2>2. w.sent = <<>>
    BY <1>0, <1>1 DEF SentHeld
  <2>3. DOMAIN v.sent = {} /\ Len(v.sent) = 0
    BY <2>2, <1>0
  <2>4. v.sent = <<>> /\ v.chat.at = "scanning"
    BY <2>2, <1>0
  <2>5. \A n \in Waiting(v) : v.scan[n].st = "Fresh" /\ ~v.scan[n].timer
    BY <2>1, <1>4
  <2> QED
    BY <2>3, <2>4, <2>5 DEF SentHeld
<1> QED
  BY <1>0, <1>1, <1>7, <1>8, <1>9, <1>10, <1>11 DEF ScannerHeld

\* v is w after the ChatScanner has deleted the Scan of n, with the item i.
Deleting(v, w, n, i) ==
  /\ w.chat.at = "going" /\ w.scan[n].st \notin {"Absent", "Deleted"} /\ i = w.scan[n].item
  /\ \A d \in Scan!Dirs : n \in Scan!Part(d) => w.scan[d].st \in {"Absent", "Deleted"}
  /\ v.scan = [w.scan EXCEPT ![n] = [Scan!Blank EXCEPT !.st = "Deleted"]]
  /\ v.items = IF i = 0 THEN w.items ELSE [w.items EXCEPT ![i] = Scan!Destroy(w.items[i])]
  /\ v.queue = w.queue /\ v.sent = w.sent /\ v.index = w.index /\ v.failed = w.failed
  /\ v.chat.at \in {"going", "gone"} /\ v.chat.next = w.chat.next

\* The ChatScanner deletes a Scan whose directory's Scan is gone: its item goes
\* along, or is left to the thread.
LEMMA DeleteScanHeld ==
  ASSUME NEW w, NEW j, NEW R, ScannerHeld(w, j, R), NEW n \in Scan!Nodes, NEW i,
         NEW v \in Worlds, Deleting(v, w, n, i)
  PROVE  ScannerHeld(v, j, R)
<1>0. /\ w.chat.at = "going" /\ w.scan[n].st \notin {"Absent", "Deleted"} /\ i = w.scan[n].item
      /\ v.queue = w.queue /\ v.sent = w.sent /\ v.index = w.index /\ v.failed = w.failed
      /\ v.chat.at \in {"going", "gone"} /\ v.chat.next = w.chat.next
  BY DEF Deleting
<1> PICK gone : gone = [Scan!Blank EXCEPT !.st = "Deleted"]
  OBVIOUS
<1>1. /\ w \in Worlds /\ ScansHeld(w) /\ TruthHeld(w, R) /\ ItemsHeld(w, j) /\ WorkHeld(w, j, R)
      /\ SentHeld(w) /\ w.failed \subseteq {"flush"} /\ j \in Works /\ R \subseteq Scan!Files
  BY DEF ScannerHeld
<1>2. gone.st = "Deleted" /\ gone.item = 0 /\ gone.timer = FALSE
  BY DEF Scan!Blank
<1>3. v.scan[n] = gone /\ \A m \in Scan!Nodes : m # n => v.scan[m] = w.scan[m]
  BY <1>1 DEF Worlds, Deleting
<1>4. /\ w.items \in Seq(Scan!Items) /\ \A x \in DOMAIN w.items : w.items[x] \in Scan!Items /\ x # 0
  BY <1>1 DEF Worlds
<1>5. DOMAIN v.items = DOMAIN w.items /\ \A x \in DOMAIN w.items : x # i => v.items[x] = w.items[x]
  BY <1>4 DEF Deleting
<1>6. \A m \in Scan!Nodes : m # n /\ w.scan[m].item # 0 => w.scan[m].item # i
  BY <1>0, <1>1 DEF ScansHeld
\* The item, if there is one.
<1>7. i # 0 => /\ i \in DOMAIN w.items /\ n \in Scan!Files /\ Owned(w, i)
               /\ v.items[i] = Scan!Destroy(w.items[i])
  BY <1>0, <1>1, <1>4 DEF ScansHeld, Owned, Deleting
<1>8. \A x \in DOMAIN w.items :
        /\ v.items[x].of = w.items[x].of /\ v.items[x].done = w.items[x].done
        /\ v.items[x].err = w.items[x].err /\ v.items[x].data = w.items[x].data
        /\ w.items[x].cancel => v.items[x].cancel
        /\ v.items[x].live => w.items[x].live
        /\ x = i /\ w.items[x].done => v.items[x].live = FALSE
        /\ x = i /\ ~w.items[x].done => v.items[x].cancel = TRUE /\ v.items[x].live = w.items[x].live
  <2> TAKE x \in DOMAIN w.items
  <2>1. CASE x # i
    BY <2>1, <1>5
  <2>2. CASE x = i
    <3>1. w.items[x] \in Scan!Items /\ v.items[x] = Scan!Destroy(w.items[x])
      BY <2>2, <1>4, <1>7
    <3> QED
      BY <3>1, <2>2 DEF Scan!Destroy, Scan!Items
  <2> QED
    BY <2>1, <2>2
<1>9. ScansHeld(v)
  <2>1. \A m \in Scan!Nodes : v.scan[m].timer => v.scan[m].st \in {"Fresh", "Error"}
    BY <1>1, <1>2, <1>3 DEF ScansHeld
  <2>2. ASSUME NEW m \in Scan!Nodes, v.scan[m].item # 0
        PROVE  /\ m \in Scan!Files /\ v.scan[m].st = "Running" /\ v.scan[m].item \in DOMAIN v.items
               /\ LET item == v.items[v.scan[m].item] IN item.of = m /\ item.live /\ ~item.cancel
    <3>1. m # n /\ v.scan[m] = w.scan[m] /\ w.scan[m].item # i
      BY <2>2, <1>2, <1>3, <1>6
    <3>2. /\ m \in Scan!Files /\ w.scan[m].st = "Running" /\ w.scan[m].item \in DOMAIN w.items
          /\ LET item == w.items[w.scan[m].item] IN item.of = m /\ item.live /\ ~item.cancel
      BY <3>1, <2>2, <1>1 DEF ScansHeld
    <3>3. v.items[v.scan[m].item] = w.items[w.scan[m].item]
      BY <3>1, <3>2, <1>5
    <3> QED
      BY <3>1, <3>2, <3>3, <1>5
  <2>3. ASSUME NEW d \in Scan!Dirs, v.scan[d].st \in {"Absent", "Fresh", "Error"}, NEW m \in Scan!Part(d)
        PROVE  v.scan[m].st = "Absent"
    <3>1. d \in Scan!Nodes /\ m \in Scan!Nodes /\ d # n
      BY <2>3, <1>2, <1>3, Forest
    <3>2. w.scan[m].st = "Absent"
      BY <3>1, <2>3, <1>1, <1>3 DEF ScansHeld
    <3> QED
      BY <3>1, <3>2, <1>0, <1>3
  <2> QED
    BY <2>1, <2>2, <2>3 DEF ScansHeld
<1>10. TruthHeld(v, R)
  <2>1. \A m \in Scan!Nodes : v.scan[m].st = "Success" => v.scan[m].info # "none"
    BY <1>1, <1>2, <1>3 DEF TruthHeld
  <2>2. \A f \in Scan!Files :
          /\ v.scan[f].st = "Success" => InfoTrue(f, v.scan[f].info, v.index, R)
          /\ InfoTrue(f, v.index.info[f], v.index, R) /\ v.index.chunks[f] \subseteq 1..Chunks[f]
    BY <1>0, <1>1, <1>2, <1>3, Forest DEF TruthHeld
  <2>3. ASSUME NEW d \in Scan!Dirs, v.scan[d].st = "Success"
        PROVE  /\ \A m \in Scan!Part(d) : v.scan[m].st = "Success"
               /\ v.scan[d].got = Scan!GotOf(v, d) /\ v.scan[d].tot = Scan!TotOf(v, d)
               /\ v.scan[d].nfiles = Scan!FilesOf(v, d)
    <3>1. d \in Scan!Nodes /\ d # n /\ v.scan[d] = w.scan[d] /\ n \notin Scan!Part(d)
      BY <2>3, <1>2, <1>3, Forest DEF Deleting
    <3>2. \A m \in Scan!Part(d) : m \in Scan!Nodes /\ w.scan[m].st = "Success"
      BY <3>1, <2>3, <1>1, Forest DEF TruthHeld
    <3>3. \A m \in Scan!Part(d) : v.scan[m] = w.scan[m]
      BY <3>1, <3>2, <1>3
    <3>4. /\ w.scan[d].got = Scan!GotOf(w, d) /\ w.scan[d].tot = Scan!TotOf(w, d)
          /\ w.scan[d].nfiles = Scan!FilesOf(w, d)
      BY <3>1, <2>3, <1>1 DEF TruthHeld
    <3> QED
      BY <3>1, <3>2, <3>3, <3>4, SumsKept
  <2>4. ASSUME NEW x \in DOMAIN v.items, v.items[x].done, v.items[x].err = ""
        PROVE  v.items[x].data # "none" /\ InfoTrue(v.items[x].of, v.items[x].data, v.index, R)
    <3>1. x \in DOMAIN w.items /\ w.items[x].done /\ w.items[x].err = ""
      BY <2>4, <1>5, <1>8
    <3>2. w.items[x].data # "none" /\ InfoTrue(w.items[x].of, w.items[x].data, w.index, R)
      BY <3>1, <1>1 DEF TruthHeld
    <3> QED
      BY <3>1, <3>2, <1>0, <1>8
  <2> QED
    BY <2>1, <2>2, <2>3, <2>4 DEF TruthHeld
<1>11. ItemsHeld(v, j)
  <2>1. \A x : Ahead(v, j, x) <=> Ahead(w, j, x)
    BY <1>0 DEF Ahead
  <2>2. \A x \in DOMAIN w.items : x # i => (Owned(v, x) <=> Owned(w, x))
    <3> TAKE x \in DOMAIN w.items
    <3>1. \A g \in Scan!Files : g # n => v.scan[g].item = w.scan[g].item
      BY <1>3, Forest
    <3>2. x # 0 /\ v.scan[n].item = 0
      BY <1>2, <1>3, <1>4
    <3> QED
      BY <3>1, <3>2, <1>0 DEF Owned
  <2>3. i # 0 => ~Owned(v, i)
    <3>1. \A g \in Scan!Files : v.scan[g].item = 0 \/ v.scan[g].item # i
      BY <1>2, <1>3, <1>6, Forest
    <3> QED
      BY <3>1 DEF Owned
  <2>4. ASSUME NEW x \in DOMAIN v.items
        PROVE  /\ v.items[x].live => \/ Owned(v, x)
                                     \/ v.items[x].cancel /\ (Ahead(v, j, x) \/ v.items[x].err = "open")
               /\ Owned(v, x) /\ ~v.items[x].done => Ahead(v, j, x)
               /\ Ahead(v, j, x) => v.items[x].live /\ ~v.items[x].done
    <3>0. x \in DOMAIN w.items
      BY <1>5
    <3>1. CASE x # i
      <4>1. v.items[x] = w.items[x]
        BY <3>0, <3>1, <1>5
      <4> QED
        BY <4>1, <3>0, <3>1, <2>1, <2>2, <1>1 DEF ItemsHeld
    <3>2. CASE x = i
      <4>1. x # 0 /\ Owned(w, x) /\ ~Owned(v, x)
        BY <3>0, <3>2, <2>3, <1>4, <1>7
      <4>2. /\ ~w.items[x].done => Ahead(w, j, x)
            /\ Ahead(w, j, x) => w.items[x].live /\ ~w.items[x].done
        BY <4>1, <3>0, <1>1 DEF ItemsHeld
      <4> QED
        BY <4>1, <4>2, <3>0, <3>2, <2>1, <1>8
    <3> QED
      BY <3>1, <3>2
  <2>5. /\ \A k \in DOMAIN v.queue : v.queue[k] \in DOMAIN v.items /\ v.queue[k] # j.item
        /\ \A k, l \in DOMAIN v.queue : k # l => v.queue[k] # v.queue[l]
    BY <1>0, <1>1, <1>5 DEF ItemsHeld
  <2> QED
    BY <2>4, <2>5 DEF ItemsHeld
<1>12. WorkHeld(v, j, R)
  <2>1. j.item # 0 => /\ j.item \in DOMAIN w.items /\ v.items[j.item].of = w.items[j.item].of
                      /\ w.items[j.item].cancel => v.items[j.item].cancel
    BY <1>1, <1>8 DEF WorkHeld
  <2> QED
    BY <2>1, <1>0, <1>1, <1>5 DEF WorkHeld
<1>13. SentHeld(v)
  <2>1. v.chat.next = 0
    BY <1>0, <1>1 DEF SentHeld
  <2>2. Waiting(v) = {}
    BY <2>1 DEF Waiting
  <2> QED
    BY <2>1, <2>2, <1>0, <1>1 DEF SentHeld
<1> QED
  BY <1>0, <1>1, <1>9, <1>10, <1>11, <1>12, <1>13 DEF ScannerHeld

\* What the window's thread and the scanner's have before them is sound.
HeldNow == ScannerHeld(Scan!World, work, refused) /\ faults \in 0..MaxFaults

\* The state of the window, before and after a step.
LEMMA Now ==
  /\ Scan!World.scan = scan /\ Scan!World.items = items /\ Scan!World.queue = queue
  /\ Scan!World.posted = posted /\ Scan!World.chat = chat /\ Scan!World.sent = sent
  /\ Scan!World.index = index /\ Scan!World.failed = failed
BY DEF Scan!World

LEMMA Then ==
  /\ Scan!World'.scan = scan' /\ Scan!World'.items = items' /\ Scan!World'.queue = queue'
  /\ Scan!World'.posted = posted' /\ Scan!World'.chat = chat' /\ Scan!World'.sent = sent'
  /\ Scan!World'.index = index' /\ Scan!World'.failed = failed'
BY DEF Scan!World

LEMMA Became ==
  ASSUME NEW v \in Worlds, Scan!Become(v)
  PROVE  Scan!World' = v
BY DEF Scan!World, Scan!Become, Worlds

\* What types the window's state has after a step.
LEMMA Typed ==
  ASSUME scan' \in [Scan!Nodes -> Scan!Scans], items' \in Seq(Scan!Items), queue' \in Seq(Nat),
         posted' \in Seq(Scan!Events),
         chat' \in [at : {"none", "scanning", "sent", "going", "gone"}, cancelled : BOOLEAN,
                   next : 0..Len(Dropped)],
         sent' \in Seq(Seq(Scan!Infos)),
         index' \in [chunks : [Scan!Files -> SUBSET Nat], info : [Scan!Nodes -> Scan!Infos]],
         failed' \subseteq {"running", "item", "done", "freed", "flush", "status"}
  PROVE  Scan!World' \in Worlds
BY DEF Scan!World, Worlds

LEMMA TypedNow ==
  ASSUME Scan!World \in Worlds
  PROVE  /\ scan \in [Scan!Nodes -> Scan!Scans] /\ items \in Seq(Scan!Items) /\ queue \in Seq(Nat)
         /\ posted \in Seq(Scan!Events)
         /\ chat \in [at : {"none", "scanning", "sent", "going", "gone"}, cancelled : BOOLEAN,
                      next : 0..Len(Dropped)]
         /\ sent \in Seq(Seq(Scan!Infos))
         /\ index \in [chunks : [Scan!Files -> SUBSET Nat], info : [Scan!Nodes -> Scan!Infos]]
         /\ failed \subseteq {"running", "item", "done", "freed", "flush", "status"}
BY DEF Scan!World, Worlds

LEMMA DropStep == ASSUME HeldNow, Scan!Drop PROVE HeldNow'
<1>1. PICK w : w = Scan!World
  OBVIOUS
<1>2. PICK v : v = Scan!World'
  OBVIOUS
<1>3. ScannerHeld(w, work, refused) /\ w \in Worlds
  BY <1>1 DEF HeldNow, ScannerHeld
<1>4. PICK sc : sc = [n \in Scan!Nodes |-> IF \E k \in DOMAIN Dropped : Dropped[k] = n
                                          THEN [Scan!Blank EXCEPT !.st = "Fresh"] ELSE w.scan[n]]
  OBVIOUS
<1>5. sc \in [Scan!Nodes -> Scan!Scans]
  <2>1. [Scan!Blank EXCEPT !.st = "Fresh"] \in Scan!Scans
    BY DEF Scan!Blank, Scan!Scans, Scan!Infos
  <2>2. \A n \in Scan!Nodes : w.scan[n] \in Scan!Scans
    BY <1>3 DEF Worlds
  <2> QED
    BY <2>1, <2>2, <1>4
<1>6. PICK c : c = [w.chat EXCEPT !.at = "scanning", !.next = 1]
  OBVIOUS
<1>7. /\ c \in [at : {"none", "scanning", "sent", "going", "gone"}, cancelled : BOOLEAN,
                next : 0..Len(Dropped)] /\ c.at = "scanning" /\ c.next = 1
  <2>1. 1 \in 0..Len(Dropped)
    BY Forest
  <2> QED
    BY <2>1, <1>3, <1>6 DEF Worlds
<1>8. /\ scan' = sc /\ chat' = c /\ items' = items /\ queue' = queue /\ posted' = posted
      /\ sent' = sent /\ index' = index /\ failed' = failed /\ chat.at = "none"
  BY <1>1, <1>4, <1>6, Now DEF Scan!Drop
<1>9. v \in Worlds /\ Dropping(v, w)
  <2>1. v \in Worlds
    BY <1>1, <1>2, <1>3, <1>5, <1>7, <1>8, Typed, TypedNow
  <2> QED
    BY <2>1, <1>1, <1>2, <1>4, <1>7, <1>8, Now, Then DEF Dropping
<1>10. ScannerHeld(v, work, refused)
  BY <1>3, <1>9, DropHeld
<1> QED
  BY <1>2, <1>10 DEF HeldNow, Scan!Drop

\* A Scan that may start is started, with what is found at its path.
LEMMA StartsStep ==
  ASSUME NEW w, ScannerHeld(w, work, refused), faults \in 0..MaxFaults, NEW n \in Scan!Nodes,
         n \notin Waiting(w), w.scan[n].st \in {"Fresh", "Error"}, ~w.scan[n].timer,
         w.index = index, NEW as \in Scan!Sights, Scan!Starts(w, n, as)
  PROVE  HeldNow'
<1>1. (as = "same" => n \in Scan!Files /\ w.index.info[n] # "none") /\ (as = "empty" => n \in Scan!Dirs)
  BY DEF Scan!Starts, Scan!Found
<1>2. PICK v : v = Scan!Start(w, n, as)
  OBVIOUS
<1>3. ScannerHeld(v, work, refused)
  BY <1>1, <1>2, StartHeld
<1>4. v \in Worlds
  BY <1>3 DEF ScannerHeld
<1>5. Scan!World' = v
  BY <1>2, <1>4, Became DEF Scan!Starts
<1>6. faults' \in 0..MaxFaults
  <2>1. CASE as \in {"missing", "odd", "empty"}
    <3>1. faults < MaxFaults /\ faults' = faults + 1
      BY <2>1 DEF Scan!Starts, Scan!Found
    <3> QED
      BY <3>1, Forest
  <2>2. CASE as \notin {"missing", "odd", "empty"}
    <3>1. faults' = faults + 0
      BY <2>2 DEF Scan!Starts
    <3> QED
      BY <3>1, Forest
  <2> QED
    BY <2>1, <2>2
<1> QED
  BY <1>3, <1>5, <1>6 DEF HeldNow, Scan!Starts

LEMMA StartNextStep ==
  ASSUME HeldNow, NEW as \in Scan!Sights, Scan!StartNext(as) PROVE HeldNow'
<1>1. PICK w : w = Scan!World
  OBVIOUS
<1>2. PICK n : n = Dropped[chat.next]
  OBVIOUS
<1>3. PICK v : v = [w EXCEPT !.chat.next = IF @ = Len(Dropped) THEN 0 ELSE @ + 1]
  OBVIOUS
<1>4. ScannerHeld(w, work, refused) /\ w \in Worlds /\ SentHeld(w) /\ w.chat = chat /\ w.index = index
  BY <1>1, Now DEF HeldNow, ScannerHeld
<1>5. PICK x : x = IF w.chat.next = Len(Dropped) THEN 0 ELSE w.chat.next + 1
  OBVIOUS
<1>6. Len(Dropped) \in Nat /\ DOMAIN Dropped = 1..Len(Dropped) /\ w.chat.next \in 1..Len(Dropped)
  BY <1>4, Forest DEF Scan!StartNext, Worlds
<1>7. x \in 0..Len(Dropped)
  BY <1>5, <1>6
<1>8. v = [w EXCEPT !.chat = [w.chat EXCEPT !.next = x]]
  BY <1>3, <1>5
<1>9. /\ v \in Worlds /\ SameScans(v, w) /\ v.sent = w.sent
      /\ v.chat.at = w.chat.at /\ v.chat.next = x
  BY <1>4, <1>7, <1>8 DEF Worlds, SameScans
<1>10. Waiting(v) \subseteq Waiting(w) /\ n \in Waiting(w) /\ n \in Scan!Nodes
  <2>1. \A k \in DOMAIN Dropped : x # 0 /\ x <= k => w.chat.next # 0 /\ w.chat.next <= k
    BY <1>5, <1>6
  <2>2. n = Dropped[w.chat.next] /\ w.chat.next \in DOMAIN Dropped /\ w.chat.next # 0
    BY <1>2, <1>4, <1>6
  <2> QED
    BY <2>1, <2>2, <1>6, <1>9, Forest DEF Waiting
<1>11. n \notin Waiting(v)
  <2>1. \A k \in DOMAIN Dropped : x # 0 /\ x <= k => k # w.chat.next
    BY <1>5, <1>6
  <2>2. n = Dropped[w.chat.next] /\ w.chat.next \in DOMAIN Dropped
    BY <1>2, <1>4, <1>6
  <2> QED
    BY <2>1, <2>2, <1>9, Forest DEF Waiting
<1>12. SentHeld(v)
  BY <1>4, <1>6, <1>9, <1>10 DEF SentHeld, SameScans
<1>13. ScannerHeld(v, work, refused)
  BY <1>4, <1>9, <1>12, ScansKept
<1>14. v.scan[n].st = "Fresh" /\ ~v.scan[n].timer /\ v.index = index
  BY <1>4, <1>9, <1>10 DEF SentHeld, SameScans
<1>15. Scan!Starts(v, n, as) /\ faults \in 0..MaxFaults
  BY <1>1, <1>2, <1>3 DEF Scan!StartNext, HeldNow
<1> QED
  BY <1>10, <1>11, <1>13, <1>14, <1>15, StartsStep

LEMMA RetryStep ==
  ASSUME HeldNow, NEW n \in Scan!Nodes, NEW as \in Scan!Sights, Scan!RetryTimeout(n, as) PROVE HeldNow'
<1>1. PICK w : w = Scan!World
  OBVIOUS
<1>2. PICK s : s = [w.scan[n] EXCEPT !.timer = FALSE]
  OBVIOUS
<1>3. PICK v : v = [w EXCEPT !.scan[n].timer = FALSE]
  OBVIOUS
<1>4. /\ ScannerHeld(w, work, refused) /\ w \in Worlds /\ ScansHeld(w) /\ w.scan = scan /\ w.chat = chat
      /\ w.index = index
  BY <1>1, Now DEF HeldNow, ScannerHeld
<1>5. w.scan[n] \in Scan!Scans /\ w.scan[n].st \in {"Fresh", "Error"}
  BY <1>4 DEF Worlds, ScansHeld, Scan!RetryTimeout
<1>6. w.scan[n].item = 0 /\ (n \in Scan!Dirs => \A m \in Scan!Part(n) : w.scan[m].st = "Absent")
  BY <1>4, <1>5 DEF ScansHeld
<1>7. Waiting(w) = {}
  BY <1>4 DEF Waiting, Scan!RetryTimeout, Scan!Free
<1>8. /\ s \in Scan!Scans /\ s.st = w.scan[n].st /\ s.item = 0 /\ s.timer = FALSE
  BY <1>2, <1>5, <1>6 DEF Scan!Scans
<1>9. v = [w EXCEPT !.scan = [w.scan EXCEPT ![n] = s]]
  BY <1>2, <1>3
<1>10. v \in Worlds /\ Rescanned(v, w, n, s) /\ v.scan[n] = s /\ Waiting(v) = {} /\ v.index = index
  BY <1>4, <1>7, <1>8, <1>9 DEF Worlds, Rescanned, Waiting
<1>11. Follows(w, n, s, refused)
  BY <1>5, <1>6, <1>8 DEF Follows
<1>12. ScannerHeld(v, work, refused)
  BY <1>4, <1>7, <1>10, <1>11, RescannedHeld
<1>13. Scan!Starts(v, n, as) /\ faults \in 0..MaxFaults
  BY <1>1, <1>3 DEF Scan!RetryTimeout, HeldNow
<1> QED
  BY <1>5, <1>8, <1>10, <1>12, <1>13, StartsStep

LEMMA DeliverStep == ASSUME HeldNow, Scan!Deliver PROVE HeldNow'
<1>1. PICK w : w = Scan!World
  OBVIOUS
<1>2. PICK e : e = Head(posted)
  OBVIOUS
<1>3. PICK u : u = [w EXCEPT !.posted = Tail(@)]
  OBVIOUS
<1>4. /\ ScannerHeld(w, work, refused) /\ w \in Worlds /\ SentHeld(w) /\ w.posted = posted /\ w.chat = chat
  BY <1>1, Now DEF HeldNow, ScannerHeld
<1>5. posted \in Seq(Scan!Events) /\ posted # <<>>
  BY <1>4 DEF Worlds, Scan!Deliver
<1>6. e \in Scan!Events /\ Tail(posted) \in Seq(Scan!Events)
  BY <1>2, <1>5
<1>7. u = [w EXCEPT !.posted = Tail(posted)]
  BY <1>3, <1>4
<1>8. u \in Worlds /\ SameScans(u, w) /\ u.chat = w.chat /\ u.sent = w.sent
  BY <1>4, <1>6, <1>7 DEF Worlds, SameScans
<1>9. SentHeld(u) /\ Waiting(u) = {} /\ u.chat.next = 0
  BY <1>4, <1>8 DEF SentHeld, SameScans, Waiting, Scan!Deliver, Scan!Free
<1>10. ScannerHeld(u, work, refused)
  BY <1>4, <1>8, <1>9, ScansKept
<1>11. PICK v : v = CASE e.what = "file" -> Scan!FileProgress(u, e.to)
                      [] e.what = "dir" -> Scan!DirProgress(u, e.to)
                      [] OTHER -> [u EXCEPT !.chat.at = "going"]
  OBVIOUS
<1>12. ScannerHeld(v, work, refused)
  <2>1. CASE e.what = "file"
    <3>1. e.to \in Scan!Files
      BY <2>1, <1>6 DEF Scan!Events
    <3>2. v = Scan!FileProgress(u, e.to)
      BY <2>1, <1>11
    <3> QED
      BY <3>1, <3>2, <1>9, <1>10, FileProgressHeld
  <2>2. CASE e.what = "dir"
    <3>1. e.to \in Scan!Dirs
      BY <2>2, <1>6 DEF Scan!Events
    <3>2. v = Scan!DirProgress(u, e.to)
      BY <2>2, <1>11
    <3> QED
      BY <3>1, <3>2, <1>9, <1>10, DirProgressHeld
  <2>3. CASE e.what \notin {"file", "dir"}
    <3>1. v = [u EXCEPT !.chat = [u.chat EXCEPT !.at = "going"]]
      BY <2>3, <1>11
    <3>2. /\ v \in Worlds /\ SameScans(v, u) /\ v.sent = u.sent
          /\ v.chat.at = "going" /\ v.chat.next = u.chat.next
      BY <3>1, <1>8 DEF Worlds, SameScans
    <3>3. SentHeld(v)
      BY <3>2, <1>9 DEF SentHeld, Waiting
    <3> QED
      BY <3>2, <3>3, <1>10, ScansKept
  <2> QED
    BY <2>1, <2>2, <2>3
<1>13. Scan!Become(v)
  BY <1>1, <1>2, <1>3, <1>11 DEF Scan!Deliver
<1>14. Scan!World' = v
  BY <1>12, <1>13, Became DEF ScannerHeld
<1> QED
  BY <1>12, <1>14 DEF HeldNow, Scan!Deliver

LEMMA CancelStep == ASSUME HeldNow, Scan!Cancel PROVE HeldNow'
<1>1. PICK w : w = Scan!World
  OBVIOUS
<1>2. PICK u : u = [w EXCEPT !.chat.cancelled = TRUE]
  OBVIOUS
<1>3. PICK v : v = Scan!DeleteLater(u)
  OBVIOUS
<1>4. /\ ScannerHeld(w, work, refused) /\ w \in Worlds /\ SentHeld(w)
  BY <1>1 DEF HeldNow, ScannerHeld
<1>5. u = [w EXCEPT !.chat = [w.chat EXCEPT !.cancelled = TRUE]]
  BY <1>2
<1>6. /\ u \in Worlds /\ SameScans(u, w) /\ u.sent = w.sent
      /\ u.chat.at = w.chat.at /\ u.chat.next = w.chat.next
  BY <1>4, <1>5 DEF Worlds, SameScans
<1>7. SentHeld(u)
  BY <1>4, <1>6 DEF SentHeld, SameScans, Waiting
<1>8. ScannerHeld(v, work, refused)
  BY <1>3, <1>4, <1>6, <1>7, ScansKept, DeleteLaterHeld DEF Told
<1>9. Scan!Become(v)
  BY <1>1, <1>2, <1>3 DEF Scan!Cancel
<1>10. Scan!World' = v
  BY <1>8, <1>9, Became DEF ScannerHeld
<1> QED
  BY <1>8, <1>10 DEF HeldNow, Scan!Cancel

LEMMA DeleteScanStep ==
  ASSUME HeldNow, NEW n \in Scan!Nodes, Scan!DeleteScan(n) PROVE HeldNow'
<1>1. PICK w : w = Scan!World
  OBVIOUS
<1>2. PICK v : v = Scan!World'
  OBVIOUS
<1>3. PICK i : i = w.scan[n].item
  OBVIOUS
<1>4. /\ ScannerHeld(w, work, refused) /\ w \in Worlds /\ ScansHeld(w)
  BY <1>1 DEF HeldNow, ScannerHeld
<1>5. PICK its : its = IF i = 0 THEN w.items ELSE [w.items EXCEPT ![i] = Scan!Destroy(w.items[i])]
  OBVIOUS
<1>6. its \in Seq(Scan!Items)
  <2>1. i # 0 => i \in DOMAIN w.items
    BY <1>3, <1>4 DEF ScansHeld
  <2>2. w.items \in Seq(Scan!Items) /\ \A x \in DOMAIN w.items : w.items[x] \in Scan!Items
    BY <1>4 DEF Worlds
  <2>3. i # 0 => Scan!Destroy(w.items[i]) \in Scan!Items
    BY <2>1, <2>2 DEF Scan!Destroy, Scan!Items
  <2> QED
    BY <2>1, <2>2, <2>3, <1>5
<1>7. PICK sc : sc = [w.scan EXCEPT ![n] = [Scan!Blank EXCEPT !.st = "Deleted"]]
  OBVIOUS
<1>8. sc \in [Scan!Nodes -> Scan!Scans]
  <2>1. [Scan!Blank EXCEPT !.st = "Deleted"] \in Scan!Scans
    BY DEF Scan!Blank, Scan!Scans, Scan!Infos
  <2> QED
    BY <2>1, <1>4, <1>7 DEF Worlds
<1>9. /\ scan' = sc /\ items' = its /\ queue' = queue /\ sent' = sent /\ index' = index /\ failed' = failed
      /\ posted' \in {posted, <<>>} /\ chat' \in {chat, [chat EXCEPT !.at = "gone"]}
  BY <1>1, <1>3, <1>5, <1>7, Now DEF Scan!DeleteScan
<1>10. /\ chat.at = "going" /\ scan[n].st \notin {"Absent", "Deleted"}
       /\ \A d \in Scan!Dirs : n \in Scan!Part(d) => scan[d].st \in {"Absent", "Deleted"}
  BY DEF Scan!DeleteScan, Scan!Exists
<1>11. /\ chat' \in [at : {"none", "scanning", "sent", "going", "gone"}, cancelled : BOOLEAN,
                     next : 0..Len(Dropped)]
       /\ chat'.at \in {"going", "gone"} /\ chat'.next = chat.next
  <2>1. chat \in [at : {"none", "scanning", "sent", "going", "gone"}, cancelled : BOOLEAN,
                  next : 0..Len(Dropped)]
    BY <1>1, <1>4, TypedNow
  <2>2. CASE chat' = chat
    BY <2>1, <2>2, <1>10
  <2>3. CASE chat' = [chat EXCEPT !.at = "gone"]
    BY <2>1, <2>3
  <2> QED
    BY <2>2, <2>3, <1>9
<1>12. v \in Worlds /\ Deleting(v, w, n, i)
  <2>1. posted' \in Seq(Scan!Events)
    <3>1. posted \in Seq(Scan!Events) /\ <<>> \in Seq(Scan!Events)
      BY <1>1, <1>4, TypedNow
    <3> QED
      BY <3>1, <1>9
  <2>2. v \in Worlds
    BY <2>1, <1>1, <1>2, <1>4, <1>6, <1>8, <1>9, <1>11, Typed, TypedNow
  <2> QED
    BY <2>2, <1>1, <1>2, <1>3, <1>5, <1>7, <1>9, <1>10, <1>11, Now, Then DEF Deleting
<1>13. ScannerHeld(v, work, refused)
  BY <1>4, <1>12, DeleteScanHeld
<1> QED
  BY <1>2, <1>13 DEF HeldNow, Scan!DeleteScan

-----------------------------------------------------------------------------
(* The steps of the scanner's thread.                                      *)

\* The thread's step with its item changes nothing else: i is that item, x the
\* index and R2 the refused files afterwards.
Worked(v, w, j, i, R, R2) ==
  /\ j.item = i /\ i # 0 /\ R \subseteq R2 /\ R2 \subseteq Scan!Files
  /\ v.scan = w.scan /\ v.queue = w.queue /\ v.chat = w.chat /\ v.sent = w.sent
  /\ v.failed \subseteq {"flush"}
  /\ DOMAIN v.items = DOMAIN w.items /\ \A x \in DOMAIN w.items : x # i => v.items[x] = w.items[x]
  /\ v.items[i].of = w.items[i].of /\ v.items[i].cancel = w.items[i].cancel
  /\ v.index.info = w.index.info /\ \A f \in Scan!Files : v.index.chunks[f] \subseteq 1..Chunks[f]
  /\ \A f \in Scan!Files, is \in Scan!Infos :
       InfoTrue(f, is, w.index, R) => InfoTrue(f, is, v.index, R2)

\* The item it has is live, not done, and of a file.
LEMMA JobHeld ==
  ASSUME NEW w, NEW j, NEW R, ScannerHeld(w, j, R), j.item # 0
  PROVE  /\ j.item \in DOMAIN w.items /\ w.items[j.item] \in Scan!Items
         /\ w.items[j.item].live /\ ~w.items[j.item].done /\ w.items[j.item].of \in Scan!Files
<1>1. w \in Worlds /\ ItemsHeld(w, j) /\ WorkHeld(w, j, R)
  BY DEF ScannerHeld
<1>2. j.item \in DOMAIN w.items /\ Ahead(w, j, j.item)
  BY <1>1 DEF WorkHeld, Ahead
<1>3. w.items[j.item] \in Scan!Items
  BY <1>1, <1>2 DEF Worlds
<1> QED
  BY <1>1, <1>2, <1>3 DEF ItemsHeld, Scan!Items

\* The item is there for its Scan, and what it says at its end is so.
SaysWell(v, w, i, R) ==
  /\ Owned(w, i) => v.items[i].live
  /\ v.items[i].done /\ v.items[i].err = "" =>
       v.items[i].data # "none" /\ InfoTrue(v.items[i].of, v.items[i].data, v.index, R)

\* What is kept by all such steps.
LEMMA WorkedHeld ==
  ASSUME NEW w, NEW j, NEW R, ScannerHeld(w, j, R), NEW i, NEW R2, NEW v, Worked(v, w, j, i, R, R2),
         SaysWell(v, w, i, R2)
  PROVE  ScansHeld(v) /\ TruthHeld(v, R2) /\ SentHeld(v)
<1>1. w \in Worlds /\ ScansHeld(w) /\ TruthHeld(w, R) /\ SentHeld(w)
  BY DEF ScannerHeld
<1>2. /\ v.scan = w.scan /\ v.chat = w.chat /\ v.sent = w.sent
      /\ DOMAIN v.items = DOMAIN w.items /\ \A x \in DOMAIN w.items : x # i => v.items[x] = w.items[x]
      /\ v.items[i].of = w.items[i].of /\ v.items[i].cancel = w.items[i].cancel
      /\ v.index.info = w.index.info /\ \A f \in Scan!Files : v.index.chunks[f] \subseteq 1..Chunks[f]
      /\ \A f \in Scan!Files, is \in Scan!Infos :
           InfoTrue(f, is, w.index, R) => InfoTrue(f, is, v.index, R2)
  BY DEF Worked
<1>3. /\ \A f \in Scan!Files : w.scan[f].info \in Scan!Infos /\ w.index.info[f] \in Scan!Infos
      /\ \A x \in DOMAIN w.items : w.items[x].of \in Scan!Files /\ w.items[x].data \in Scan!Infos
  <2>1. \A x \in DOMAIN w.items : w.items[x] \in Scan!Items
    <3>1. w.items \in Seq(Scan!Items)
      BY <1>1 DEF Worlds
    <3> QED
      BY <3>1
  <2>2. \A f \in Scan!Files : w.scan[f] \in Scan!Scans /\ w.index.info[f] \in Scan!Infos
    BY <1>1, Forest DEF Worlds
  <2> QED
    BY <2>1, <2>2 DEF Scan!Items, Scan!Scans
<1>4. ScansHeld(v)
  <2>1. ASSUME NEW n \in Scan!Nodes, w.scan[n].item # 0
        PROVE  /\ n \in Scan!Files /\ w.scan[n].st = "Running" /\ w.scan[n].item \in DOMAIN v.items
               /\ LET item == v.items[w.scan[n].item] IN item.of = n /\ item.live /\ ~item.cancel
    <3>1. /\ n \in Scan!Files /\ w.scan[n].st = "Running" /\ w.scan[n].item \in DOMAIN w.items
          /\ LET item == w.items[w.scan[n].item] IN item.of = n /\ item.live /\ ~item.cancel
      BY <2>1, <1>1 DEF ScansHeld
    <3>2. w.scan[n].item = i => v.items[i].live
      BY <3>1 DEF Owned, SaysWell
    <3> QED
      BY <3>1, <3>2, <1>2
  <2>2. \A n \in Scan!Nodes : v.scan[n].timer => v.scan[n].st \in {"Fresh", "Error"}
    BY <1>1, <1>2 DEF ScansHeld
  <2>3. \A d \in Scan!Dirs : v.scan[d].st \in {"Absent", "Fresh", "Error"} =>
          \A n \in Scan!Part(d) : v.scan[n].st = "Absent"
    BY <1>1, <1>2 DEF ScansHeld
  <2>4. \A n \in Scan!Nodes : v.scan[n] = w.scan[n]
    BY <1>2
  <2> QED
    BY <2>1, <2>2, <2>3, <2>4 DEF ScansHeld
<1>5. TruthHeld(v, R2)
  <2>1. \A f \in Scan!Files :
          /\ v.scan[f].st = "Success" => InfoTrue(f, v.scan[f].info, v.index, R2)
          /\ InfoTrue(f, v.index.info[f], v.index, R2) /\ v.index.chunks[f] \subseteq 1..Chunks[f]
    <3> TAKE f \in Scan!Files
    <3>1. /\ w.scan[f].st = "Success" => InfoTrue(f, w.scan[f].info, w.index, R)
          /\ InfoTrue(f, w.index.info[f], w.index, R)
      BY <1>1 DEF TruthHeld
    <3> QED
      BY <3>1, <1>2, <1>3
  <2>2. ASSUME NEW x \in DOMAIN v.items, v.items[x].done, v.items[x].err = ""
        PROVE  v.items[x].data # "none" /\ InfoTrue(v.items[x].of, v.items[x].data, v.index, R2)
    <3>1. CASE x = i
      BY <3>1, <2>2 DEF SaysWell
    <3>2. CASE x # i
      <4>1. x \in DOMAIN w.items /\ v.items[x] = w.items[x]
        BY <3>2, <1>2
      <4>2. w.items[x].data # "none" /\ InfoTrue(w.items[x].of, w.items[x].data, w.index, R)
        BY <4>1, <2>2, <1>1 DEF TruthHeld
      <4> QED
        BY <4>1, <4>2, <1>2, <1>3
    <3> QED
      BY <3>1, <3>2
  <2>3. \A d : /\ Scan!GotOf(v, d) = Scan!GotOf(w, d) /\ Scan!TotOf(v, d) = Scan!TotOf(w, d)
               /\ Scan!FilesOf(v, d) = Scan!FilesOf(w, d)
    BY <1>2 DEF Scan!GotOf, Scan!TotOf, Scan!FilesOf
  <2>4. \A d \in Scan!Dirs : v.scan[d].st = "Success" =>
          /\ \A m \in Scan!Part(d) : v.scan[m].st = "Success"
          /\ v.scan[d].got = Scan!GotOf(v, d) /\ v.scan[d].tot = Scan!TotOf(v, d)
          /\ v.scan[d].nfiles = Scan!FilesOf(v, d)
    BY <2>3, <1>1, <1>2 DEF TruthHeld
  <2>5. \A n \in Scan!Nodes : v.scan[n].st = "Success" => v.scan[n].info # "none"
    BY <1>1, <1>2 DEF TruthHeld
  <2> QED
    BY <2>1, <2>2, <2>4, <2>5 DEF TruthHeld
<1>6. SentHeld(v)
  <2>1. v.scan = w.scan /\ v.chat = w.chat /\ v.sent = w.sent
    BY <1>2
  <2>2. Waiting(v) = Waiting(w)
    BY <2>1 DEF Waiting
  <2> QED
    BY <2>1, <2>2, <1>1 DEF SentHeld
<1> QED
  BY <1>4, <1>5, <1>6

\* A step that keeps the item.
LEMMA KeepsHeld ==
  ASSUME NEW w, NEW j, NEW R, ScannerHeld(w, j, R), NEW i, NEW R2, NEW v \in Worlds,
         NEW k \in Works, Worked(v, w, j, i, R, R2), k.item = i, v.items[i].live, ~v.items[i].done,
         WorkHeld(v, k, R2)
  PROVE  ScannerHeld(v, k, R2)
<1>1. ScansHeld(v) /\ TruthHeld(v, R2) /\ SentHeld(v)
  BY WorkedHeld DEF SaysWell
<1>2. ItemsHeld(w, j)
  BY DEF ScannerHeld
<1>3. /\ v.scan = w.scan /\ v.queue = w.queue /\ j.item = i
      /\ DOMAIN v.items = DOMAIN w.items /\ \A x \in DOMAIN w.items : x # i => v.items[x] = w.items[x]
      /\ v.items[i].cancel = w.items[i].cancel /\ w.items[i].live
  BY JobHeld DEF Worked
<1>4. ItemsHeld(v, k)
  <2>1. \A x : (Owned(v, x) <=> Owned(w, x)) /\ (Ahead(v, k, x) <=> Ahead(w, j, x))
    BY <1>3 DEF Owned, Ahead
  <2>2. Ahead(v, k, i)
    BY DEF Ahead
  <2>3. ASSUME NEW x \in DOMAIN v.items
        PROVE  /\ v.items[x].live => \/ Owned(v, x)
                                     \/ v.items[x].cancel /\ (Ahead(v, k, x) \/ v.items[x].err = "open")
               /\ Owned(v, x) /\ ~v.items[x].done => Ahead(v, k, x)
               /\ Ahead(v, k, x) => v.items[x].live /\ ~v.items[x].done
    <3>1. CASE x = i
      <4>1. Owned(w, i) \/ w.items[i].cancel
        BY <3>1, <1>2, <1>3 DEF ItemsHeld
      <4> QED
        BY <3>1, <4>1, <2>1, <2>2, <1>3
    <3>2. CASE x # i
      BY <3>2, <2>1, <1>2, <1>3 DEF ItemsHeld
    <3> QED
      BY <3>1, <3>2
  <2>4. /\ \A l \in DOMAIN v.queue : v.queue[l] \in DOMAIN v.items /\ v.queue[l] # k.item
        /\ \A l, m \in DOMAIN v.queue : l # m => v.queue[l] # v.queue[m]
    BY <1>2, <1>3 DEF ItemsHeld
  <2> QED
    BY <2>3, <2>4 DEF ItemsHeld
<1> QED
  BY <1>1, <1>4 DEF ScannerHeld, Worked

\* The item is done, or freed as nobody waits for it.
Left(v, i, R) ==
  /\ \/ v.items[i].live /\ v.items[i].done /\ (v.items[i].cancel => v.items[i].err = "open")
     \/ v.items[i].cancel /\ ~v.items[i].live /\ ~v.items[i].done
  /\ v.items[i].done /\ v.items[i].err = "" =>
       v.items[i].data # "none" /\ InfoTrue(v.items[i].of, v.items[i].data, v.index, R)

\* A step at the end of the item.
LEMMA LeavesHeld ==
  ASSUME NEW w, NEW j, NEW R, ScannerHeld(w, j, R), NEW i, NEW v \in Worlds,
         Worked(v, w, j, i, R, R), Left(v, i, R)
  PROVE  ScannerHeld(v, Scan!NoJob, R)
<1>1. /\ w \in Worlds /\ ItemsHeld(w, j) /\ ScansHeld(w)
      /\ Scan!NoJob \in Works /\ Scan!NoJob.item = 0
  BY DEF ScannerHeld, Scan!NoJob, Works, Scan!Infos
<1>2. /\ v.scan = w.scan /\ v.queue = w.queue /\ j.item = i /\ i # 0
      /\ DOMAIN v.items = DOMAIN w.items /\ \A x \in DOMAIN w.items : x # i => v.items[x] = w.items[x]
      /\ v.items[i].cancel = w.items[i].cancel /\ w.items[i].live
  BY JobHeld DEF Worked
<1>3. Owned(w, i) => ~w.items[i].cancel
  BY <1>1, <1>2, Forest DEF ScansHeld, Owned
<1>4. \/ v.items[i].live /\ v.items[i].done /\ (v.items[i].cancel => v.items[i].err = "open")
      \/ v.items[i].cancel /\ ~v.items[i].live /\ ~v.items[i].done
  BY DEF Left
<1>5. ScansHeld(v) /\ TruthHeld(v, R) /\ SentHeld(v)
  <2>1. Owned(w, i) => v.items[i].live
    BY <1>2, <1>3, <1>4
  <2> QED
    BY <2>1, WorkedHeld DEF Left, SaysWell
<1>6. \A x \in DOMAIN w.items : x # 0
  <2>1. w.items \in Seq(Scan!Items)
    BY <1>1 DEF Worlds
  <2> QED
    BY <2>1
<1>7. ItemsHeld(v, Scan!NoJob)
  <2>1. \A x : Owned(v, x) <=> Owned(w, x)
    BY <1>2 DEF Owned
  <2>2. ~Ahead(v, Scan!NoJob, i)
    <3>1. \A l \in DOMAIN w.queue : w.queue[l] # i
      BY <1>1, <1>2 DEF ItemsHeld
    <3> QED
      BY <3>1, <1>1, <1>2 DEF Ahead
  <2>3. \A x \in DOMAIN w.items : x # i => (Ahead(v, Scan!NoJob, x) <=> Ahead(w, j, x))
    <3> TAKE x \in DOMAIN w.items
    <3>1. x # 0
      BY <1>6
    <3> QED
      BY <3>1, <1>1, <1>2 DEF Ahead
  <2>4. ASSUME NEW x \in DOMAIN v.items
        PROVE  /\ v.items[x].live =>
                    \/ Owned(v, x)
                    \/ v.items[x].cancel /\ (Ahead(v, Scan!NoJob, x) \/ v.items[x].err = "open")
               /\ Owned(v, x) /\ ~v.items[x].done => Ahead(v, Scan!NoJob, x)
               /\ Ahead(v, Scan!NoJob, x) => v.items[x].live /\ ~v.items[x].done
    <3>1. CASE x = i
      <4>1. Owned(w, i) \/ w.items[i].cancel
        BY <3>1, <1>1, <1>2 DEF ItemsHeld
      <4> QED
        BY <3>1, <4>1, <2>1, <2>2, <1>2, <1>3, <1>4
    <3>2. CASE x # i
      BY <3>2, <2>1, <2>3, <1>1, <1>2 DEF ItemsHeld
    <3> QED
      BY <3>1, <3>2
  <2>5. /\ \A l \in DOMAIN w.queue : w.queue[l] \in DOMAIN w.items
        /\ \A l, m \in DOMAIN w.queue : l # m => w.queue[l] # w.queue[m]
    BY <1>1 DEF ItemsHeld
  <2>6. v.queue = w.queue /\ DOMAIN v.items = DOMAIN w.items
    BY <1>2
  <2> QED
    BY <2>4, <2>5, <2>6, <1>1, <1>6 DEF ItemsHeld
<1>8. WorkHeld(v, Scan!NoJob, R)
  BY <1>1 DEF WorkHeld
<1> QED
  BY <1>1, <1>5, <1>7, <1>8 DEF ScannerHeld, Worked

LEMMA GetWorkStep == ASSUME HeldNow, Scan!GetWork PROVE HeldNow'
<1>1. PICK w : w = Scan!World
  OBVIOUS
<1>2. PICK v : v = Scan!World'
  OBVIOUS
<1>3. PICK k : k = work'
  OBVIOUS
<1>4. /\ w \in Worlds /\ ScansHeld(w) /\ TruthHeld(w, refused) /\ ItemsHeld(w, work) /\ SentHeld(w)
      /\ work \in Works /\ refused \subseteq Scan!Files /\ w.failed \subseteq {"flush"}
  BY <1>1 DEF HeldNow, ScannerHeld
<1>5. w.queue \in Seq(Nat) /\ w.queue # <<>> /\ work.item = 0
  BY <1>1, <1>4, Now DEF Worlds, Scan!GetWork
<1>6. PICK q : q = Tail(w.queue)
  OBVIOUS
<1>7. PICK i : i = Head(w.queue)
  OBVIOUS
<1>8. /\ q \in Seq(Nat) /\ i \in Nat /\ 1 \in DOMAIN w.queue /\ i = w.queue[1]
      /\ \A l \in DOMAIN q : l + 1 \in DOMAIN w.queue /\ l + 1 # 1 /\ q[l] = w.queue[l + 1]
      /\ \A l \in DOMAIN w.queue : l = 1 \/ (l - 1 \in DOMAIN q /\ q[l - 1] = w.queue[l])
  BY <1>5, <1>6, <1>7
<1>9. k \in Works /\ k.item = i /\ k.chunk = 1 /\ k.data = "none" /\ k.err = ""
  BY <1>1, <1>3, <1>7, <1>8, Now DEF Scan!GetWork, Scan!NoJob, Works, Scan!Infos
<1>10. /\ v.scan = w.scan /\ v.items = w.items /\ v.queue = q /\ v.chat = w.chat /\ v.sent = w.sent
       /\ v.index = w.index /\ v.failed = w.failed
  BY <1>1, <1>2, <1>6, Now, Then DEF Scan!GetWork, Scan!window
<1>11. v \in Worlds
  <2>1. queue' = q
    BY <1>1, <1>6, Now DEF Scan!GetWork
  <2> QED
    BY <2>1, <1>1, <1>2, <1>4, <1>8, Typed, TypedNow DEF Scan!GetWork, Scan!window
<1>12. i \in DOMAIN w.items /\ \A l \in DOMAIN q : q[l] # i
  BY <1>4, <1>8 DEF ItemsHeld
<1>13. \A x \in DOMAIN w.items : x # 0
  <2>1. w.items \in Seq(Scan!Items)
    BY <1>4 DEF Worlds
  <2> QED
    BY <2>1
<1>14. ScansHeld(v) /\ TruthHeld(v, refused)
  <2>1. ScansHeld(v)
    BY <1>4, <1>10 DEF ScansHeld
  <2> QED
    BY <2>1, <1>4, <1>10 DEF TruthHeld, Scan!GotOf, Scan!TotOf, Scan!FilesOf
<1>15. ItemsHeld(v, k)
  <2>1. \A x \in DOMAIN w.items : Ahead(v, k, x) <=> Ahead(w, work, x)
    <3> TAKE x \in DOMAIN w.items
    <3>1. ASSUME Ahead(v, k, x) PROVE Ahead(w, work, x)
      <4>1. CASE x = i
        BY <4>1, <1>8 DEF Ahead
      <4>2. CASE x # i
        <5>1. PICK l \in DOMAIN q : q[l] = x
          BY <3>1, <4>2, <1>9, <1>10 DEF Ahead
        <5> QED
          BY <5>1, <1>8 DEF Ahead
      <4> QED
        BY <4>1, <4>2
    <3>2. ASSUME Ahead(w, work, x) PROVE Ahead(v, k, x)
      <4>1. PICK l \in DOMAIN w.queue : w.queue[l] = x
        BY <3>2, <1>5, <1>13 DEF Ahead
      <4> QED
        BY <4>1, <1>8, <1>9, <1>10 DEF Ahead
    <3> QED
      BY <3>1, <3>2
  <2>2. \A x : Owned(v, x) <=> Owned(w, x)
    BY <1>10 DEF Owned
  <2>3. \A l \in DOMAIN q : q[l] \in DOMAIN w.items /\ q[l] # k.item
    BY <1>4, <1>8, <1>9, <1>12 DEF ItemsHeld
  <2>4. \A l, m \in DOMAIN q : l # m => q[l] # q[m]
    <3> TAKE l, m \in DOMAIN q
    <3>1. l # m => l + 1 # m + 1
      BY <1>8
    <3> QED
      BY <3>1, <1>4, <1>8 DEF ItemsHeld
  <2> QED
    BY <2>1, <2>2, <2>3, <2>4, <1>4, <1>10 DEF ItemsHeld
<1>16. WorkHeld(v, k, refused)
  <2>1. PICK f \in Scan!Files : f = w.items[i].of
    <3>1. w.items \in Seq(Scan!Items)
      BY <1>4 DEF Worlds
    <3>2. w.items[i] \in Scan!Items
      BY <3>1, <1>12
    <3> QED
      BY <3>2 DEF Scan!Items
  <2>2. 1 \in 1..(Chunks[f] + 1) /\ 1..(1 - 1) = {}
    BY Forest
  <2> QED
    BY <2>1, <2>2, <1>9, <1>10, <1>12 DEF WorkHeld
<1>17. SentHeld(v)
  BY <1>4, <1>10 DEF SentHeld, Waiting
<1>18. ScannerHeld(v, k, refused)
  BY <1>4, <1>9, <1>10, <1>11, <1>14, <1>15, <1>16, <1>17 DEF ScannerHeld
<1> QED
  BY <1>2, <1>3, <1>18 DEF HeldNow, Scan!GetWork

\* A step of the thread with the item that it has.
LEMMA Working ==
  ASSUME HeldNow, work.item # 0
  PROVE  /\ ScannerHeld(Scan!World, work, refused) /\ WorkHeld(Scan!World, work, refused)
         /\ TruthHeld(Scan!World, refused) /\ Scan!World \in Worlds /\ work \in Works
         /\ refused \subseteq Scan!Files /\ failed \subseteq {"flush"}
         /\ work.item \in DOMAIN items /\ Scan!Item = items[work.item] /\ Scan!Item \in Scan!Items
         /\ Scan!Item.live /\ ~Scan!Item.done /\ Scan!Item.of \in Scan!Files
         /\ items \in Seq(Scan!Items)
<1>1. PICK w : w = Scan!World
  OBVIOUS
<1>2. ScannerHeld(w, work, refused) /\ w.items = items /\ w.failed = failed
  BY <1>1, Now DEF HeldNow
<1>3. /\ work.item \in DOMAIN w.items /\ w.items[work.item] \in Scan!Items
      /\ w.items[work.item].live /\ ~w.items[work.item].done /\ w.items[work.item].of \in Scan!Files
  BY <1>2, JobHeld
<1>4. /\ WorkHeld(w, work, refused) /\ TruthHeld(w, refused) /\ w \in Worlds /\ work \in Works
      /\ refused \subseteq Scan!Files /\ w.failed \subseteq {"flush"}
  BY <1>2 DEF ScannerHeld
<1>5. w.items \in Seq(Scan!Items)
  BY <1>4 DEF Worlds
<1> QED
  BY <1>1, <1>2, <1>3, <1>4, <1>5 DEF Scan!Item

\* One item of a sequence replaced.
LEMMA Replaced ==
  ASSUME NEW S, NEW s \in Seq(S), NEW i \in DOMAIN s, NEW e \in S, NEW t, t = [s EXCEPT ![i] = e]
  PROVE  t \in Seq(S) /\ DOMAIN t = DOMAIN s /\ t[i] = e /\ \A x \in DOMAIN s : x # i => t[x] = s[x]
OBVIOUS

LEMMA OpenFailsStep == ASSUME HeldNow, Scan!OpenFails PROVE HeldNow'
<1>1. PICK w : w = Scan!World
  OBVIOUS
<1>2. PICK v : v = Scan!World'
  OBVIOUS
<1>3. PICK i : i = work.item
  OBVIOUS
<1>4. work.item # 0
  BY DEF Scan!OpenFails, Scan!Working
<1>5. /\ ScannerHeld(w, work, refused) /\ w \in Worlds /\ TruthHeld(w, refused)
      /\ refused \subseteq Scan!Files /\ failed \subseteq {"flush"}
      /\ i \in DOMAIN items /\ Scan!Item = items[i] /\ items[i] \in Scan!Items
      /\ items[i].live /\ ~items[i].done /\ items[i].of \in Scan!Files /\ items \in Seq(Scan!Items)
  BY <1>1, <1>3, <1>4, Working
<1>6. PICK e : e = [items[i] EXCEPT !.err = "open", !.done = TRUE]
  OBVIOUS
<1>7. /\ e \in Scan!Items /\ e.of = items[i].of /\ e.cancel = items[i].cancel /\ e.live
      /\ e.done = TRUE /\ e.err = "open"
  BY <1>5, <1>6 DEF Scan!Items
<1>8. /\ items' = [items EXCEPT ![i].err = "open", ![i].done = TRUE]
      /\ posted' \in {posted, Append(posted, [what |-> "file", to |-> items[i].of])}
      /\ work' = Scan!NoJob /\ UNCHANGED <<scan, chat, sent, queue, index, refused, failed>>
  BY <1>3, <1>5 DEF Scan!OpenFails, Scan!Uses
<1>9. items' = [items EXCEPT ![i] = e]
  BY <1>5, <1>6, <1>8
<1>10. /\ items' \in Seq(Scan!Items) /\ DOMAIN items' = DOMAIN items /\ items'[i] = e
       /\ \A x \in DOMAIN items : x # i => items'[x] = items[x]
  BY <1>5, <1>7, <1>9, Replaced
<1>11. posted' \in Seq(Scan!Events)
  <2>1. [what |-> "file", to |-> items[i].of] \in Scan!Events /\ posted \in Seq(Scan!Events)
    BY <1>1, <1>5, TypedNow DEF Scan!Events
  <2> QED
    BY <2>1, <1>8
<1>12. v \in Worlds
  BY <1>1, <1>2, <1>5, <1>8, <1>10, <1>11, Typed, TypedNow
<1>13. Worked(v, w, work, i, refused, refused)
  <2>1. \A f \in Scan!Files : w.index.chunks[f] \subseteq 1..Chunks[f]
    BY <1>5 DEF TruthHeld
  <2> QED
    BY <2>1, <1>1, <1>2, <1>3, <1>4, <1>5, <1>7, <1>8, <1>10, Now, Then DEF Worked
<1>14. Left(v, i, refused)
  BY <1>2, <1>7, <1>10, Then DEF Left
<1>15. ScannerHeld(v, Scan!NoJob, refused)
  BY <1>5, <1>12, <1>13, <1>14, LeavesHeld
<1>16. faults' \in 0..MaxFaults
  BY Forest DEF HeldNow, Scan!OpenFails
<1> QED
  BY <1>2, <1>8, <1>15, <1>16 DEF HeldNow

\* The chunk c of n, when those before it are in S.
LEMMA Counted ==
  ASSUME NEW n \in Nat, NEW c \in 1..(n + 1), NEW S, 1..(c - 1) \subseteq S
  PROVE  /\ c \in Nat /\ c - 1 \in Nat /\ c + 1 \in Nat /\ 1..((c + 1) - 1) \subseteq S \cup {c}
         /\ c <= n => c \in 1..n /\ c + 1 \in 1..(n + 1)
OBVIOUS

LEMMA KeyChunkStep == ASSUME HeldNow, Scan!KeyChunkRefused PROVE HeldNow'
<1>1. PICK w : w = Scan!World
  OBVIOUS
<1>2. PICK v : v = Scan!World'
  OBVIOUS
<1>3. PICK i : i = work.item
  OBVIOUS
<1>4. work.item # 0 /\ work.data = "none"
  BY DEF Scan!KeyChunkRefused, Scan!Working
<1>5. /\ ScannerHeld(w, work, refused) /\ w \in Worlds /\ TruthHeld(w, refused)
      /\ refused \subseteq Scan!Files /\ failed \subseteq {"flush"} /\ work \in Works
      /\ i \in DOMAIN items /\ Scan!Item = items[i] /\ items[i] \in Scan!Items
      /\ items[i].live /\ ~items[i].done /\ items[i].of \in Scan!Files /\ items \in Seq(Scan!Items)
  BY <1>1, <1>3, <1>4, Working
<1>6. PICK f \in Scan!Files : f = items[i].of
  BY <1>5
<1> PICK n : n = Chunks[f]
  OBVIOUS
<1> PICK c : c = work.chunk
  OBVIOUS
<1>7. c \in 1..(n + 1) /\ work.err = "" /\ 1..(c - 1) \subseteq index.chunks[f]
  <2>1. WorkHeld(w, work, refused) /\ w.items = items /\ w.index = index
    BY <1>1, <1>4, Working, Now
  <2> QED
    BY <2>1, <1>3, <1>4, <1>6 DEF WorkHeld
<1>8. \A g \in Scan!Files : index.chunks[g] \subseteq 1..Chunks[g]
  BY <1>1, <1>5, Now DEF TruthHeld
\* The coder that gives up, if it does.
<1>9. ASSUME Scan!GiveUp
      PROVE  /\ work' \in Works /\ work'.item = i /\ work'.chunk = c /\ work'.err = ""
             /\ work' = work \/ work'.data = "hollow"
             /\ failed' \subseteq {"flush"}
  <2>1. CASE c = n
    BY <2>1, <1>3, <1>5, <1>6, <1>7, <1>9 DEF Scan!GiveUp
  <2>2. CASE c # n
    <3>1. work' = [work EXCEPT !.data = "hollow"] /\ failed' = failed
      BY <2>2, <1>5, <1>6, <1>9 DEF Scan!GiveUp
    <3> QED
      BY <3>1, <1>3, <1>5, <1>7 DEF Works, Scan!Infos
  <2> QED
    BY <2>1, <2>2
<1>10. /\ refused' = refused \cup {f} /\ Scan!GiveUp
      /\ scan' = scan /\ posted' = posted /\ chat' = chat /\ sent' = sent
      /\ items' = items /\ queue' = queue /\ index' = index
  BY <1>5, <1>6 DEF Scan!KeyChunkRefused, Scan!Uses, Scan!window
<1>11. v \in Worlds
  BY <1>10, <1>1, <1>2, <1>5, <1>9, Typed, TypedNow
<1>12. Worked(v, w, work, i, refused, refused')
  <2>1. \A g \in Scan!Files, is \in Scan!Infos :
          InfoTrue(g, is, index, refused) => InfoTrue(g, is, index', refused')
    BY <1>10 DEF InfoTrue
  <2> QED
    BY <2>1, <1>10, <1>1, <1>2, <1>3, <1>4, <1>5, <1>8, <1>9, Now, Then DEF Worked
<1>13. WorkHeld(v, work', refused')
  <2>1. v.items = items /\ v.index = index
    BY <1>10, <1>2, Then
  <2>2. f \in refused' /\ Scan!GiveUp
    BY <1>10
  <2>3. work'.chunk = c
    BY <2>2, <1>9
  <2> QED
    BY <2>1, <2>2, <2>3, <1>4, <1>5, <1>6, <1>7, <1>9 DEF WorkHeld
<1>14. ScannerHeld(v, work', refused')
  <2>1. v.items = items
    BY <1>10, <1>2, Then
  <2> QED
    BY <2>1, <1>10, <1>11, <1>12, <1>13, <1>5, <1>9, KeepsHeld
<1>15. faults' \in 0..MaxFaults
  BY Forest DEF HeldNow, Scan!KeyChunkRefused, Scan!Goes
<1> QED
  BY <1>14, <1>15, <1>2 DEF HeldNow

LEMMA DataChunkStep ==
  ASSUME HeldNow, Scan!DataChunk PROVE HeldNow'
<1>1. PICK w : w = Scan!World
  OBVIOUS
<1>2. PICK v : v = Scan!World'
  OBVIOUS
<1>3. PICK i : i = work.item
  OBVIOUS
<1>4. work.item # 0 /\ work.data = "none"
  BY DEF Scan!DataChunk, Scan!Working
<1>5. /\ ScannerHeld(w, work, refused) /\ w \in Worlds /\ TruthHeld(w, refused)
      /\ refused \subseteq Scan!Files /\ failed \subseteq {"flush"} /\ work \in Works
      /\ i \in DOMAIN items /\ Scan!Item = items[i] /\ items[i] \in Scan!Items
      /\ items[i].live /\ ~items[i].done /\ items[i].of \in Scan!Files /\ items \in Seq(Scan!Items)
  BY <1>1, <1>3, <1>4, Working
<1>6. PICK f \in Scan!Files : f = items[i].of
  BY <1>5
<1> PICK n : n = Chunks[f]
  OBVIOUS
<1> PICK c : c = work.chunk
  OBVIOUS
<1> PICK had : had = index.chunks[f]
  OBVIOUS
<1>7. /\ c \in Nat /\ c - 1 \in Nat /\ c + 1 \in Nat /\ c \in 1..n /\ n \in Nat /\ c + 1 \in 1..(n + 1) /\ c \in 1..(n + 1)
      /\ work.err = "" /\ 1..(c - 1) \subseteq index.chunks[f]
      /\ 1..((c + 1) - 1) \subseteq index.chunks[f] \cup {c}
  <2>1. WorkHeld(w, work, refused) /\ w.items = items /\ w.index = index
    BY <1>1, <1>4, Working, Now
  <2>2. c \in 1..(n + 1) /\ work.err = "" /\ 1..(c - 1) \subseteq index.chunks[f]
    BY <2>1, <1>3, <1>4, <1>6 DEF WorkHeld
  <2>3. c <= n
    BY <1>5, <1>6 DEF Scan!DataChunk
  <2>4. n \in Nat
    BY Forest
  <2>5. c \in 1..(n + 1) /\ 1..(c - 1) \subseteq had
    BY <2>2
  <2>6. /\ c \in Nat /\ c - 1 \in Nat /\ c + 1 \in Nat /\ 1..((c + 1) - 1) \subseteq had \cup {c}
        /\ c \in 1..n /\ c + 1 \in 1..(n + 1)
    BY <2>3, <2>4, <2>5, Counted
  <2> QED
    BY <2>2, <2>4, <2>6
<1>8. \A g \in Scan!Files : index.chunks[g] \subseteq 1..Chunks[g]
  BY <1>1, <1>5, Now DEF TruthHeld
\* The coder that gives up, if it does.
<1>9. ASSUME Scan!GiveUp
      PROVE  /\ work' \in Works /\ work'.item = i /\ work'.chunk = c /\ work'.err = ""
             /\ work' = work \/ work'.data = "hollow"
             /\ failed' \subseteq {"flush"}
  <2>1. CASE c = n
    BY <2>1, <1>3, <1>5, <1>6, <1>7, <1>9 DEF Scan!GiveUp
  <2>2. CASE c # n
    <3>1. work' = [work EXCEPT !.data = "hollow"] /\ failed' = failed
      BY <2>2, <1>5, <1>6, <1>9 DEF Scan!GiveUp
    <3> QED
      BY <3>1, <1>3, <1>5, <1>7 DEF Works, Scan!Infos
  <2> QED
    BY <2>1, <2>2
<1>10. PICK e : e = [items[i] EXCEPT !.got = c - 1]
  OBVIOUS
<1>11. /\ e \in Scan!Items /\ e.of = f /\ e.cancel = items[i].cancel /\ e.live
      /\ e.done = items[i].done /\ e.err = items[i].err /\ e.data = items[i].data
  <2>1. c - 1 \in Nat
    BY <1>7
  <2> QED
    BY <2>1, <1>10, <1>5, <1>6 DEF Scan!Items
<1>12. /\ index' = [index EXCEPT !.chunks[f] = @ \cup {c}]
      /\ items' = [items EXCEPT ![i] = e]
      /\ scan' = scan /\ chat' = chat /\ sent' = sent /\ queue' = queue /\ refused' = refused
      /\ \/ items[i].cancel /\ Scan!GiveUp /\ posted' = posted
         \/ /\ ~items[i].cancel /\ posted' = Append(posted, [what |-> "file", to |-> f])
            /\ work' = [work EXCEPT !.chunk = c + 1] /\ failed' = failed
  BY <1>10, <1>3, <1>5, <1>6, <1>7 DEF Scan!DataChunk, Scan!Uses
<1>13. /\ items' \in Seq(Scan!Items) /\ DOMAIN items' = DOMAIN items /\ items'[i] = e
      /\ \A x \in DOMAIN items : x # i => items'[x] = items[x]
  BY <1>11, <1>12, <1>5, Replaced
<1>14. index \in [chunks : [Scan!Files -> SUBSET Nat], info : [Scan!Nodes -> Scan!Infos]]
  BY <1>1, <1>5, TypedNow
<1>15. /\ index' \in [chunks : [Scan!Files -> SUBSET Nat], info : [Scan!Nodes -> Scan!Infos]]
      /\ index'.info = index.info /\ index'.chunks[f] = index.chunks[f] \cup {c}
      /\ \A g \in Scan!Files : g # f => index'.chunks[g] = index.chunks[g]
  <2>1. PICK cs : cs = index.chunks[f] \cup {c}
    OBVIOUS
  <2>2. PICK ch : ch = [index.chunks EXCEPT ![f] = cs]
    OBVIOUS
  <2>3. cs \in SUBSET Nat
    <3>1. index.chunks[f] \subseteq Nat /\ c \in Nat
      BY <1>14, <1>7
    <3> QED
      BY <3>1, <2>1
  <2>4. /\ ch \in [Scan!Files -> SUBSET Nat] /\ ch[f] = cs
        /\ \A g \in Scan!Files : g # f => ch[g] = index.chunks[g]
    BY <2>2, <2>3, <1>14
  <2>5. index' = [index EXCEPT !.chunks = ch]
    BY <2>1, <2>2, <1>12
  <2> QED
    BY <2>1, <2>4, <2>5, <1>14
<1>16. \A g \in Scan!Files : index'.chunks[g] \subseteq 1..Chunks[g]
  BY <1>15, <1>7, <1>8
<1>17. /\ posted' \in Seq(Scan!Events) /\ failed' \subseteq {"flush"} /\ work' \in Works /\ work'.item = i
      /\ work'.chunk \in 1..(n + 1) /\ work'.err = ""
      /\ \/ work'.data = "none" /\ 1..(work'.chunk - 1) \subseteq index'.chunks[f]
         \/ work'.data = "hollow" /\ items[i].cancel
  <2>1. posted \in Seq(Scan!Events) /\ [what |-> "file", to |-> f] \in Scan!Events
    BY <1>1, <1>5, TypedNow DEF Scan!Events
  <2>2. CASE items[i].cancel
    <3>1. Scan!GiveUp /\ posted' = posted
      BY <2>2, <1>12
    <3>2. work'.chunk = c /\ c \in 1..(n + 1) /\ 1..(c - 1) \subseteq index'.chunks[f]
      BY <3>1, <1>15, <1>7, <1>9
    <3>3. work'.data = "none" \/ work'.data = "hollow"
      BY <3>1, <1>4, <1>9
    <3> QED
      BY <3>1, <3>2, <3>3, <2>1, <2>2, <1>9
  <2>3. CASE ~items[i].cancel
    <3>1. /\ posted' = Append(posted, [what |-> "file", to |-> f])
          /\ work' = [work EXCEPT !.chunk = c + 1] /\ failed' = failed
      BY <2>3, <1>12
    <3>2. /\ work' \in Works /\ work'.item = i /\ work'.err = "" /\ work'.data = "none"
          /\ work'.chunk = c + 1
      <4>1. c + 1 \in Nat
        BY <1>7
      <4> QED
        BY <4>1, <3>1, <1>3, <1>4, <1>5, <1>7 DEF Works
    <3>3. 1..((c + 1) - 1) \subseteq index.chunks[f] \cup {c}
      BY <1>7
    <3>4. 1..(work'.chunk - 1) \subseteq index'.chunks[f]
      BY <3>2, <3>3, <1>15
    <3>5. posted' \in Seq(Scan!Events)
      BY <3>1, <2>1
    <3>6. work'.chunk \in 1..(n + 1)
      BY <3>2, <1>7
    <3> QED
      BY <3>1, <3>2, <3>4, <3>5, <3>6, <1>5
  <2> QED
    BY <2>2, <2>3
<1>18. v \in Worlds
  BY <1>12, <1>13, <1>15, <1>17, <1>1, <1>2, <1>5, Typed, TypedNow
<1>19. Worked(v, w, work, i, refused, refused')
  <2>1. \A g \in Scan!Files, is \in Scan!Infos :
          InfoTrue(g, is, index, refused) => InfoTrue(g, is, index', refused')
    BY <1>12, <1>15, <1>7 DEF InfoTrue
  <2>2. /\ work.item = i /\ i # 0 /\ refused \subseteq refused' /\ refused' \subseteq Scan!Files
        /\ v.scan = w.scan /\ v.queue = w.queue /\ v.chat = w.chat /\ v.sent = w.sent
        /\ v.failed \subseteq {"flush"}
    BY <1>12, <1>17, <1>1, <1>2, <1>3, <1>4, <1>5, Now, Then
  <2>3. /\ w.items = items /\ v.items = items' /\ w.index = index /\ v.index = index'
        /\ DOMAIN items' = DOMAIN items /\ \A x \in DOMAIN items : x # i => items'[x] = items[x]
        /\ items'[i].of = items[i].of /\ items'[i].cancel = items[i].cancel
        /\ index'.info = index.info /\ \A g \in Scan!Files : index'.chunks[g] \subseteq 1..Chunks[g]
    BY <1>11, <1>13, <1>15, <1>16, <1>1, <1>2, <1>6, Now, Then
  <2> QED
    BY <2>1, <2>2, <2>3 DEF Worked
<1>20. WorkHeld(v, work', refused')
  <2>1. v.items = items' /\ v.index = index'
    BY <1>2, Then
  <2>2. v.items[i].of = f /\ v.items[i].cancel = items[i].cancel /\ i \in DOMAIN v.items
    BY <2>1, <1>11, <1>13, <1>5
  <2> QED
    BY <2>1, <2>2, <1>17 DEF WorkHeld
<1>21. ScannerHeld(v, work', refused')
  <2>1. v.items[i] = e
    BY <1>13, <1>2, Then
  <2> QED
    BY <2>1, <1>11, <1>17, <1>18, <1>19, <1>20, <1>5, KeepsHeld
<1>22. faults' \in 0..MaxFaults
  BY DEF HeldNow, Scan!DataChunk
<1> QED
  BY <1>21, <1>22, <1>2 DEF HeldNow

LEMMA EncodedStep ==
  ASSUME HeldNow, NEW ok \in BOOLEAN, Scan!Encoded(ok) PROVE HeldNow'
<1>1. PICK w : w = Scan!World
  OBVIOUS
<1>2. PICK v : v = Scan!World'
  OBVIOUS
<1>3. PICK i : i = work.item
  OBVIOUS
<1>4. work.item # 0 /\ work.data = "none"
  BY DEF Scan!Encoded, Scan!Working
<1>5. /\ ScannerHeld(w, work, refused) /\ w \in Worlds /\ TruthHeld(w, refused)
      /\ refused \subseteq Scan!Files /\ failed \subseteq {"flush"} /\ work \in Works
      /\ i \in DOMAIN items /\ Scan!Item = items[i] /\ items[i].live /\ ~items[i].done
  BY <1>1, <1>3, <1>4, Working
<1>6. PICK f \in Scan!Files : f = items[i].of
  BY <1>1, <1>3, <1>4, Working
<1>7. /\ scan' = scan /\ posted' = posted /\ chat' = chat /\ sent' = sent /\ items' = items
      /\ queue' = queue /\ index' = index /\ refused' = refused /\ failed' = failed
      /\ \/ work.chunk > Chunks[f] /\ work' = [work EXCEPT !.data = "whole"]
         \/ work' = [work EXCEPT !.data = "hollow", !.err = "read"]
  BY <1>5, <1>6 DEF Scan!Encoded, Scan!window
<1>8. v = w
  BY <1>1, <1>2, <1>7 DEF Scan!World
<1>9. /\ work.chunk \in 1..(Chunks[f] + 1) /\ 1..(work.chunk - 1) \subseteq index.chunks[f]
      /\ index.chunks[f] \subseteq 1..Chunks[f] /\ Chunks[f] \in Nat
  <2>1. WorkHeld(w, work, refused) /\ w.items = items /\ w.index = index
    BY <1>1, <1>4, Working, Now
  <2> QED
    BY <2>1, <1>3, <1>4, <1>5, <1>6, Forest DEF WorkHeld, TruthHeld
<1>10. /\ work' \in Works /\ work'.item = i /\ work'.chunk = work.chunk
       /\ \/ work'.data = "whole" /\ work.chunk > Chunks[f]
          \/ work'.data = "hollow" /\ work'.err = "read"
  BY <1>3, <1>5, <1>7 DEF Works, Scan!Infos
<1>11. Worked(v, w, work, i, refused, refused)
  BY <1>1, <1>3, <1>4, <1>5, <1>8, Now DEF Worked, TruthHeld
<1>12. WorkHeld(v, work', refused)
  <2>1. v.items = items /\ v.index = index
    BY <1>1, <1>8, Now
  <2>2. work'.data = "whole" => index.chunks[f] = 1..Chunks[f]
    <3> SUFFICES ASSUME work'.data = "whole" PROVE index.chunks[f] = 1..Chunks[f]
      OBVIOUS
    <3>1. work.chunk - 1 = Chunks[f]
      BY <1>9, <1>10
    <3> QED
      BY <3>1, <1>9
  <2> QED
    BY <2>1, <2>2, <1>5, <1>6, <1>9, <1>10 DEF WorkHeld
<1>13. ScannerHeld(v, work', refused)
  <2>1. v.items = items
    BY <1>1, <1>8, Now
  <2> QED
    BY <2>1, <1>5, <1>8, <1>10, <1>11, <1>12, KeepsHeld
<1>14. faults' \in 0..MaxFaults
  BY Forest DEF HeldNow, Scan!Encoded, Scan!Goes
<1> QED
  BY <1>2, <1>7, <1>13, <1>14 DEF HeldNow

LEMMA FinishStep == ASSUME HeldNow, Scan!Finish PROVE HeldNow'
<1>1. PICK w : w = Scan!World
  OBVIOUS
<1>2. PICK v : v = Scan!World'
  OBVIOUS
<1>3. PICK i : i = work.item
  OBVIOUS
<1>4. work.item # 0 /\ work.data # "none"
  BY DEF Scan!Finish
<1>5. /\ ScannerHeld(w, work, refused) /\ w \in Worlds /\ TruthHeld(w, refused)
      /\ refused \subseteq Scan!Files /\ failed \subseteq {"flush"} /\ work \in Works
      /\ i \in DOMAIN items /\ Scan!Item = items[i] /\ items[i] \in Scan!Items
      /\ items[i].live /\ ~items[i].done /\ items[i].of \in Scan!Files /\ items \in Seq(Scan!Items)
  BY <1>1, <1>3, <1>4, Working
<1>6. PICK f \in Scan!Files : f = items[i].of
  BY <1>5
<1>7. /\ scan' = scan /\ chat' = chat /\ sent' = sent /\ queue' = queue /\ index' = index
      /\ refused' = refused /\ failed' = failed /\ faults' = faults /\ work' = Scan!NoJob
  BY <1>5 DEF Scan!Finish, Scan!Uses
<1>8. PICK e : e = IF items[i].cancel THEN [items[i] EXCEPT !.live = FALSE]
                   ELSE [items[i] EXCEPT !.data = work.data, !.err = work.err, !.done = TRUE,
                           !.got = IF work.data = "whole" THEN Chunks[f] ELSE 0]
  OBVIOUS
<1>9. /\ items' = [items EXCEPT ![i] = e]
      /\ posted' \in {posted, Append(posted, [what |-> "file", to |-> f])}
  <2>1. CASE items[i].cancel
    BY <2>1, <1>3, <1>5, <1>6, <1>8 DEF Scan!Finish, Scan!Uses
  <2>2. CASE ~items[i].cancel
    <3>1. Scan!Progress(e) /\ e.of = f
      BY <2>2, <1>3, <1>5, <1>6, <1>8 DEF Scan!Finish, Scan!Uses, Scan!Items
    <3> QED
      BY <3>1, <1>3 DEF Scan!Progress
  <2> QED
    BY <2>1, <2>2
<1>10. /\ e \in Scan!Items /\ e.of = f /\ e.cancel = items[i].cancel
       /\ \/ e.cancel /\ e.live = FALSE /\ e.done = items[i].done
          \/ ~e.cancel /\ e.live = items[i].live /\ e.done = TRUE /\ e.data = work.data /\ e.err = work.err
  <2>1. CASE items[i].cancel
    BY <2>1, <1>5, <1>6, <1>8 DEF Scan!Items
  <2>2. CASE ~items[i].cancel
    <3>1. PICK z \in Nat : z = IF work.data = "whole" THEN Chunks[f] ELSE 0
      BY Forest
    <3>2. e = [items[i] EXCEPT !.data = work.data, !.err = work.err, !.done = TRUE, !.got = z]
      BY <2>2, <3>1, <1>8
    <3>3. work.data \in Scan!Infos /\ work.err \in {"", "open", "read"}
      BY <1>5 DEF Works
    <3> QED
      BY <2>2, <3>2, <3>3, <1>5, <1>6 DEF Scan!Items
  <2> QED
    BY <2>1, <2>2
<1>11. /\ items' \in Seq(Scan!Items) /\ DOMAIN items' = DOMAIN items /\ items'[i] = e
       /\ \A x \in DOMAIN items : x # i => items'[x] = items[x]
  BY <1>5, <1>9, <1>10, Replaced
<1>12. v \in Worlds
  <2>1. [what |-> "file", to |-> f] \in Scan!Events /\ posted \in Seq(Scan!Events)
    BY <1>1, <1>5, TypedNow DEF Scan!Events
  <2>2. posted' \in Seq(Scan!Events)
    BY <2>1, <1>9
  <2> QED
    BY <2>2, <1>1, <1>2, <1>5, <1>7, <1>11, Typed, TypedNow
<1>13. Worked(v, w, work, i, refused, refused)
  <2>1. \A g \in Scan!Files : w.index.chunks[g] \subseteq 1..Chunks[g]
    BY <1>5 DEF TruthHeld
  <2> QED
    BY <2>1, <1>1, <1>2, <1>3, <1>4, <1>5, <1>6, <1>7, <1>10, <1>11, Now, Then DEF Worked
<1>14. Left(v, i, refused)
  <2>1. v.items[i] = e /\ v.index = index
    BY <1>2, <1>7, <1>11, Then
  <2>2. CASE e.cancel
    <3>1. e.live = FALSE /\ ~e.done
      BY <2>2, <1>5, <1>10
    <3> QED
      BY <2>1, <2>2, <3>1 DEF Left
  <2>3. CASE ~e.cancel
    <3>1. e.live /\ e.done /\ e.data = work.data /\ e.err = work.err /\ ~items[i].cancel
      BY <2>3, <1>5, <1>10
    <3>2. e.err = "" => InfoTrue(f, e.data, index, refused)
      <4>1. WorkHeld(w, work, refused) /\ w.items = items /\ w.index = index
        BY <1>1, <1>4, Working, Now
      <4> QED
        BY <4>1, <3>1, <1>3, <1>4, <1>6 DEF WorkHeld, InfoTrue
    <3> QED
      BY <2>1, <2>3, <3>1, <3>2, <1>4, <1>10 DEF Left
  <2> QED
    BY <2>2, <2>3
<1>15. ScannerHeld(v, Scan!NoJob, refused)
  BY <1>5, <1>12, <1>13, <1>14, LeavesHeld
<1> QED
  BY <1>2, <1>7, <1>15 DEF HeldNow

-----------------------------------------------------------------------------
(* All steps, and what they keep.                                          *)

LEMMA HeldInit == ASSUME Scan!Init PROVE HeldNow
<1>1. PICK w : w = Scan!World
  OBVIOUS
<1>2. PICK x : x = [chunks |-> [f \in Scan!Files |-> IF f \in Known THEN 1..Chunks[f] ELSE {}],
                    info |-> [n \in Scan!Nodes |-> IF n \in Known THEN "whole" ELSE "none"]]
  OBVIOUS
<1>3. /\ w.scan = [n \in Scan!Nodes |-> Scan!Blank] /\ w.items = <<>> /\ w.queue = <<>>
      /\ w.posted = <<>> /\ w.chat = [at |-> "none", cancelled |-> FALSE, next |-> 0]
      /\ w.sent = <<>> /\ w.index = x /\ w.failed = {}
      /\ work = Scan!NoJob /\ refused = {} /\ faults = 0
  BY <1>1, <1>2, Now DEF Scan!Init
<1>4. /\ x \in [chunks : [Scan!Files -> SUBSET Nat], info : [Scan!Nodes -> Scan!Infos]]
      /\ \A f \in Scan!Files : /\ InfoTrue(f, x.info[f], x, refused)
                               /\ x.chunks[f] \subseteq 1..Chunks[f]
  <2>1. x.chunks \in [Scan!Files -> SUBSET Nat] /\ x.info \in [Scan!Nodes -> Scan!Infos]
    BY <1>2, Forest DEF Scan!Infos
  <2>2. \A f \in Scan!Files : /\ x.chunks[f] = IF f \in Known THEN 1..Chunks[f] ELSE {}
                              /\ x.info[f] = IF f \in Known THEN "whole" ELSE "none"
    BY <1>2, Forest
  <2> QED
    BY <2>1, <2>2, <1>2 DEF InfoTrue
<1>5. Scan!Blank \in Scan!Scans
  BY DEF Scan!Blank, Scan!Scans, Scan!Infos
<1>6. w \in Worlds
  <2>1. /\ scan \in [Scan!Nodes -> Scan!Scans] /\ items \in Seq(Scan!Items) /\ queue \in Seq(Nat)
        /\ posted \in Seq(Scan!Events) /\ sent \in Seq(Seq(Scan!Infos)) /\ index = x /\ failed = {}
    BY <1>5, <1>2 DEF Scan!Init
  <2>2. chat \in [at : {"none", "scanning", "sent", "going", "gone"}, cancelled : BOOLEAN,
                  next : 0..Len(Dropped)]
    BY Forest DEF Scan!Init
  <2> QED
    BY <2>1, <2>2, <1>1, <1>4 DEF Scan!World, Worlds
<1>7. work \in Works /\ work.item = 0
  BY <1>3 DEF Works, Scan!NoJob, Scan!Infos
<1>8. \A n \in Scan!Nodes : /\ w.scan[n].st = "Absent" /\ w.scan[n].item = 0
                            /\ w.scan[n].timer = FALSE
  BY <1>3 DEF Scan!Blank
<1>9. DOMAIN w.items = {} /\ DOMAIN w.queue = {} /\ DOMAIN w.sent = {} /\ Len(w.sent) = 0
  BY <1>3
<1>10. ScansHeld(w)
  BY <1>8, Forest DEF ScansHeld
<1>11. TruthHeld(w, refused)
  <2>1. \A n \in Scan!Nodes : w.scan[n].st # "Success"
    BY <1>8
  <2>2. \A d \in Scan!Dirs : w.scan[d].st # "Success"
    BY <2>1, Forest
  <2>3. \A f \in Scan!Files : w.scan[f].st # "Success"
    BY <2>1, Forest
  <2> QED
    BY <2>1, <2>2, <2>3, <1>3, <1>4, <1>9 DEF TruthHeld
<1>12. ItemsHeld(w, work) /\ WorkHeld(w, work, refused)
  BY <1>7, <1>9 DEF ItemsHeld, WorkHeld
<1>13. SentHeld(w)
  <2>1. w.chat.at = "none" /\ w.chat.next = 0
    BY <1>3
  <2>2. Waiting(w) = {}
    BY <2>1 DEF Waiting
  <2> QED
    BY <2>1, <2>2, <1>3, <1>8, <1>9 DEF SentHeld
<1>14. ScannerHeld(w, work, refused)
  BY <1>3, <1>6, <1>7, <1>10, <1>11, <1>12, <1>13 DEF ScannerHeld
<1> QED
  BY <1>1, <1>3, <1>14, Forest DEF HeldNow

LEMMA HeldNext == ASSUME HeldNow, [Scan!Next]_(Scan!vars) PROVE HeldNow'
<1>1. CASE Scan!Thread
  BY <1>1, GetWorkStep, OpenFailsStep, FinishStep, KeyChunkStep, DataChunkStep, EncodedStep DEF Scan!Thread
<1>2. CASE Scan!Window
  <2>1. CASE Scan!Drop
    BY <2>1, DropStep
  <2>2. CASE Scan!Passes
    <3>1. CASE \E as \in Scan!Sights : Scan!StartNext(as)
      BY <3>1, StartNextStep
    <3>2. CASE \E n \in Scan!Nodes : Scan!DeleteScan(n)
      BY <3>2, DeleteScanStep
    <3> QED
      BY <2>2, <3>1, <3>2 DEF Scan!Passes
  <2>3. CASE \E n \in Scan!Nodes : Scan!Retry(n)
    BY <2>3, RetryStep DEF Scan!Retry
  <2>4. CASE Scan!Deliver
    BY <2>4, DeliverStep
  <2>5. CASE Scan!Cancel
    BY <2>5, CancelStep
  <2> QED
    BY <1>2, <2>1, <2>2, <2>3, <2>4, <2>5 DEF Scan!Window
<1>3. CASE UNCHANGED Scan!vars
  BY <1>3 DEF HeldNow, Scan!World, Scan!vars, Scan!window
<1> QED
  BY <1>1, <1>2, <1>3 DEF Scan!Next

(***************************************************************************)
(* What the threads have before them is sound in all states of the scanner.*)
(***************************************************************************)
LEMMA HeldAlways == Scan!Spec => []HeldNow
  BY HeldInit, HeldNext, PTL DEF Scan!Spec

LEMMA Within ==
  ASSUME NEW S, NEW s \in Seq(S), NEW T, \A k \in DOMAIN s : s[k] \in T
  PROVE  s \in Seq(T)
<1>1. PICK n \in Nat : s \in [1..n -> S]
  OBVIOUS
<1>2. s \in [1..n -> T]
  BY <1>1
<1> QED
  BY <1>2

LEMMA HeldItems == ASSUME HeldNow PROVE ItemsShared
<1>1. PICK w : w = Scan!World
  OBVIOUS
<1>2. /\ w \in Worlds /\ ScansHeld(w) /\ ItemsHeld(w, work) /\ WorkHeld(w, work, refused)
      /\ work \in Works /\ refused \subseteq Scan!Files /\ w.failed \subseteq {"flush"}
      /\ faults \in 0..MaxFaults
  BY <1>1 DEF HeldNow, ScannerHeld
<1>3. /\ w.scan = scan /\ w.items = items /\ w.queue = queue /\ w.failed = failed
  BY <1>1, Now
<1>4. /\ scan \in [Scan!Nodes -> Scan!Scans] /\ items \in Seq(Scan!Items) /\ queue \in Seq(Nat)
      /\ posted \in Seq(Scan!Events)
      /\ chat \in [at : {"none", "scanning", "sent", "going", "gone"}, cancelled : BOOLEAN,
                   next : 0..Len(Dropped)]
      /\ sent \in Seq(Seq(Scan!Infos))
      /\ index \in [chunks : [Scan!Files -> SUBSET Nat], info : [Scan!Nodes -> Scan!Infos]]
      /\ failed \subseteq {"running", "item", "done", "freed", "flush", "status"}
  BY <1>1, <1>2, TypedNow
<1>5. Len(items) \in Nat /\ DOMAIN items = 1..Len(items)
  BY <1>4
<1>6. \A n \in Scan!Nodes : scan[n].item \in 0..Len(items)
  <2> TAKE n \in Scan!Nodes
  <2>1. scan[n].item \in Nat
    BY <1>4 DEF Scan!Scans
  <2>2. scan[n].item # 0 => scan[n].item \in DOMAIN items
    BY <1>2, <1>3 DEF ScansHeld
  <2> QED
    BY <2>1, <2>2, <1>5
<1>7. queue \in Seq(DOMAIN items)
  <2>1. \A k \in DOMAIN queue : queue[k] \in DOMAIN items
    BY <1>2, <1>3 DEF ItemsHeld
  <2> QED
    BY <2>1, <1>4, Within
<1>8. work \in [item : 0..Len(items), chunk : Nat, data : Scan!Infos, err : {"", "read"}]
  <2>1. work.item # 0 => work.item \in DOMAIN items
    BY <1>2, <1>3 DEF WorkHeld
  <2>2. work.item = 0 \/ work.item \in 1..Len(items)
    BY <2>1, <1>5
  <2> QED
    <3>1. PICK n \in Nat : n = Len(items)
      BY <1>5
    <3>2. 0 \in 0..n /\ \A i \in 1..n : i \in 0..n
      OBVIOUS
    <3>3. work.item \in 0..Len(items)
      BY <2>2, <3>1, <3>2
    <3> QED
      BY <3>3, <1>2 DEF Works
<1>9. Scan!TypeOK
  BY <1>2, <1>4, <1>6, <1>7, <1>8 DEF Scan!TypeOK
<1>10. Scan!ItemsOwned
  <2> SUFFICES ASSUME NEW i \in DOMAIN items, items[i].live
               PROVE  \/ \E n \in Scan!Files : scan[n].item = i
                      \/ items[i].cancel /\ (work.item = i \/ i \in Scan!Range(queue))
                      \/ items[i].cancel /\ items[i].err = "open"
    BY DEF Scan!ItemsOwned
  <2>1. Owned(w, i) \/ (w.items[i].cancel /\ (Ahead(w, work, i) \/ w.items[i].err = "open"))
    BY <1>2, <1>3 DEF ItemsHeld
  <2>2. Ahead(w, work, i) => work.item = i \/ i \in Scan!Range(queue)
    BY <1>3 DEF Ahead, Scan!Range
  <2> QED
    BY <2>1, <2>2, <1>3 DEF Owned
<1> QED
  BY <1>2, <1>3, <1>9, <1>10 DEF ItemsShared, Scan!ItemsShared, Scan!ScansSound

LEMMA HeldReports == ASSUME HeldNow PROVE ReportsTrue
<1>1. PICK w : w = Scan!World
  OBVIOUS
<1>2. /\ w \in Worlds /\ TruthHeld(w, refused) /\ SentHeld(w)
  BY <1>1 DEF HeldNow, ScannerHeld
<1>3. /\ w.scan = scan /\ w.index = index /\ w.sent = sent
  BY <1>1, Now
<1>4. Scan!ScannedIsIndexed
  BY <1>2, <1>3 DEF TruthHeld, InfoTrue, Scan!ScannedIsIndexed
<1>5. Scan!SumsTrue
  BY <1>1, <1>2, <1>3 DEF TruthHeld, Scan!SumsTrue
<1>6. Scan!SentWhenScanned
  BY <1>2, <1>3 DEF SentHeld, Scan!SentWhenScanned, Scan!Range
<1> QED
  BY <1>4, <1>5, <1>6 DEF ReportsTrue, Scan!ReportsTrue

(***************************************************************************)
(* No item is used after it is freed, freed by nobody or made twice, and no*)
(* assertion about them fails, whatever files there are and whatever fails.*)
(***************************************************************************)
THEOREM ScannerItems == Scan!Spec => []ItemsShared
  BY HeldAlways, HeldItems, PTL

(***************************************************************************)
(* What is reported as scanned is in the index, but for refused chunks; a  *)
(* directory's numbers are those of its entries; what was dropped is sent  *)
(* once, and after it is scanned.                                          *)
(***************************************************************************)
THEOREM ScannerReports == Scan!Spec => []ReportsTrue
  BY HeldAlways, HeldReports, PTL
=============================================================================
