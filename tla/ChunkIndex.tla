----------------------------- MODULE ChunkIndex -----------------------------
(***************************************************************************)
(* The local index of chunks (ui/lib index.cc): which local file holds a   *)
(* data chunk, which file of the chunks directory holds a metadata chunk,  *)
(* and what is known of each scanned file.  It is kept in memory and, as   *)
(* an append-only log, in the index file that the constructor reads.       *)
(*                                                                         *)
(* The window's thread and the scanner's thread call it.  A mutex protects *)
(* the tables and the log, but not the files, nor what was read from the   *)
(* tables before; each step below is what happens under one locking.       *)
(***************************************************************************)
EXTENDS Naturals, Sequences, FiniteSets, SequencesExt

CONSTANTS
  Threads,  \* the threads that call the index
  Hashes,   \* hashes of chunks, standing for their contents too
  Paths,    \* local files, each of one data chunk
  Names,    \* names the temporary files get (bound: no name is given twice)
  None,     \* no chunk, file, or name
  Bad,      \* contents that have no hash of Hashes
  MaxLog    \* bound: records in the log

ASSUME IndexAssumption ==
  MaxLog \in Nat /\ None \notin Hashes \cup Names /\ Bad \notin Hashes /\ Bad # None

VARIABLES
  log,      \* the records of the index file
  info,     \* infohash: the contents each path had when it was scanned
  meta,     \* metachunks: the chunk file of each metadata chunk
  chunks,   \* filechunks: the paths recorded for each data chunk
  files,    \* the chunks directory: the contents of each file
  content,  \* the contents of the local files
  used,     \* names of temporary files given out so far
  job       \* what each thread is doing

tables == <<log, info, meta, chunks>>
vars == <<tables, files, content, used, job>>

Records ==
  [tag : {"info"}, path : Paths, is : Hashes] \cup
  [tag : {"meta"}, hash : Hashes, name : Names] \cup
  [tag : {"file"}, hash : Hashes, path : Paths] \cup
  [tag : {"torn"}, within : {"tag", "body"}]

\* A thread is idle or in addMetaChunk ("add") or readStore ("read") of a
\* chunk, with the name it found or gave and the paths it has to try.
Idle == [at |-> "idle", op |-> "read", hash |-> None, name |-> None, try |-> {}]
Jobs == [at : {"idle", "check", "missing", "record", "copy", "try"},
         op : {"add", "read"}, hash : Hashes \cup {None},
         name : Names \cup {None}, try : SUBSET Paths]

TypeOK ==
  /\ log \in Seq(Records) /\ Len(log) <= MaxLog
  /\ info \in [Paths -> Hashes \cup {None}]
  /\ meta \in [Hashes -> Names \cup {None}]
  /\ chunks \in [Hashes -> SUBSET Paths]
  /\ files \in [Names -> Hashes \cup {Bad, None}]
  /\ content \in [Paths -> Hashes \cup {None}]
  /\ used \subseteq Names
  /\ job \in [Threads -> Jobs]
  /\ \A t \in Threads : job[t].at = "idle" => job[t] = Idle

-----------------------------------------------------------------------------
(* Reading the log. *)

\* A record cut short is corruption, but for a tag cut short at the very end,
\* where reading just stops.
Corrupt(l) == \E k \in DOMAIN l :
  l[k].tag = "torn" /\ (l[k].within = "body" \/ k < Len(l))

\* The records before the first corrupt one.
Sound(l) == LET bad == {k \in DOMAIN l : l[k].tag = "torn"}
            IN SubSeq(l, 1, IF bad = {} THEN Len(l)
                            ELSE (CHOOSE k \in bad : \A j \in bad : k <= j) - 1)

Latest(S) == CHOOSE k \in S : \A j \in S : j <= k

LogInfo(l) == [p \in Paths |->
  LET S == {k \in DOMAIN l : l[k].tag = "info" /\ l[k].path = p}
  IN IF S = {} THEN None ELSE l[Latest(S)].is]

\* A metadata chunk counts if its file is still there.
LogMeta(l, dir) == [h \in Hashes |->
  LET S == {k \in DOMAIN l : l[k].tag = "meta" /\ l[k].hash = h /\ dir[l[k].name] # None}
  IN IF S = {} THEN None ELSE l[Latest(S)].name]

LogChunks(l) == [h \in Hashes |->
  {p \in Paths : \E k \in DOMAIN l : l[k].tag = "file" /\ l[k].hash = h /\ l[k].path = p}]

Init ==
  /\ log = <<>>
  /\ info = LogInfo(<<>>) /\ meta = [h \in Hashes |-> None] /\ chunks = LogChunks(<<>>)
  /\ files = [n \in Names |-> None]
  /\ content \in [Paths -> Hashes]
  /\ used = {}
  /\ job = [t \in Threads |-> Idle]

\* Slip: a corrupt log is cleared, and the tables keep what was read of it.
KeepsWhatWasRead(l) ==
  /\ log' = IF Corrupt(l) THEN <<>> ELSE l
  /\ meta' = LogMeta(Sound(l), files) /\ chunks' = LogChunks(Sound(l))
  /\ UNCHANGED files

\* The constructor's reading of the log l.  A corrupt one is cleared, with the
\* chunks directory and two of the tables; the third keeps what was read.
Load(l) ==
  \/ /\ ~Corrupt(l)
     /\ log' = l /\ meta' = LogMeta(Sound(l), files) /\ chunks' = LogChunks(Sound(l))
     /\ UNCHANGED files
  \/ /\ Corrupt(l)
     /\ log' = <<>>
     /\ meta' = [h \in Hashes |-> None] /\ chunks' = [h \in Hashes |-> {}]
     /\ files' = [n \in Names |-> None]

-----------------------------------------------------------------------------
(* Operations of one step. *)

Write(r) == Len(log) < MaxLog /\ log' = Append(log, r)

AddFileInfo(p, h) ==
  /\ info[p] # h
  /\ Write([tag |-> "info", path |-> p, is |-> h])
  /\ info' = [info EXCEPT ![p] = h]
  /\ UNCHANGED <<meta, chunks, files, content, used, job>>

AddFileChunk(p, h) ==
  /\ p \notin chunks[h]
  /\ Write([tag |-> "file", hash |-> h, path |-> p])
  /\ chunks' = [chunks EXCEPT ![h] = @ \cup {p}]
  /\ UNCHANGED <<info, meta, files, content, used, job>>

-----------------------------------------------------------------------------
(* addMetaChunk and readStore, which begin with readMetaChunk. *)

Goes(t, at) == job' = [job EXCEPT ![t].at = at]
Done(t) == job' = [job EXCEPT ![t] = Idle]
NotFound(op) == IF op = "add" THEN "missing" ELSE "copy"

Lookup(t, op, h) ==
  /\ job[t].at = "idle"
  /\ job' = [job EXCEPT ![t] = [Idle EXCEPT
       !.op = op, !.hash = h, !.name = meta[h],
       !.at = IF meta[h] = None THEN NotFound(op) ELSE "check"]]
  /\ UNCHANGED <<tables, files, content, used>>

\* Slip: the entry stays, though its file is removed.
KeepsEntry(t) == meta

\* Slip: the entry is removed whatever name it has by now.
DropsAnyEntry(t) == [meta EXCEPT ![job[t].hash] = None]

\* An entry whose file turned out bad is removed, unless it was replaced.
WithoutBad(t) ==
  IF meta[job[t].hash] = job[t].name THEN [meta EXCEPT ![job[t].hash] = None] ELSE meta

CheckFile(t) ==
  /\ job[t].at = "check"
  /\ \/ /\ files[job[t].name] = job[t].hash
        /\ Done(t)
        /\ UNCHANGED <<meta, files>>
     \/ /\ files[job[t].name] # job[t].hash
        /\ meta' = WithoutBad(t)
        /\ files' = [files EXCEPT ![job[t].name] = None]
        /\ Goes(t, NotFound(job[t].op))
  /\ UNCHANGED <<log, info, chunks, content, used>>

\* Without the lock.  The assertion that the chunk is not in the table (index.cc:345)
\* fails when another thread has added it since readMetaChunk: a build that checks it
\* ends there, as in Crash, and one that does not goes on.
WriteTemp(t) ==
  /\ job[t].at = "missing"
  /\ \E n \in Names \ used :
       /\ used' = used \cup {n}
       /\ files' = [files EXCEPT ![n] = job[t].hash]
       /\ job' = [job EXCEPT ![t].at = "record", ![t].name = n]
  /\ UNCHANGED <<tables, content>>

RecordMeta(t) ==
  /\ job[t].at = "record"
  /\ \/ /\ meta[job[t].hash] # None
        /\ files' = [files EXCEPT ![job[t].name] = None]
        /\ UNCHANGED <<log, meta>>
     \/ /\ meta[job[t].hash] = None
        /\ Write([tag |-> "meta", hash |-> job[t].hash, name |-> job[t].name])
        /\ meta' = [meta EXCEPT ![job[t].hash] = job[t].name]
        /\ UNCHANGED files
  /\ Done(t)
  /\ UNCHANGED <<info, chunks, content, used>>

\* readFileChunk copies the set of places, and tries them without the lock.
CopyPlaces(t) ==
  /\ job[t].at = "copy"
  /\ job' = [job EXCEPT ![t].at = "try", ![t].try = chunks[job[t].hash]]
  /\ UNCHANGED <<tables, files, content, used>>

TryPlace(t) ==
  /\ job[t].at = "try"
  /\ \/ job[t].try = {} /\ Done(t) /\ UNCHANGED chunks
     \/ \E p \in job[t].try :
          \/ content[p] = job[t].hash /\ Done(t) /\ UNCHANGED chunks
          \/ /\ content[p] # job[t].hash
             /\ chunks' = [chunks EXCEPT ![job[t].hash] = @ \ {p}]
             /\ job' = [job EXCEPT ![t].try = @ \ {p}]
  /\ UNCHANGED <<log, info, meta, files, content, used>>

-----------------------------------------------------------------------------
(* What happens to the files, and to the program. *)

Edit(p, h) ==
  /\ content[p] # h
  /\ content' = [content EXCEPT ![p] = h]
  /\ UNCHANGED <<tables, files, used, job>>

Damage(n) ==
  /\ \E h \in Hashes : meta[h] = n /\ files[n] = h
  /\ files' = [files EXCEPT ![n] = Bad]
  /\ UNCHANGED <<tables, content, used, job>>

\* The program ends, perhaps within a record, and is started again.
Restart(l) ==
  /\ Load(l)
  /\ info' = LogInfo(Sound(l))
  /\ job' = [t \in Threads |-> Idle]
  /\ UNCHANGED <<content, used>>

Torn == {Append(log, [tag |-> "torn", within |-> w]) : w \in {"tag", "body"}}

Crash == \E l \in {log} \cup {x \in Torn : Len(x) <= MaxLog} : Restart(l)

Next ==
  \/ \E p \in Paths, h \in Hashes : AddFileInfo(p, h) \/ AddFileChunk(p, h)
  \/ \E t \in Threads : CheckFile(t) \/ WriteTemp(t) \/ RecordMeta(t)
                        \/ CopyPlaces(t) \/ TryPlace(t)
  \/ \E t \in Threads, op \in {"add", "read"}, h \in Hashes : Lookup(t, op, h)
  \/ \E p \in Paths, h \in Hashes \cup {None} : Edit(p, h)
  \/ \E n \in Names : Damage(n)
  \/ Crash

Spec == Init /\ [][Next]_vars
-----------------------------------------------------------------------------
\* The chunks that the tables know are those that are read of the log l.
ReadFrom(l) == \A h \in Hashes :
  /\ meta[h] # None => LogMeta(l, files)[h] = meta[h]
  /\ chunks[h] \subseteq LogChunks(l)[h]

\* A crash has cut a tag short, and the program has gone on writing after it.
WritesAfterTornTag == \E k \in DOMAIN log : log[k].tag = "torn" /\ k < Len(log)

\* Whatever the threads do and wherever the program crashes, the log has each chunk
\* that the tables know, and none that was cleared comes back.  The next start reads
\* them all, unless records have been written after a tag that a crash cut short:
\* the constructor stops at such a tag and leaves it there (index.cc:165-168), so
\* that the start after the next one finds a corrupt log and clears everything.
ChunksAreDurable ==
  /\ TypeOK
  /\ ReadFrom(log)
  /\ WritesAfterTornTag \/ (~Corrupt(log) /\ ReadFrom(Sound(log)))

\* Two threads that add or drop the same chunk never leave an entry whose
\* file is gone or holds another chunk.
EntriesHaveFiles == \A h \in Hashes : meta[h] # None => files[meta[h]] \in {h, Bad}

\* A thread that still holds what it read before never drops an entry that
\* another has made good since: only a rebuilt index loses a good entry.
GoodEntriesStay == [][\A h \in Hashes :
  meta[h] # None /\ files[meta[h]] = h /\ log' # <<>> => meta'[h] = meta[h]]_vars
=============================================================================
