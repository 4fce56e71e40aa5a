---------------------------- MODULE UpdateAction ----------------------------
(***************************************************************************)
(* Downloading a shared file or directory tree (ui/lib action.cc,          *)
(* update.cc and the directory reader of file.cc).                         *)
(*                                                                         *)
(* Each file or directory is an Update, an Action with a status and a      *)
(* retry timer.  A file's reader asks for all its chunks and collects them *)
(* in a temporary file, renamed at the end; a directory's reader reads the *)
(* blocks of entries, creates an Update for each entry, and adds up what   *)
(* these report, whenever one of them reports.                             *)
(*                                                                         *)
(* An answer that the local stores give at once, or that is part of the    *)
(* metadata, is an answer that comes next.                                 *)
(***************************************************************************)
EXTENDS Naturals, Sequences, FiniteSets, SequencesExt

CONSTANTS
  Updates,    \* the files and directories of the tree
  Root,       \* the one that the user downloads
  Entries,    \* the entries of each directory, in order
  Above,      \* the directories that each Update is in, the nearest first
  Blocks,     \* the blocks of entries of each directory: the records of each
  Size,       \* the number of chunks of each file
  MaybeOdd,   \* entries that may be neither a file nor a directory
  MaxFaults   \* bound: answers and file operations that fail

Dirs == DOMAIN Entries
Files == DOMAIN Size
Entry(d) == {Entries[d][n] : n \in DOMAIN Entries[d]}
Pieces(u) == IF u \in Dirs THEN DOMAIN Blocks[u] ELSE 1..Size[u]
Records(d, b) == Blocks[d][b].recno .. Blocks[d][b].recno + Blocks[d][b].nrecs - 1

\* The Updates are a tree, since one is made for each entry.
UpdateAssumption ==
  /\ Updates = Dirs \cup Files /\ Dirs \cap Files = {} /\ Root \in Updates
  /\ \A f \in Files : Size[f] \in Nat
  /\ Above \in [Updates -> Seq(Dirs)] /\ Above[Root] = <<>>
  /\ \A u \in Updates \ {Root} : \E d \in Dirs : u \in Entry(d)
  /\ \A d \in Dirs :
       /\ Entries[d] \in Seq(Updates \ {Root}) /\ IsInjective(Entries[d])
       /\ \A u \in Entry(d) : Above[u] = <<d>> \o Above[d]
       /\ \A b \in DOMAIN Blocks[d] : /\ Blocks[d][b] \in [recno : Nat, nrecs : Nat \ {0}]
                                      /\ Records(d, b) \subseteq 0..Len(Entries[d]) - 1
       /\ \A r \in 0..Len(Entries[d]) - 1 : \E b \in DOMAIN Blocks[d] : r \in Records(d, b)
  /\ MaybeOdd \subseteq Files /\ MaxFaults \in Nat

VARIABLES
  up,       \* each Update as an Action, with the numbers that it shows
  regions,  \* how many regions of its reader wait for each block or chunk
  disk,     \* each file, its temporary file, and the chunks written to it
  list,     \* each directory's parts with their record numbers; done: all are read
  odd,      \* the entries that are neither a file nor a directory
  faults,   \* the faults so far
  lost,     \* directories one of whose blocks was not found
  failed    \* the assertions that failed: the program is at its end

vars == <<up, regions, disk, list, odd, faults, lost, failed>>

Statuses == {"Absent", "Fresh", "Running", "Success", "Error", "FatalError"}
IsDone(st) == st \in {"Success", "FatalError"}
IsBlocked(st) == st \in {"Error", "FatalError"}

Blank == [st |-> "Absent", timer |-> FALSE, tot |-> 0, got |-> 0, nerr |-> 0]
Made == [Blank EXCEPT !.st = "Fresh"]
NoFile == [tmp |-> FALSE, written |-> {}, file |-> "none"]
NoList == [recs |-> <<>>, parts |-> <<>>, done |-> FALSE]

TypeOK ==
  /\ \A u \in Updates :
       /\ up[u].st \in Statuses /\ up[u].timer \in BOOLEAN
       /\ up[u].tot \in Nat /\ up[u].got \in 0..up[u].tot /\ up[u].nerr \in Nat
       /\ \A p \in Pieces(u) : regions[u][p] \in 0..(MaxFaults + 1)
  /\ \A f \in Files : /\ disk[f].tmp \in BOOLEAN /\ disk[f].written \subseteq Pieces(f)
                      /\ disk[f].file \in {"none", "whole", "partial"}
  /\ \A d \in Dirs : Len(list[d].recs) = Len(list[d].parts) /\ list[d].done \in BOOLEAN
  /\ odd \subseteq MaybeOdd /\ faults \in 0..MaxFaults /\ lost \subseteq Dirs
  /\ failed \subseteq {"done", "bytes", "order"}

Init ==
  /\ up = [u \in Updates |-> IF u = Root THEN Made ELSE Blank]
  /\ regions = [u \in Updates |-> [p \in Pieces(u) |-> 0]]
  /\ disk = [f \in Files |-> NoFile] /\ list = [d \in Dirs |-> NoList]
  /\ odd \in SUBSET MaybeOdd
  /\ faults = 0 /\ lost = {} /\ failed = {}

-----------------------------------------------------------------------------
\* The handlers work on a "world": the Updates and the assertions that failed.
World == [up |-> up, regions |-> regions, disk |-> disk, list |-> list, failed |-> failed]
Put(w, u, rec) == [w EXCEPT !.up[u] = rec]
Fail(w, what) == [w EXCEPT !.failed = @ \cup {what}]

\* setStatus asserts that the Action is not done.
SetStatus(w, u, st) ==
  IF IsDone(w.up[u].st) THEN Fail(w, "done") ELSE Put(w, u, [w.up[u] EXCEPT !.st = st])

Total(s) ==
  LET sum[k \in 0..Len(s)] == IF k = 0 THEN 0 ELSE sum[k - 1] + s[k]
  IN  sum[Len(s)]

\* What the parts of d show, and the errors that they and those below them have.
Parts(w, d) == w.list[d].parts
TotOf(w, d) == Total([n \in DOMAIN Parts(w, d) |-> w.up[Parts(w, d)[n]].tot])
GotOf(w, d) == Total([n \in DOMAIN Parts(w, d) |-> w.up[Parts(w, d)[n]].got])
Errors(a) == a.nerr + (IF IsBlocked(a.st) THEN 1 ELSE 0)
ErrorsOf(w, d) == Total([n \in DOMAIN Parts(w, d) |-> Errors(w.up[Parts(w, d)[n]])])

\* DirReader::check: add up the parts, and finish when all of them have.
Check(w, d) ==
  LET u == w.up[d]
      rec == [u EXCEPT !.tot = TotOf(w, d), !.got = GotOf(w, d), !.nerr = ErrorsOf(w, d)]
      w1 == IF rec = u THEN w ELSE SetStatus(Put(w, d, rec), d, "Running")
      over == w.list[d].done /\ \A n \in DOMAIN Parts(w, d) : IsDone(w.up[Parts(w, d)[n]].st)
  IN  IF IsDone(u.st) THEN w
      ELSE IF over THEN SetStatus(w1, d, IF rec.nerr > 0 THEN "FatalError" ELSE "Success")
      ELSE w1

\* Slip: only the next directory is told.
TellsNext(w, u) == IF Above[u] = <<>> THEN w ELSE Check(w, Head(Above[u]))

\* What an Update reports goes to the directory it is a part of, at once, and
\* from there further up.
Reported(w, u) ==
  LET told[k \in 0..Len(Above[u])] == IF k = 0 THEN w ELSE Check(told[k - 1], Above[u][k])
  IN  told[Len(Above[u])]

ReportStatus(w, u, st) == Reported(SetStatus(w, u, st), u)

\* Slip: the error is not retried.
NeverRetries(w, u) == ReportStatus(w, u, "Error")

SetError(w, u) == ReportStatus(Put(w, u, [w.up[u] EXCEPT !.timer = TRUE]), u, "Error")

\* FileReader::error closes the temporary file.
FileError(w, f) == SetError([w EXCEPT !.disk[f].tmp = FALSE], f)

Read(w, u) == [w EXCEPT !.regions[u] = [p \in Pieces(u) |-> w.regions[u][p] + 1]]

\* Slip: a retry asks only for the chunks that have not been written.
AsksForRest(w, f, ok) ==
  LET w1 == ReportStatus(Put(w, f, [w.up[f] EXCEPT !.tot = Size[f], !.got = 0]), f, "Running")
  IN  IF w.up[f].st = "Running" THEN w
      ELSE [w1 EXCEPT !.regions[f] = [p \in Pieces(f) |->
              IF p \in w.disk[f].written THEN w.regions[f][p] ELSE w.regions[f][p] + 1]]

\* FileReader::start: all chunks are asked for, again if it is a retry.
FileStart(w, f, ok) ==
  LET rec == [w.up[f] EXCEPT !.tot = Size[f]]
  IN  IF w.up[f].st = "Running" THEN w
      ELSE IF Size[f] > 0
      THEN Read(ReportStatus(Put(w, f, [rec EXCEPT !.got = 0]), f, "Running"), f)
      ELSE IF ok THEN ReportStatus([Put(w, f, rec) EXCEPT !.disk[f].file = "whole"], f, "Success")
      ELSE FileError(Put(w, f, rec), f)

DirReadDone(w, d) == Reported(Check([w EXCEPT !.list[d].done = TRUE], d), d)

ReadDir(w, d) == IF Entries[d] = <<>> THEN DirReadDone(w, d) ELSE Read(w, d)
DirStart(w, d) == IF w.up[d].st = "Running" THEN w ELSE ReadDir(w, d)

StartUpdate(w, u, ok) ==
  IF u \in odd THEN ReportStatus(w, u, "FatalError")
  ELSE IF u \in Dirs THEN DirStart(w, u) ELSE FileStart(w, u, ok)

\* gotData2 of a file: a chunk is written, unless an error came before it.
FileData(w, f, c, ok) ==
  LET a == w.up[f]
      rec == [a EXCEPT !.got = IF @ < a.tot THEN @ + 1 ELSE @]
      file == [w.disk[f] EXCEPT !.tmp = TRUE, !.written = @ \cup {c}]
  IN  IF a.st # "Running" THEN w
      ELSE IF ok THEN ReportStatus([Put(w, f, rec) EXCEPT !.disk[f] = file], f, "Running")
      ELSE FileError(w, f)

FileReadDone(w, f, ok) ==
  LET a == w.up[f]
      is == IF w.disk[f].written = Pieces(f) THEN "whole" ELSE "partial"
      file == [w.disk[f] EXCEPT !.tmp = FALSE, !.file = IF ok THEN is ELSE "none"]
      w1 == [w EXCEPT !.disk[f] = file]
  IN  IF a.st # "Running" THEN w
      ELSE IF a.got # a.tot \/ ~w.disk[f].tmp THEN Fail(w, "bytes")
      ELSE IF ok THEN ReportStatus(w1, f, "Success") ELSE FileError(w1, f)

\* Slip: entries go where those with greater numbers are.
FindsEnd(recs, recno) == Len(recs)

\* The place where a record belongs among those that are there, in their order.
FindPos(recs, recno) ==
  CHOOSE pos \in 0..Len(recs) : /\ \A n \in 1..pos : recs[n] < recno
                                /\ \A n \in pos + 1..Len(recs) : recs[n] >= recno

InsertAll(seq, pos, new) == SubSeq(seq, 1, pos) \o new \o SubSeq(seq, pos + 1, Len(seq))

\* The entries of block b are inserted, each with an Update of its own.
Inserted(w, d, b) ==
  LET recno == Blocks[d][b].recno
      nrecs == Blocks[d][b].nrecs
      pos == FindPos(w.list[d].recs, recno)
      new == SubSeq(Entries[d], recno + 1, recno + nrecs)
      recs == InsertAll(w.list[d].recs, pos, [n \in 1..nrecs |-> recno + n - 1])
      parts == InsertAll(w.list[d].parts, pos, new)
  IN  [w EXCEPT !.list[d] = [@ EXCEPT !.recs = recs, !.parts = parts],
                !.up = [v \in Updates |-> IF v \in Range(new) THEN Made ELSE w.up[v]]]

\* gotData2 of a directory: the entries are inserted, and then all started.
DirData(w, d, b, ok) ==
  LET recno == Blocks[d][b].recno
      nrecs == Blocks[d][b].nrecs
      recs == w.list[d].recs
      pos == FindPos(recs, recno)
      started[k \in 0..nrecs] ==
        IF k = 0 THEN Inserted(w, d, b)
        ELSE StartUpdate(started[k - 1], Entries[d][recno + k], ok)
  IN  IF pos < Len(recs) /\ recs[pos + 1] < recno + nrecs THEN Fail(w, "order")
      ELSE started[nrecs]

\* Each region that waits for the piece is given it.
Given(w, u, p, ok) ==
  LET given[n \in 0..w.regions[u][p]] ==
        IF n = 0 THEN w
        ELSE IF given[n - 1].failed # {} THEN given[n - 1]
        ELSE IF u \in Dirs THEN DirData(given[n - 1], u, p, ok)
        ELSE FileData(given[n - 1], u, p, ok)
  IN  given[w.regions[u][p]]

\* No region waits for it then, and readDone follows when none is left at all.
Answered(w, u, p, ok) ==
  LET w1 == [w EXCEPT !.regions[u][p] = 0]
  IN  IF w.failed # {} THEN w
      ELSE IF \E q \in Pieces(u) : w1.regions[u][q] > 0 THEN w1
      ELSE IF u \in Dirs THEN DirReadDone(w1, u) ELSE FileReadDone(w1, u, ok)

-----------------------------------------------------------------------------
\* A fault is an operation of the step that fails.
Fault(ok) == /\ failed = {}
             /\ IF ok THEN UNCHANGED faults
                ELSE faults < MaxFaults /\ faults' = faults + 1
Become(w) == /\ up' = w.up /\ regions' = w.regions /\ disk' = w.disk /\ list' = w.list
             /\ failed' = w.failed /\ UNCHANGED odd

\* The user starts it once.
NotStarted ==
  /\ up[Root] = Made /\ \A p \in Pieces(Root) : regions[Root][p] = 0
  /\ Root \in Dirs => list[Root] = NoList

Start(ok) ==
  /\ NotStarted /\ Fault(ok)
  /\ Become(StartUpdate(World, Root, ok)) /\ UNCHANGED lost

\* "okdone" is for what readDone does.
GotPiece(u, p, ok, okdone) ==
  /\ regions[u][p] > 0 /\ Fault(ok /\ okdone)
  /\ Become(Answered(Given(World, u, p, ok), u, p, okdone))
  /\ UNCHANGED lost

NoPiece(u, p) ==
  /\ regions[u][p] > 0 /\ Fault(FALSE)
  /\ Become(Answered(IF u \in Dirs THEN SetError(World, u) ELSE FileError(World, u), u, p, TRUE))
  /\ lost' = IF u \in Dirs THEN lost \cup {u} ELSE lost

RetryTimeout(u, ok) ==
  /\ up[u].timer /\ Fault(ok)
  /\ LET w == Put(World, u, [up[u] EXCEPT !.timer = FALSE])
     IN  Become(IF up[u].st = "Running" THEN w ELSE StartUpdate(w, u, ok))
  /\ UNCHANGED lost

Answer(u) ==
  \E p \in Pieces(u) : NoPiece(u, p) \/ \E ok, okdone \in BOOLEAN : GotPiece(u, p, ok, okdone)

Next ==
  \/ \E ok \in BOOLEAN : Start(ok)
  \/ \E u \in Updates : Answer(u)
  \/ \E u \in Updates, ok \in BOOLEAN : RetryTimeout(u, ok)

\* What is still to come: the user's start, an answer, or the end of a timer.
Due == \/ NotStarted
       \/ \E u \in Updates : up[u].timer \/ \E p \in Pieces(u) : regions[u][p] > 0

\* Answers come and timers run out.  This is the weak fairness of Next, with
\* what enables it written out.
Spec == Init /\ [][Next]_vars /\ (<>[](Due /\ failed = {}) => []<><<Next>>_vars)

-----------------------------------------------------------------------------
\* A file that was downloaded is there, with all its chunks: also after parts
\* of it were read twice, or in an earlier attempt.
FilesWhole == \A f \in Files \ odd : up[f].st = "Success" => disk[f].file = "whole"

\* A directory whose blocks were all found only succeeds with all its parts,
\* each of which did.
DirsWhole ==
  \A d \in Dirs \ lost : up[d].st = "Success" =>
    /\ list[d].parts = Entries[d]
    /\ \A n \in DOMAIN list[d].parts : up[list[d].parts[n]].st = "Success"

\* The entries are listed in the directory's order, whatever the order in which
\* its blocks came.
EntriesOrdered ==
  \A d \in Dirs :
    /\ \A n \in DOMAIN list[d].recs : list[d].parts[n] = Entries[d][list[d].recs[n] + 1]
    /\ \A m, n \in DOMAIN list[d].recs : m < n => list[d].recs[m] < list[d].recs[n]

\* What succeeds is whole, whatever failed or was read twice on the way.
DownloadsWhole == TypeOK /\ FilesWhole /\ DirsWhole /\ EntriesOrdered

\* A directory at work shows what its parts have reported.
TotalsTrue ==
  \A d \in Dirs : ~IsDone(up[d].st) =>
    up[d].tot = TotOf(World, d) /\ up[d].got = GotOf(World, d)

\* update.cc:163: all bytes are counted when the file has been read, though
\* answers to two readings may be mixed.
BytesCounted == "bytes" \notin failed

\* The bytes the user is shown, of files and of directories.
CountsTrue == TotalsTrue /\ BytesCounted

\* action.h:85: after an error of a file its download is started again.
ErrorsRetried == \A f \in Files : up[f].st = "Error" => up[f].timer

\* A download comes to its end, unless a directory could not be read.
DownloadEnds == <>(IsDone(up[Root].st) \/ lost # {})
=============================================================================
