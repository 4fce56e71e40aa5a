------------------------------ MODULE Scanner ------------------------------
(***************************************************************************)
(* Scanning the files that the user drops on a chat (ui/lib scan.cc, with  *)
(* Action of action.cc and the ChatScanner of gui/chat.cc).                *)
(*                                                                         *)
(* In the window's thread each file or directory is a Scan, an Action with *)
(* a status and a retry timer.  A file's Scan queues a work item for the   *)
(* scanner's thread, which puts the file's chunks in the index and posts   *)
(* progress back; a directory's Scan sums up its parts.  When all dropped  *)
(* files are scanned they are sent to the partner.  The user may cancel.   *)
(*                                                                         *)
(* Posted events are delivered in order, timers at any time.  A handler    *)
(* of the window meets the scanner's thread only where it locks scanmutex, *)
(* once per item: it is one step, or one per Scan where it goes over all.  *)
(***************************************************************************)
EXTENDS Naturals, Sequences, SequencesExt

CONSTANTS
  Dropped,    \* the files and directories dropped, in order
  Chunks,     \* the number of chunks of each file; 0: kept in its metadata
  Subs,       \* the entries of each directory, in order
  Known,      \* files that the index knows from an earlier scan
  MaxKeys,    \* MAXKEYS: a file of more chunks has chunks of their keys, too
  MaxFaults   \* bound: operations that fail, and directories found empty

Files == DOMAIN Chunks
Dirs == DOMAIN Subs
Nodes == Files \cup Dirs
Part(n) == IF n \in Dirs THEN {Subs[n][k] : k \in DOMAIN Subs[n]} ELSE {}

\* Each file or directory has one place: it is dropped or an entry of one
\* directory.  (What is dropped twice has two Scans, and is two of them here.)
ScannerAssumption ==
  /\ Files \cap Dirs = {} /\ Known \subseteq Files
  /\ MaxKeys \in Nat \ {0} /\ MaxFaults \in Nat
  /\ \A f \in Files : Chunks[f] \in Nat
  /\ Dropped \in Seq(Nodes) /\ Dropped # <<>> /\ IsInjective(Dropped)
  /\ \A d \in Dirs :
       /\ Subs[d] \in Seq(Nodes \ {d}) /\ Part(d) \cap {Dropped[k] : k \in DOMAIN Dropped} = {}
       /\ \A e \in Dirs \ {d} : Part(d) \cap Part(e) = {}

VARIABLES
  scan,     \* the Scan of each file or directory
  items,    \* the work items made so far
  queue,    \* scanqueue
  job,      \* what the scanner's thread is doing
  posted,   \* events on their way to the window's thread
  chat,     \* the ChatScanner, and which of the dropped it starts next (0: none)
  sent,     \* what was sent to the partner
  index,    \* the chunks and the file information in the index
  refused,  \* files of which the index has refused a chunk of keys
  faults,   \* the faults so far
  failed    \* the assertions that failed: the program is at its end

window == <<scan, posted, chat, sent>>
vars == <<window, items, queue, job, index, refused, faults, failed>>

Infos == {"none", "hollow", "whole"}
Blank == [st |-> "Absent", timer |-> FALSE, item |-> 0, info |-> "none",
          got |-> 0, tot |-> 0, nfiles |-> 1]
NoJob == [item |-> 0, chunk |-> 0, data |-> "none", err |-> ""]

Scans == [st : {"Absent", "Fresh", "Running", "Success", "Error", "Deleted"}, timer : BOOLEAN,
          item : Nat, info : Infos, got : Nat, tot : Nat, nfiles : Nat]
Items == [of : Files, got : Nat, done : BOOLEAN, cancel : BOOLEAN,
          err : {"", "open", "read"}, data : Infos, live : BOOLEAN]
Events == [what : {"file"}, to : Files] \cup [what : {"dir"}, to : Dirs]
          \cup [what : {"delete"}, to : {"chat"}]

TypeOK ==
  /\ scan \in [Nodes -> Scans] /\ \A n \in Nodes : scan[n].item \in 0..Len(items)
  /\ items \in Seq(Items) /\ queue \in Seq(DOMAIN items) /\ posted \in Seq(Events)
  /\ job \in [item : 0..Len(items), chunk : Nat, data : Infos, err : {"", "read"}]
  /\ chat \in [at : {"none", "scanning", "sent", "going", "gone"}, cancelled : BOOLEAN,
               next : 0..Len(Dropped)]
  /\ index \in [chunks : [Files -> SUBSET Nat], info : [Nodes -> Infos]]
  /\ faults \in 0..MaxFaults /\ sent \in Seq(Seq(Infos)) /\ refused \subseteq Files
  /\ failed \subseteq {"running", "item", "done", "freed", "flush", "status"}

Init ==
  /\ scan = [n \in Nodes |-> Blank]
  /\ items = <<>> /\ queue = <<>> /\ job = NoJob /\ posted = <<>>
  /\ chat = [at |-> "none", cancelled |-> FALSE, next |-> 0] /\ sent = <<>>
  /\ index = [chunks |-> [f \in Files |-> IF f \in Known THEN 1..Chunks[f] ELSE {}],
              info |-> [n \in Nodes |-> IF n \in Known THEN "whole" ELSE "none"]]
  /\ refused = {} /\ faults = 0 /\ failed = {}

-----------------------------------------------------------------------------
(* The handlers of the window's thread, as functions on its state. *)

World == [scan |-> scan, items |-> items, queue |-> queue, posted |-> posted,
          chat |-> chat, sent |-> sent, index |-> index, failed |-> failed]

Become(w) ==
  /\ scan' = w.scan /\ items' = w.items /\ queue' = w.queue /\ posted' = w.posted
  /\ chat' = w.chat /\ sent' = w.sent /\ index' = w.index /\ failed' = w.failed

Post(w, e) == [w EXCEPT !.posted = Append(@, e)]
Fail(w, what) == [w EXCEPT !.failed = @ \cup {what}]
IsDone(w, n) == w.scan[n].st = "Success"

DeleteLater(w) ==
  IF \E k \in DOMAIN w.posted : w.posted[k].what = "delete" THEN w
  ELSE Post(w, [what |-> "delete", to |-> "chat"])

\* ChatScanner::scanProgress: when all are done they are sent, once.
ScanProgress(w) ==
  IF w.chat.at = "scanning" /\ \A k \in DOMAIN Dropped : IsDone(w, Dropped[k])
  THEN DeleteLater([w EXCEPT !.sent = Append(@, [k \in DOMAIN Dropped |-> w.scan[Dropped[k]].info]),
                             !.chat.at = "sent"])
  ELSE w

\* statusChanged reaches the ChatScanner at once, a directory's Scan by an event.
StatusChanged(w, n) ==
  LET above == {d \in Dirs : n \in Part(d) /\ w.scan[d].st # "Absent"}
  IN  IF above # {} THEN Post(w, [what |-> "dir", to |-> CHOOSE d \in above : TRUE])
      ELSE ScanProgress(w)

\* The status and its text, which tells the numbers, but not after the end.
Status(w, n, old, st) ==
  IF w.scan[n].st = "Success" THEN Fail(w, "status")
  ELSE LET w1 == [w EXCEPT !.scan[n].st = st]
       IN  IF w1.scan[n] = old THEN w1 ELSE StatusChanged(w1, n)

\* Slip: no timer starts it again.
NeverRetries(w, n) == Status(w, n, w.scan[n], "Error")

SetError(w, n) ==
  LET w1 == [w EXCEPT !.scan[n].timer = TRUE] IN Status(w1, n, w1.scan[n], "Error")
Report(w, n, old) == Status(w, n, old, "Running")
ReportDone(w, n) ==
  Status([w EXCEPT !.index.info[n] = w.scan[n].info], n, Blank, "Success")

ScanFile(w, f) ==
  LET i == Len(w.items) + 1
      new == [of |-> f, got |-> 0, done |-> FALSE, cancel |-> FALSE, err |-> "",
              data |-> "none", live |-> TRUE]
  IN  IF w.scan[f].item # 0 THEN Fail(w, "item")
      ELSE Report([w EXCEPT !.items = Append(@, new), !.queue = Append(@, i),
                            !.scan[f] = [@ EXCEPT !.item = i, !.tot = Chunks[f]]], f, Blank)

\* The parts start from the event loop.  Where there are none nothing more happens.
ScanEmpty(w, d) == Report(w, d, Blank)
ScanDir(w, d) ==
  Report([w EXCEPT !.scan = [n \in Nodes |->
            IF n \in Part(d) THEN [Blank EXCEPT !.st = "Fresh", !.timer = TRUE]
            ELSE @[n]]], d, Blank)

\* Scan::start; "as" says what is found at the path.
Start(w, n, as) ==
  IF w.scan[n].st = "Running" THEN w
  ELSE CASE as \in {"missing", "odd"} -> SetError(w, n)
         [] as = "same" -> ReportDone([w EXCEPT !.scan[n].info = w.index.info[n]], n)
         [] as = "empty" -> ScanEmpty(w, n)
         [] as = "there" -> IF n \in Dirs THEN ScanDir(w, n) ELSE ScanFile(w, n)

Found(n, as) ==
  \/ as = "there"
  \/ as = "same" /\ n \in Files /\ index.info[n] # "none"
  \/ as \in {"missing", "odd"} /\ faults < MaxFaults
  \/ as = "empty" /\ n \in Dirs /\ faults < MaxFaults

-----------------------------------------------------------------------------
(* Steps of the window's thread. *)

\* The window's thread is at its event loop.
Free == chat.next = 0 /\ chat.at # "going"

\* dropEvent: the Scans are made, and started in a second pass.
Drop ==
  /\ chat.at = "none" /\ chat' = [chat EXCEPT !.at = "scanning", !.next = 1]
  /\ scan' = [n \in Nodes |-> IF \E k \in DOMAIN Dropped : Dropped[k] = n
                              THEN [Blank EXCEPT !.st = "Fresh"] ELSE scan[n]]
  /\ UNCHANGED <<items, queue, posted, sent, job, index, refused, faults, failed>>

Starts(w, n, as) ==
  /\ Found(n, as)
  /\ faults' = faults + (IF as \in {"missing", "odd", "empty"} THEN 1 ELSE 0)
  /\ Become(Start(w, n, as))
  /\ UNCHANGED <<job, refused>>

StartNext(as) ==
  /\ chat.next # 0
  /\ Starts([World EXCEPT !.chat.next = IF @ = Len(Dropped) THEN 0 ELSE @ + 1],
            Dropped[chat.next], as)

RetryTimeout(n, as) ==
  /\ Free /\ scan[n].timer
  /\ Starts([World EXCEPT !.scan[n].timer = FALSE], n, as)

Sights == {"there", "same", "missing", "odd", "empty"}
Retry(n) == \E as \in Sights : RetryTimeout(n, as)

FileProgress(w, f) ==
  LET i == w.scan[f].item
      item == w.items[i]
      s == w.scan[f]
      read == [w EXCEPT !.scan[f] = [s EXCEPT !.got = item.got,
                                       !.tot = IF item.got > s.tot THEN item.got ELSE s.tot]]
      over == [w EXCEPT !.scan[f] = [s EXCEPT !.got = item.got, !.tot = item.got,
                                              !.info = item.data, !.item = 0],
                        !.items[i].live = FALSE]
  IN  IF i = 0 THEN w
      ELSE IF w.scan[f].st # "Running" THEN Fail(w, "running")
      ELSE IF ~item.live THEN Fail(w, "freed")
      ELSE IF ~item.done THEN Report(read, f, w.scan[f])
      ELSE IF item.err # "" THEN SetError(over, f)
      ELSE ReportDone(over, f)

Total(s) ==
  LET sum[k \in 0..Len(s)] == IF k = 0 THEN 0 ELSE sum[k - 1] + s[k]
  IN  sum[Len(s)]

\* What the parts of d have got, are in total, and how many files they are.
GotOf(w, d) == Total([k \in DOMAIN Subs[d] |-> w.scan[Subs[d][k]].got])
TotOf(w, d) == Total([k \in DOMAIN Subs[d] |-> w.scan[Subs[d][k]].tot])
FilesOf(w, d) == 1 + Total([k \in DOMAIN Subs[d] |-> w.scan[Subs[d][k]].nfiles])

DirProgress(w, d) ==
  LET rec == [w.scan[d] EXCEPT !.got = GotOf(w, d), !.tot = TotOf(w, d), !.nfiles = FilesOf(w, d)]
      w1 == Report([w EXCEPT !.scan[d] = rec], d, w.scan[d])
      whole == \A n \in Part(d) : w.scan[n].info = "whole"
  IN  IF w.scan[d].st # "Running" THEN w
      ELSE IF \A n \in Part(d) : IsDone(w, n)
           THEN ReportDone([w1 EXCEPT !.scan[d].info = IF whole THEN "whole" ELSE "hollow"], d)
           ELSE w1

\* Slip: the item goes with its Scan, whoever is using it.
TakesItemAlong(item) == [item EXCEPT !.live = FALSE]

\* ~Scan: an item that is done goes with it, another is left to the scanner.
Destroy(item) ==
  IF item.done THEN [item EXCEPT !.live = FALSE] ELSE [item EXCEPT !.cancel = TRUE]

\* The ChatScanner goes, with its Scans, a directory's before those of its
\* entries, and with the events posted to them.
Exists(n) == scan[n].st \notin {"Absent", "Deleted"}
DeleteScan(n) ==
  /\ chat.at = "going" /\ Exists(n) /\ \A d \in Dirs : n \in Part(d) => ~Exists(d)
  /\ scan' = [scan EXCEPT ![n] = [Blank EXCEPT !.st = "Deleted"]]
  /\ items' = IF scan[n].item = 0 THEN items ELSE [items EXCEPT ![scan[n].item] = Destroy(@)]
  /\ IF \E m \in Nodes \ {n} : Exists(m) THEN UNCHANGED <<chat, posted>>
     ELSE chat' = [chat EXCEPT !.at = "gone"] /\ posted' = <<>>
  /\ UNCHANGED <<queue, sent, job, index, refused, faults, failed>>

Deliver ==
  /\ Free /\ posted # <<>>
  /\ LET e == Head(posted)
         w == [World EXCEPT !.posted = Tail(@)]
     IN  Become(CASE e.what = "file" -> FileProgress(w, e.to)
                  [] e.what = "dir" -> DirProgress(w, e.to)
                  [] OTHER -> [w EXCEPT !.chat.at = "going"])
  /\ UNCHANGED <<job, refused, faults>>

\* scanCanceled, by the progress window's button or as the chat is closed.
Cancel ==
  /\ Free /\ chat.at = "scanning" /\ ~chat.cancelled
  /\ Become(DeleteLater([World EXCEPT !.chat.cancelled = TRUE]))
  /\ UNCHANGED <<job, refused, faults>>

-----------------------------------------------------------------------------
(* Steps of the scanner's thread. *)

GetWork ==
  /\ job.item = 0 /\ queue # <<>>
  /\ job' = [NoJob EXCEPT !.item = Head(queue), !.chunk = 1] /\ queue' = Tail(queue)
  /\ UNCHANGED <<window, items, index, refused, faults, failed>>

Item == items[job.item]
Working == job.item # 0 /\ job.data = "none"

\* An item that its owner has freed is not there to be used.
Uses(A) == IF Item.live THEN A ELSE failed' = failed \cup {"freed"} /\
                                 UNCHANGED <<window, items, queue, job, index, refused>>

Progress(rec) ==
  /\ items' = [items EXCEPT ![job.item] = rec]
  /\ posted' = Append(posted, [what |-> "file", to |-> rec.of])

OpenFails ==
  /\ Working /\ job.chunk = 1 /\ faults < MaxFaults /\ faults' = faults + 1
  /\ Uses(/\ items' = [items EXCEPT ![job.item].err = "open", ![job.item].done = TRUE]
          /\ posted' = IF Item.cancel THEN posted
                       ELSE Append(posted, [what |-> "file", to |-> Item.of])
          /\ job' = NoJob
          /\ UNCHANGED <<scan, chat, sent, queue, index, refused, failed>>)

\* The coder gives up; finish does not expect that of the last chunk.
GiveUp ==
  IF job.chunk = Chunks[Item.of]
  THEN failed' = failed \cup {"flush"} /\ UNCHANGED job
  ELSE job' = [job EXCEPT !.data = "hollow"] /\ UNCHANGED failed

Goes(ok) == IF ok THEN UNCHANGED faults ELSE faults < MaxFaults /\ faults' = faults + 1

\* ScanCoder::keyChunk: it goes into a file of its own, which cannot be written.
KeyChunkRefused ==
  /\ Working /\ job.chunk > MaxKeys /\ Goes(FALSE)
  /\ Uses(/\ refused' = refused \cup {Item.of} /\ GiveUp
          /\ UNCHANGED <<window, items, queue, index>>)

\* ScanCoder::dataChunk: the chunk goes into the index.
DataChunk ==
  /\ Working /\ job.chunk <= Chunks[Item.of]
  /\ Uses(/\ index' = [index EXCEPT !.chunks[Item.of] = @ \cup {job.chunk}]
          /\ items' = [items EXCEPT ![job.item].got = job.chunk - 1]
          /\ IF Item.done THEN failed' = failed \cup {"done"} /\ UNCHANGED <<posted, job>>
             ELSE IF Item.cancel THEN GiveUp /\ UNCHANGED posted
             ELSE /\ posted' = Append(posted, [what |-> "file", to |-> Item.of])
                  /\ job' = [job EXCEPT !.chunk = @ + 1] /\ UNCHANGED failed
          /\ UNCHANGED <<scan, chat, sent, queue, refused>>)
  /\ UNCHANGED faults

\* Slip: the error of the file is not told.
LosesError(ok) ==
  /\ Working /\ Goes(ok)
  /\ \/ ok /\ job.chunk > Chunks[Item.of] /\ job' = [job EXCEPT !.data = "whole"]
     \/ ~ok /\ job.chunk <= Chunks[Item.of] /\ job' = [job EXCEPT !.data = "hollow"]
  /\ UNCHANGED <<window, items, queue, index, refused, failed>>

\* encode returns: with all read, or with an error of the file.
Encoded(ok) ==
  /\ Working /\ Goes(ok)
  /\ \/ ok /\ job.chunk > Chunks[Item.of] /\ job' = [job EXCEPT !.data = "whole"]
     \/ ~ok /\ job.chunk <= Chunks[Item.of]
        /\ job' = [job EXCEPT !.data = "hollow", !.err = "read"]
  /\ UNCHANGED <<window, items, queue, index, refused, failed>>

\* The end of Scanner::scanFile: an orphan is deleted, another item is done.
Finish ==
  /\ job.item # 0 /\ job.data # "none"
  /\ Uses(/\ job' = NoJob
          /\ IF Item.cancel
             THEN items' = [items EXCEPT ![job.item].live = FALSE] /\ UNCHANGED posted
             ELSE Progress([Item EXCEPT !.data = job.data, !.err = job.err, !.done = TRUE,
                              !.got = IF job.data = "whole" THEN Chunks[Item.of] ELSE 0])
          /\ UNCHANGED <<scan, chat, sent, queue, index, refused, failed>>)
  /\ UNCHANGED faults

Thread == \/ GetWork \/ OpenFails \/ KeyChunkRefused \/ DataChunk \/ Finish
          \/ \E ok \in BOOLEAN : Encoded(ok)

Passes == (\E as \in Sights : StartNext(as)) \/ (\E n \in Nodes : DeleteScan(n))
Window == Drop \/ Passes \/ (\E n \in Nodes : Retry(n)) \/ Deliver \/ Cancel

Alive == failed = {}
Next == Alive /\ (Thread \/ Window)

\* Both threads work on, events are delivered and timers run out: the weak
\* fairness of these steps, with what enables them written out.
Fairness ==
  /\ <>[](Alive /\ (job.item # 0 \/ queue # <<>>)) => []<><<Thread>>_vars
  /\ <>[](Alive /\ ~Free) => []<><<Passes>>_vars
  /\ <>[](Alive /\ Free /\ posted # <<>>) => []<><<Deliver>>_vars
  /\ \A n \in Nodes : <>[](Alive /\ Free /\ scan[n].timer) => []<><<Retry(n)>>_vars

Spec == Init /\ [][Next]_vars /\ Fairness

-----------------------------------------------------------------------------
\* No one uses an item that is freed, changes a status at its end, or makes a
\* second item: scan.cc:45, 124, 140, 376 and action.cc:16.
ScansSound == TypeOK /\ failed \subseteq {"flush"}

\* Each work item has one who will free it: its Scan, or the scanner for an
\* orphan that it has yet to finish.  (Not an orphan whose file it cannot open.)
ItemsOwned ==
  \A i \in DOMAIN items : items[i].live =>
    \/ \E n \in Files : scan[n].item = i
    \/ items[i].cancel /\ (job.item = i \/ i \in Range(queue))
    \/ items[i].cancel /\ items[i].err = "open"

\* A window's Scan and the scanner's thread share an item until one of them frees it.
ItemsShared == ScansSound /\ ItemsOwned

\* What is reported as scanned can be served to others: all chunks of the file
\* are in the index.  (Not when a chunk of keys was refused: no error is told.)
ScannedIsIndexed ==
  \A f \in Files : scan[f].st = "Success" =>
    /\ scan[f].info = "hollow" => f \in refused
    /\ scan[f].info = "whole" => index.chunks[f] = 1..Chunks[f]

\* A directory at its end tells the numbers that its parts tell.
SumsTrue ==
  \A d \in Dirs : scan[d].st = "Success" =>
    /\ \A n \in Part(d) : scan[n].st = "Success"
    /\ scan[d].got = GotOf(World, d) /\ scan[d].tot = TotOf(World, d)
    /\ scan[d].nfiles = FilesOf(World, d)

\* The dropped files are sent at most once, when all of them are scanned.
SentWhenScanned ==
  Len(sent) <= 1 /\ \A m \in Range(sent) : \A k \in DOMAIN Dropped : m[k] # "none"

ReportsTrue == ScannedIsIndexed /\ SumsTrue /\ SentWhenScanned

\* A directory in which nothing was found: none of its entries reports anything.
Waits(d) == scan[d].st = "Running" /\ \A n \in Part(d) : scan[n].st = "Absent"

\* A ChatScanner comes to its end: what was dropped is sent, or cancelled.
\* Only an empty directory keeps it for ever, and not the scans of the files.
ScanEnds ==
  (chat.at = "scanning") ~>
    \/ chat.at = "gone" \/ failed # {}
    \/ (\E d \in Dirs : Waits(d)) /\ \A f \in Files : scan[f].st \in {"Absent", "Success"}
=============================================================================
