---------------------------- MODULE OpaqueStream ----------------------------
(***************************************************************************)
(* A stream cut into encrypted chunks, and read back (ui/lib opaque.cc).   *)
(*                                                                         *)
(* OpaqueCoder collects what is written, cuts a chunk off whenever its     *)
(* buffer is full, and keeps the chunks' keys in lists, one per level; the *)
(* first part of a list that grows too long becomes a key chunk of the     *)
(* next level.  finish() leaves an OpaqueInfo: the data itself when it is  *)
(* small, or the keys of the highest level.  AbstractOpaqueReader walks    *)
(* down from such an info, with a region for every chunk it waits for.     *)
(*                                                                         *)
(* A chunk is its contents: encryption is convergent and hashes do not     *)
(* collide, so that equal contents are one chunk.                          *)
(*                                                                         *)
(* The coder stops where the consumer of its chunks refuses one, where an  *)
(* assertion of it fails, and where it uses a reference into its list of   *)
(* levels after that has moved, of which anything may come.                *)
(***************************************************************************)
EXTENDS Checksum, FiniteSets

CONSTANTS
  Bytes,         \* the values of a byte
  MaxBytes,      \* bound: the length of a stream
  MaxWrite,      \* bound: bytes written by one call
  MinChunk, MaxChunk,   \* minChunkSize and maxChunkSize
  MinKeys, MaxKeys,     \* MINKEYS and MAXKEYS
  InlineMax,     \* the data of one record that fits the metadata limit
  LimitKeys,     \* the numbers of keys that fit a metadata limit
  HashCheck(_),  \* the first bits of a chunk's hash, from its key
  MayMove,       \* whether the list of levels moves when it grows
  Takes,         \* how many chunks the consumer takes in a call before it refuses one
  Nearby,        \* which chunks the local stores have: none, the key chunks, the small, all
  MaxSkip,       \* bound: bytes or records left out before what is read
  MaxGone        \* bound: chunks that no peer has

ASSUME StreamAssumption ==
  /\ MinChunk \in 1..MaxChunk /\ MinKeys \in 1..MaxKeys /\ LimitKeys \subseteq 1..MaxKeys
  /\ MayMove \subseteq BOOLEAN /\ Takes \subseteq Nat /\ Nearby \subseteq {"none", "keys", "small", "all"}

VARIABLES
  input,   \* the bytes written, and where its records begin
  coder,   \* the OpaqueCoder and the chunks it has handed out
  info,    \* the OpaqueInfo, null until finish()
  reader   \* the AbstractOpaqueReader, what it was asked for and has given

vars == <<input, coder, info, reader>>

SumOf(seq) == FoldLeft(LAMBDA n, m : n + m, 0, seq)
Column(keys, f) == [n \in DOMAIN keys |-> keys[n][f]]

Null == [type |-> "Null", data |-> <<>>, nrecs |-> 0, keys |-> <<>>]

TypeOK ==
  /\ input.data \in Seq(Bytes) /\ input.recs \subseteq 0..MaxBytes
  /\ coder.state \in {"open", "refused", "unflushed", "missummed", "dangling"}
  /\ coder.buf \in Seq(Bytes) /\ Len(coder.buf) <= MaxChunk
  /\ Len(coder.buf) < MaxChunk \/ coder.state # "open"
  /\ coder.totsize \in 0..MaxBytes /\ coder.totrecs \in 0..Cardinality(input.recs)
  /\ info.type \in {"Null", "Inline1", "InlineRecs", "Indirect"}
  /\ reader.state \in {"idle", "reading", "done"} /\ reader.dones \in Nat

Init ==
  /\ input = [data |-> <<>>, recs |-> {0}]
  /\ coder = [state |-> "open", buf |-> <<>>, marks |-> <<0>>, keys |-> <<>>, totsize |-> 0,
              totrecs |-> 0, acc |-> AdlerInit, chk |-> AdlerInit, chunks |-> {},
              takes |-> 0, moves |-> FALSE]
  /\ info = Null
  /\ reader = [state |-> "idle", byrec |-> FALSE, start |-> 0, end |-> 0, regions |-> {},
               got |-> {}, missing |-> {}, asked |-> {}, here |-> {}, gone |-> {},
               dones |-> 0, late |-> FALSE]

-----------------------------------------------------------------------------
\* Keys of chunks.  The body of a key chunk is the list of its subkeys.
DataKey(data, recs) ==
  [level |-> 0, osize |-> Len(data), isize |-> Len(data), irecs |-> recs,
   isum |-> Adler(data, AdlerInit), chunk |-> [data |-> data]]

\* The composed sum of the parts that some keys stand for.
SumOfKeys(keys) ==
  FoldLeft(LAMBDA s, k : AdlerCat(s, k.isum, k.isize), AdlerInit, keys)

KeyKey(keys) ==
  [level |-> keys[1].level + 1, osize |-> Len(keys), isize |-> SumOf(Column(keys, "isize")),
   irecs |-> SumOf(Column(keys, "irecs")), isum |-> SumOfKeys(keys),
   chunk |-> [keys |-> keys]]

\* Where the buffer is cut, and how many of its records that takes.
\* Slip: the whole buffer is cut off, whatever begins in it.
CutsAnywhere(c) ==
  [size |-> Len(c.buf), recs |-> Len(c.marks)]

SplitPoint(c) ==
  LET avail == Len(c.buf)
      n == Len(c.marks)
  IN  CASE avail < MaxChunk ->
             [size |-> avail, recs |-> IF n > 0 /\ c.marks[n] = avail THEN n - 1 ELSE n]
        [] avail = MaxChunk /\ n <= 1 ->
             [size |-> BestEnd(c.buf, MinChunk, MinChunk..MaxChunk), recs |-> n]
        [] avail = MaxChunk /\ n > 1 /\ c.marks[n] < MinChunk ->
             [size |-> c.marks[n], recs |-> n - 1]
        [] OTHER ->
             LET ends == {c.marks[i] : i \in 2..n} \ 0..(MinChunk - 1)
                 size == BestEnd(c.buf, MinChunk, ends)
             IN  [size |-> size, recs |-> Cardinality({i \in 1..n : c.marks[i] < size})]

\* How many keys of a list that is too long go into a key chunk.
SelectEnd(keys) ==
  LET least == CHOOSE n \in MinKeys..MaxKeys :
        \A i \in MinKeys..MaxKeys :
          \/ HashCheck(keys[n]) < HashCheck(keys[i])
          \/ HashCheck(keys[n]) = HashCheck(keys[i]) /\ n >= i
  IN  least

\* What a call of the coder meets, and what it leaves.
Called(c, takes, moves) == [c EXCEPT !.takes = takes, !.moves = moves]
Returned(c) == [c EXCEPT !.takes = 0, !.moves = FALSE]

Open(c) == c.state = "open"

\* dataChunk and keyChunk: the consumer takes the chunk or refuses it.
HandOut(c, chunk) ==
  IF c.takes = 0 THEN [c EXCEPT !.state = "refused"]
  ELSE [c EXCEPT !.takes = @ - 1, !.chunks = @ \cup {chunk}]

\* "kl" is a reference into the list of levels, which addKey may make longer
\* and so move, and is used after it.
UsesMoved(c, grown) == c.moves /\ Len(grown.keys) > Len(c.keys)

\* The chunk "up" of the first keys of a list, once its key is in the list of
\* the next level.  Where it was refused there, this list keeps too many keys;
\* where the chunk itself is refused, the list is cut already.
CutOff(c, grown, l, end, up) ==
  IF ~Open(grown) THEN grown
  ELSE IF UsesMoved(c, grown) THEN [grown EXCEPT !.state = "dangling"]
  ELSE HandOut([grown EXCEPT !.keys[l] = SubSeq(@, end + 1, Len(@))], up.chunk)

\* addKey: the key is appended, and the list shortened if it has too many then.
RECURSIVE Shorten(_, _)
AddKey(c, key) ==
  LET l == key.level + 1
  IN  Shorten(IF l > Len(c.keys) THEN [c EXCEPT !.keys = Append(@, <<key>>)]
              ELSE [c EXCEPT !.keys[l] = Append(@, key)], l)

Shorten(c, l) ==
  LET end == SelectEnd(c.keys[l])
      up  == KeyKey(SubSeq(c.keys[l], 1, end))
  IN  IF Len(c.keys[l]) <= MaxKeys THEN c ELSE CutOff(c, AddKey(c, up), l, end, up)

\* What doChunk does when the chunk is with its consumer.
Advanced(c, cut, acc, chk) ==
  LET kept == SubSeq(c.marks, cut.recs + 1, Len(c.marks))
  IN  IF acc # chk THEN [c EXCEPT !.state = "missummed"]
      ELSE [c EXCEPT !.acc = acc, !.chk = chk,
              !.buf = SubSeq(@, cut.size + 1, Len(@)), !.totsize = @ + cut.size,
              !.marks = [i \in DOMAIN kept |-> kept[i] - cut.size], !.totrecs = @ + cut.recs]

\* Where doChunk returns early the key is in its list, and the bytes are still
\* in the buffer.
Passed(c, chunk) == IF Open(c) THEN HandOut(c, chunk) ELSE c
CutChunk(c, cut, key) ==
  LET out(d) == IF ~Open(d) THEN d
                ELSE Advanced(d, cut, AdlerCat(d.acc, key.isum, cut.size), Adler(key.chunk.data, d.chk))
  IN  out(Passed(AddKey(c, key), key.chunk))

DoChunk(c) ==
  LET with(cut) == CutChunk(c, cut, DataKey(SubSeq(c.buf, 1, cut.size), cut.recs))
  IN  with(SplitPoint(c))

\* doChunk where its result is not looked at, but the buffer must be empty then.
Unlooked(c) == IF c.state = "refused" THEN [c EXCEPT !.state = "unflushed"] ELSE c
Flushed(c) == IF c.buf = <<>> THEN c ELSE Unlooked(DoChunk(c))

\* writeData fills the buffer, and cuts it each time that it is full, up to a
\* chunk that is refused.  Callers write no more after that.
WriteData(data) ==
  /\ info = Null /\ Open(coder) /\ Len(input.data) + Len(data) <= MaxBytes
  /\ \E takes \in Takes, moves \in MayMove :
       LET put(c, x) ==
             LET c1 == [c EXCEPT !.buf = Append(@, x)]
             IN  IF ~Open(c) THEN c ELSE IF Len(c1.buf) = MaxChunk THEN DoChunk(c1) ELSE c1
       IN  coder' = Returned(FoldLeft(put, Called(coder, takes, moves), data))
  /\ input' = [input EXCEPT !.data = @ \o data]
  /\ UNCHANGED <<info, reader>>

\* The rest of a long record is cut off, so that the new one starts a chunk.
\* Callers mark a record only where the one before it is not empty.
Marked(c) == IF Open(c) THEN [c EXCEPT !.marks = Append(@, Len(c.buf))] ELSE c

MarkRecord ==
  /\ info = Null /\ Open(coder) /\ Len(input.data) \notin input.recs
  /\ IF coder.marks # <<>> THEN coder' = Marked(coder)
     ELSE \E takes \in Takes, moves \in MayMove :
            coder' = Returned(Marked(Flushed(Called(coder, takes, moves))))
  /\ input' = [input EXCEPT !.recs = @ \cup {Len(input.data)}]
  /\ UNCHANGED <<info, reader>>

\* The levels are merged upwards until the keys of the last are few enough and
\* say of the stream what the coder has counted.  "kl" is used after addKey
\* here too.
RECURSIVE Merge(_, _, _)
Merge(c, lev, limit) ==
  LET keys == c.keys[lev]
      next(d) == IF Open(d) THEN Merge([d EXCEPT !.keys[lev] = <<>>], lev + 1, limit) ELSE d
      emptied(grown, up) == IF Open(grown) /\ UsesMoved(c, grown)
                            THEN [grown EXCEPT !.state = "dangling"] ELSE Passed(grown, up.chunk)
      merged(up) == emptied(AddKey(c, up), up)
  IN  IF ~Open(c) THEN c
      ELSE IF Len(keys) <= limit /\ lev = Len(c.keys)
      THEN IF SumOfKeys(keys) = c.acc THEN c ELSE [c EXCEPT !.state = "missummed"]
      ELSE next(merged(KeyKey(keys)))

LastRecs(c) ==
  LET n == Len(c.marks)
  IN  IF n > 1 /\ c.marks[n] = Len(c.buf) THEN n - 1 ELSE n

Finish ==
  /\ info = Null /\ Open(coder)
  /\ LET n == LastRecs(coder) IN
     IF coder.keys = <<>> /\ Len(coder.buf) + (IF n > 1 THEN 1 ELSE 0) <= InlineMax
     THEN /\ info' = [type |-> IF n = 1 THEN "Inline1" ELSE "InlineRecs",
                      data |-> coder.buf, nrecs |-> n, keys |-> <<>>]
          /\ UNCHANGED coder
     ELSE \E takes \in Takes, moves \in MayMove, limit \in LimitKeys :
            /\ coder' = Returned(Merge(Flushed(Called(coder, takes, moves)), 1, limit))
            /\ info' = IF ~Open(coder') THEN Null
                       ELSE [type |-> "Indirect", data |-> <<>>, nrecs |-> 0,
                             keys |-> coder'.keys[Len(coder'.keys)]]
  /\ UNCHANGED <<input, reader>>

-----------------------------------------------------------------------------
\* OpaqueInfo::internalSize, internalRecords and internalSum.
IsInline(i) == i.type \in {"Inline1", "InlineRecs"}
InternalSize(i) == IF IsInline(i) THEN Len(i.data) ELSE SumOf(Column(i.keys, "isize"))
InternalRecords(i) == IF IsInline(i) THEN i.nrecs ELSE SumOf(Column(i.keys, "irecs"))
InternalSum(i) == IF IsInline(i) THEN Adler(i.data, AdlerInit) ELSE SumOfKeys(i.keys)

\* What a peer decodes of an encoded info: one whose data is shorter than its
\* number of records is taken for corrupt.
Decoded(i) == IF IsInline(i) /\ i.nrecs \notin 1..Len(i.data) THEN Null ELSE i

IsData(chunk) == "data" \in DOMAIN chunk
OuterSize(chunk) == IF IsData(chunk) THEN Len(chunk.data) ELSE Len(chunk.keys)

\* What gotData checks of a chunk before it is used.
Acceptable(key, chunk) ==
  /\ key.osize = OuterSize(chunk)
  /\ IF key.level = 0 THEN Adler(chunk.data, AdlerInit) = key.isum
     ELSE /\ \A n \in DOMAIN chunk.keys :
               LET k == chunk.keys[n]
               IN  k.level >= 0 /\ k.osize > 0 /\ k.isize > 0 /\ k.irecs \in 0..k.isize
          /\ SumOf(Column(chunk.keys, "isize")) = key.isize

\* The regions of the keys that reach into the part asked for, in order, of a
\* region that begins at byteofs and recofs.
Wanted(r, byteofs, recofs, keys) ==
  LET ofs(n) == byteofs + SumOf(Column(SubSeq(keys, 1, n - 1), "isize"))
      rec(n) == recofs + SumOf(Column(SubSeq(keys, 1, n - 1), "irecs"))
      all == [n \in DOMAIN keys |-> [key |-> keys[n], byteofs |-> ofs(n), recofs |-> rec(n)]]
      reaches(s) == IF r.byrec THEN s.recofs < r.end /\ s.recofs + s.key.irecs > r.start
                    ELSE s.byteofs < r.end /\ s.byteofs + s.key.isize > r.start
  IN  SelectSeq(all, reaches)

\* readChunk answers at once for a chunk that is in the local stores, even
\* from within gotData for another chunk; all the regions of a list are added
\* before any of its chunks is asked for.  There is one call for each key, so
\* that a chunk that comes twice in the list is asked for twice: the local
\* stores answer twice then, and other peers once.
RECURSIVE GotData(_, _), AddKeys(_, _, _, _)
AddKeys(r, byteofs, recofs, keys) ==
  LET new == Wanted(r, byteofs, recofs, keys)
      read(q, s) == IF s.key.chunk \in q.here THEN GotData(q, s.key.chunk)
                    ELSE [q EXCEPT !.asked = @ \cup {s.key.chunk}]
  IN  FoldLeft(read, [r EXCEPT !.regions = @ \cup ToSet(new)], new)

Waiting(r, h) == {s \in r.regions : s.key.chunk = h}

\* readDone is called whenever an answer finds no region left.
Ended(r, left, h) ==
  [r EXCEPT !.regions = left, !.asked = @ \ {h},
            !.state = IF left = {} THEN "done" ELSE @,
            !.dones = IF left = {} THEN @ + 1 ELSE @]

\* Slip: of the regions that wait for a chunk, one goes.
AnswersOne(r, h) ==
  Ended(r, IF Waiting(r, h) = {} THEN r.regions
           ELSE r.regions \ {CHOOSE s \in Waiting(r, h) : TRUE}, h)

\* The regions of the answered chunk go, those that came meanwhile too.
Answered(r, h) == Ended(r, r.regions \ Waiting(r, h), h)

\* gotData2 and noData2, with a note of whether readDone came before.
Deliver(r, g) == [r EXCEPT !.got = @ \cup {g}, !.late = @ \/ r.dones > 0 \/ g \in r.got]
Report(r, s) == [r EXCEPT !.missing = @ \cup {s}, !.late = @ \/ r.dones > 0 \/ s \in r.missing]

GotData(r, h) ==
  LET one(q, s) ==
        IF ~Acceptable(s.key, h) THEN Report(q, s)
        ELSE IF IsData(h) THEN Deliver(q, [ofs |-> s.byteofs, recno |-> s.recofs,
                                           data |-> h.data, nrecs |-> s.key.irecs])
        ELSE AddKeys(q, s.byteofs, s.recofs, h.keys)
  IN  Answered(FoldLeft(one, r, SetToSeq(Waiting(r, h))), h)

NoData(r, h) == Answered(FoldLeft(Report, r, SetToSeq(Waiting(r, h))), h)

\* readBytes (readAll among them) and readRecords.  Bound: one reading.
ReadRegion(byrec, start, end) ==
  LET fresh == [reader EXCEPT !.byrec = byrec, !.start = start, !.end = end, !.state = "reading"]
      of == Decoded(info)
  IN  /\ of # Null /\ reader.state = "idle"
      /\ start < end /\ start <= MaxSkip
      /\ end <= IF byrec THEN InternalRecords(of) ELSE InternalSize(of)
      /\ IF IsInline(of)
         THEN reader' = [fresh EXCEPT !.state = "done", !.dones = 1, !.got =
                {[ofs |-> 0, recno |-> 0, data |-> of.data, nrecs |-> of.nrecs]}]
         ELSE \E near \in Nearby :
                LET here == CASE near = "none" -> {} [] near = "all" -> coder.chunks
                              [] near = "keys" -> {c \in coder.chunks : ~IsData(c)}
                              [] OTHER -> {c \in coder.chunks : OuterSize(c) = 1}
                IN  reader' = AddKeys([fresh EXCEPT !.here = here], 0, 0, of.keys)
      /\ UNCHANGED <<input, coder, info>>

\* A peer has the chunk, or it turns out that nobody has.
Found(h) ==
  /\ h \in reader.asked
  /\ reader' = GotData(reader, h)
  /\ UNCHANGED <<input, coder, info>>

NotFound(h) ==
  /\ h \in reader.asked /\ Cardinality(reader.gone \cup {h}) <= MaxGone
  /\ reader' = NoData([reader EXCEPT !.gone = @ \cup {h}], h)
  /\ UNCHANGED <<input, coder, info>>

Next ==
  \/ \E n \in 1..MaxWrite : \E data \in [1..n -> Bytes] : WriteData(data)
  \/ MarkRecord \/ Finish
  \/ \E byrec \in BOOLEAN, start, end \in 0..MaxBytes : ReadRegion(byrec, start, end)
  \/ \E h \in reader.asked : Found(h) \/ NotFound(h)

Spec == Init /\ [][Next]_vars

-----------------------------------------------------------------------------
\* The data keys below some keys, in the order of the stream.
RECURSIVE LeavesOf(_)
LeavesOf(keys) ==
  FoldLeft(LAMBDA l, k : l \o IF IsData(k.chunk) THEN <<k>> ELSE LeavesOf(k.chunk.keys),
           <<>>, keys)

\* All data keys of the coder: those of higher levels come before.
Leaves == FoldLeft(LAMBDA l, keys : LeavesOf(keys) \o l, <<>>, coder.keys)
LeafOfs(n) == SumOf(Column(SubSeq(Leaves, 1, n - 1), "isize"))

RecordsIn(from, to) == {r \in input.recs : from <= r /\ r < to}

\* The length of the record that goes on at a byte.
RecordLength(ofs) ==
  LET before == {r \in input.recs : r <= ofs}
      after  == {r \in input.recs \cup {Len(input.data)} : r > ofs}
      first  == CHOOSE r \in before : \A s \in before : s <= r
      last   == CHOOSE r \in after : \A s \in after : s >= r
  IN  last - first

\* What follows of the coder is only looked at before the stream is read,
\* which changes nothing in it.

Coding == Open(coder) /\ reader.state = "idle"

\* The chunks that some keys stand for, those of the lists below them included.
RECURSIVE ChunksOf(_)
ChunksOf(keys) ==
  UNION {{k.chunk} \cup (IF IsData(k.chunk) THEN {} ELSE ChunksOf(k.chunk.keys)) : k \in ToSet(keys)}

DataOf(keys) == FoldLeft(LAMBDA d, k : d \o k.chunk.data, <<>>, keys)

\* Nothing of the stream is lost, doubled or moved: the data of the chunks and
\* what is left in the buffer are the bytes written, at any point; and all the
\* chunks have been handed out and were taken, so that who has the keys can
\* find them.
TreeHoldsStream ==
  Coding =>
    /\ ~IsInline(info) => DataOf(Leaves) \o coder.buf = input.data
    /\ UNION {ChunksOf(coder.keys[lev]) : lev \in DOMAIN coder.keys} \subseteq coder.chunks

\* opaque.h:213: each chunk begins on a record boundary, except for those that
\* go on with a record that is too large for a chunk; and the records counted
\* for a chunk are the ones that begin in it.
ChunksStartRecords ==
  Coding => \A n \in DOMAIN Leaves :
    LET ofs == LeafOfs(n)
    IN  /\ ofs \in input.recs \/ RecordLength(ofs) >= MaxChunk
        /\ Leaves[n].irecs = Cardinality(RecordsIn(ofs, ofs + Leaves[n].isize))

\* No list is longer than a key chunk may be (opaque.cc:596), and the info
\* describes all that was written (603 to 605).
ListsFit == Coding => \A lev \in DOMAIN coder.keys : Len(coder.keys[lev]) <= MaxKeys
InfoDescribes ==
  info.type = "Indirect" =>
    /\ InternalSize(info) = coder.totsize /\ coder.totsize = Len(input.data)
    /\ InternalRecords(info) = coder.totrecs
    /\ coder.totrecs = Cardinality(input.recs \ {Len(input.data)})
    /\ InternalSum(info) = coder.acc

\* Where the coder stops instead.  The composed sums are those of the stream
\* (opaque.cc:498, 605) except where some chunks in a row, with others after
\* them, have a sum whose lower half is zero: adler32.cc:40 and 41 subtract
\* from it in unsigned words.  Wherever a chunk was refused there is no info.
ZeroRun ==
  \E i, n \in DOMAIN Leaves :
    i <= n /\ n < Len(Leaves) /\ Adler(DataOf(SubSeq(Leaves, i, n)), AdlerInit).a = 0
StopsNamed ==
  /\ coder.state = "missummed" => ZeroRun
  /\ coder.state # "open" => info = Null

\* What was written is in the tree, all of it, cut at records, with the sums and
\* numbers that describe it, and every chunk of it was taken.  Nothing is said
\* of a coder that has stopped: the consumer has refused a chunk, of which
\* markRecord and finish take no notice but for an assertion (opaque.cc:394,
\* 584); the sums have met a zero (498); or a list was cut through a reference
\* that no longer holds (553, 622).
StreamCoded == TypeOK /\ TreeHoldsStream /\ ChunksStartRecords /\ ListsFit /\ InfoDescribes /\ StopsNamed

\* rcsum.cc:49: the rolled sum of a slab is the sum computed of that slab.
RollingTrue ==
  reader.state = "idle" => \A e \in MinChunk..Len(input.data) :
    FoldLeft(LAMBDA r, n : RollAdvance(input.data, r), RollInit(input.data, 0, MinChunk),
             [n \in 1..(e - MinChunk) |-> n])
      = RollInit(input.data, e - MinChunk, e)

\* What the reader passes on is the stream's data at that offset, with the
\* number of its first record and the number of records that begin in it.
DeliveriesTrue ==
  \A g \in reader.got :
    /\ g.data = SubSeq(input.data, g.ofs + 1, g.ofs + Len(g.data))
    /\ g.recno = Cardinality(RecordsIn(0, g.ofs))
    /\ g.nrecs = Cardinality(RecordsIn(g.ofs, g.ofs + Len(g.data)))

\* readDone comes when nothing is left to read: each byte, or the beginning of
\* each record, that was asked for has been passed on or reported missing, and
\* only once; nothing more comes after it; and only chunks that nobody has are
\* missing (opaque.cc:800).
Covers(ofs, size, recno, nrecs) ==
  {n \in reader.start..(reader.end - 1) :
     IF reader.byrec THEN recno <= n /\ n < recno + nrecs ELSE ofs <= n /\ n < ofs + size}
DoneMeansAll ==
  reader.state = "done" =>
    /\ reader.regions = {} /\ ~reader.late
    /\ \A m \in reader.missing : m.key.chunk \in reader.gone
    /\ \A g \in reader.got, m \in reader.missing :
         Covers(g.ofs, Len(g.data), g.recno, g.nrecs)
           \cap Covers(m.byteofs, m.key.isize, m.recofs, m.key.irecs) = {}
    /\ reader.start..(reader.end - 1) =
         UNION ({Covers(g.ofs, Len(g.data), g.recno, g.nrecs) : g \in reader.got} \cup
                {Covers(m.byteofs, m.key.isize, m.recofs, m.key.irecs) : m \in reader.missing})

\* readDone is called once; except that it may come again where equal chunks
\* were answered by the local stores, of which the second finds nothing to do
\* (opaque.cc:804, 899).
DoneOnce ==
  /\ reader.state = "done" <=> reader.dones > 0
  /\ reader.dones > 1 =>
       \E g, h \in reader.got : g # h /\ g.data = h.data /\ [data |-> g.data] \in reader.here

\* No region is forgotten: each one that is waited for has its chunk asked for
\* and not yet answered, so that a reading ends when its chunks are answered.
RegionsAreAsked ==
  /\ {s.key.chunk : s \in reader.regions} \subseteq reader.asked
  /\ reader.state = "reading" => reader.regions # {}

\* What is read back is what was asked for, and the reading knows when it is done.
StreamRead == DeliveriesTrue /\ DoneMeansAll /\ DoneOnce /\ RegionsAreAsked
=============================================================================
