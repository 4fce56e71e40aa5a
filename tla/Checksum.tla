------------------------------ MODULE Checksum ------------------------------
(***************************************************************************)
(* The two checksums of ui/lib: Adler-32 (adler32.cc), which composes over *)
(* concatenation, and the rolling checksum (rcsum.cc) that picks where a   *)
(* stream is cut into chunks.  A sum of Adler-32 is its pair of halves.    *)
(*                                                                         *)
(* Unsigned arithmetic wraps at Word; in the code Base is 65521, Half is   *)
(* 2^16 and Word is 2^32.                                                  *)
(***************************************************************************)
EXTENDS Integers, Sequences, SequencesExt

CONSTANTS
  Base,     \* the modulus of Adler-32
  Half      \* what half a word can hold; Word, what a word can hold

Word == Half * Half

ASSUME ChecksumAssumption ==
  Base \in Nat \ {0, 1} /\ Half \in Nat /\ Base <= Half

AdlerInit == [a |-> 1, b |-> 0]

AdlerStep(s, x) ==
  LET a == (s.a + x) % Base IN [a |-> a, b |-> (s.b + a) % Base]

Adler(data, init) == FoldLeft(AdlerStep, init, data)

\* The sum of two blocks, from their sums and the length of the second: the
\* subtractions are made on unsigned words, before the modulus.
AdlerCat(s, t, len) ==
  LET n == len % Base
  IN  [a |-> ((s.a + (t.a - 1)) % Word) % Base,
       b |-> (((s.a * n) + s.b + (t.b - n)) % Word) % Base]

-----------------------------------------------------------------------------
\* The rolling checksum of the slab from i to j of buf (from 0, j not in it).
RollInit(buf, i, j) ==
  LET step(r, x) == [r EXCEPT !.a = (r.a + x) % Word, !.b = (r.b + r.a + x) % Word]
  IN  FoldLeft(step, [i |-> i, j |-> j, a |-> 0, b |-> 0], SubSeq(buf, i + 1, j))

\* Slip: b takes the sum of before the step.
RollsOldSum(buf, r) ==
  LET a == r.a + buf[r.j + 1] - buf[r.i + 1]
  IN  [i |-> r.i + 1, j |-> r.j + 1, a |-> a % Word,
       b |-> (r.b + r.a - (r.j - r.i) * buf[r.i + 1]) % Word]

RollAdvance(buf, r) ==
  LET a == r.a + buf[r.j + 1] - buf[r.i + 1]
  IN  [i |-> r.i + 1, j |-> r.j + 1, a |-> a % Word,
       b |-> (r.b + a - (r.j - r.i) * buf[r.i + 1]) % Word]

RollSum(r) == Half * (r.b % Half) + (r.a % Half)

\* The end, of those in "ends", whose slab of the given size has the lowest
\* sum, and of these the last: the slab is rolled from the first end on.
BestEnd(buf, size, ends) ==
  LET first == CHOOSE e \in ends : \A f \in ends : e <= f
      last  == CHOOSE e \in ends : \A f \in ends : e >= f
      start == RollInit(buf, first - size, first)
      try(s, j) ==
        LET r == RollAdvance(buf, s.roll) IN
        IF j \in ends /\ RollSum(r) <= s.sum
        THEN [roll |-> r, best |-> j, sum |-> RollSum(r)]
        ELSE [s EXCEPT !.roll = r]
  IN  FoldLeft(try, [roll |-> start, best |-> first, sum |-> RollSum(start)],
               [k \in 1..(last - first) |-> first + k]).best
=============================================================================
