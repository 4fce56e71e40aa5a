---------------------------- MODULE ChunkReading ----------------------------
(***************************************************************************)
(* What chunk reading promises its users (abstract_chunk_reader.h:26-33),  *)
(* with no peer in sight: a read stays pending until an answer, got_data or *)
(* no_data, is decided for its chunk.  The answer is decided once for      *)
(* everybody waiting for the chunk at that moment, and each of them is     *)
(* called exactly once.                                                    *)
(***************************************************************************)
EXTENDS Naturals

CONSTANTS Readers, Chunks, NoChunk

VARIABLES
  pending,  \* the reads that have had no answer yet
  kind,     \* the answer being given: "none", "got_data" or "no_data"
  ohash,    \* for which chunk
  left      \* the readers still to be called with it

absVars == <<pending, kind, ohash, left>>

Waiting(c) == {r \in Readers : <<r, c>> \in pending}

AbsInit == pending = {} /\ kind = "none" /\ ohash = NoChunk /\ left = {}

\* A read that cannot be answered on the spot.  The chunk being handed out is
\* not asked for again.
Read(r, c) ==
  /\ <<r, c>> \notin pending
  /\ ~(kind = "got_data" /\ ohash = c)
  /\ pending' = pending \cup {<<r, c>>}
  /\ UNCHANGED <<kind, ohash, left>>

Decide(c, answer) ==
  /\ kind = "none"
  /\ Waiting(c) # {}
  /\ kind' = answer /\ ohash' = c /\ left' = Waiting(c)
  /\ UNCHANGED pending

CallBack(r) ==
  /\ r \in left
  /\ left' = left \ {r}
  /\ pending' = pending \ {<<r, ohash>>}
  /\ UNCHANGED <<kind, ohash>>

Done ==
  /\ kind # "none" /\ left = {}
  /\ kind' = "none" /\ ohash' = NoChunk /\ left' = {}
  /\ UNCHANGED pending

AbsNext ==
  \/ \E r \in Readers, c \in Chunks : Read(r, c)
  \/ \E c \in Chunks, answer \in {"got_data", "no_data"} : Decide(c, answer)
  \/ \E r \in Readers : CallBack(r)
  \/ Done

AbsSpec == AbsInit /\ [][AbsNext]_absVars

\* The promise in full: every read is answered.
AbsLive ==
  \A r \in Readers, c \in Chunks : <<r, c>> \in pending ~> <<r, c>> \notin pending
=============================================================================
