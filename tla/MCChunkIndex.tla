---------------------------- MODULE MCChunkIndex ----------------------------
(* TLC's instance of ChunkIndex. *)
EXTENDS ChunkIndex

Symmetry == Permutations(Threads) \cup Permutations(Hashes) \cup Permutations(Names)
=============================================================================
