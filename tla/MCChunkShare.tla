---------------------------- MODULE MCChunkShare ----------------------------
(* Small instances of ChunkShare for TLC. *)
EXTENDS ChunkShare, TLC

\* Readers and peers are interchangeable, and so are the chunks of one kind.
Symmetry == Permutations(Readers) \cup Permutations(Peers)
              \cup Permutations(LocalChunks) \cup Permutations(Chunks \ LocalChunks)
=============================================================================
