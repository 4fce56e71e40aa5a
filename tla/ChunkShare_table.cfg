SPECIFICATION Spec
CONSTANTS
  Readers = {r1, r2}
  Peers = {p1, p2}
  Chunks = {c1, c2}
  LocalChunks = {c2}
  NoChunk = NoChunk
  Faults = {"disconnect", "lose", "corrupt", "reread"}
  MaxReads = 3
CHECK_DEADLOCK FALSE
SYMMETRY Symmetry
INVARIANTS
  ExclusiveDownload
  NoUnexpectedChunk
  TableAgrees
