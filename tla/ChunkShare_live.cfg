SPECIFICATION FairSpec
CONSTANTS
  Readers = {r1}
  Peers = {p1, p2}
  Chunks = {c1, c2}
  LocalChunks = {}
  NoChunk = NoChunk
  Faults = {"disconnect"}
  MaxReads = 2
CHECK_DEADLOCK FALSE
PROPERTIES
  ImplementsReading
  EveryReadAnswered
