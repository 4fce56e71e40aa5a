SPECIFICATION Spec
CONSTANTS
  Threads = {gui, scanner}
  Hashes = {x, y}
  Paths = {p}
  Names = {n1, n2}
  None = None
  Bad = Bad
  MaxLog = 3
SYMMETRY Symmetry
INVARIANTS
  ChunksAreDurable
  EntriesHaveFiles
PROPERTIES
  GoodEntriesStay
