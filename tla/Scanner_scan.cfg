SPECIFICATION ScanSpec
CONSTANTS
  Dropped <- SomeDrop
  Chunks <- SomeFiles
  Subs <- SomeDirs
  Known = {"small"}
  MaxKeys = 1
  MaxFaults = 1
INVARIANTS
  ItemsShared
  ReportsTrue
PROPERTIES
  ScanEnds
CHECK_DEADLOCK FALSE
