SPECIFICATION DownloadSpec
CONSTANTS
  Updates = {"root", "dir", "big", "empty", "small"}
  Root = "root"
  Entries <- SomeEntries
  Above <- SomeAbove
  Blocks <- SomeBlocks
  Size <- SomeSizes
  MaybeOdd = {"empty"}
  MaxMishaps = 3
INVARIANTS
  DownloadsWhole
  CountsTrue
  ErrorsRetried
PROPERTIES
  DownloadEnds
CHECK_DEADLOCK FALSE
