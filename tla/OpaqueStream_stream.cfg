SPECIFICATION Spec
CONSTANTS
  Base = 3
  Half = 16
  Bytes = {0, 1}
  MaxBytes = 5
  MaxWrite = 2
  MinChunk = 2
  MaxChunk = 3
  MinKeys = 1
  MaxKeys = 2
  InlineMax = 1
  LimitKeys = {1, 2}
  HashCheck <- SomeCheck
  MayMove = {FALSE, TRUE}
  Takes = {0, 1, 2, 9}
  Nearby = {"none", "keys", "small", "all"}
  MaxSkip = 1
  MaxGone = 1
INVARIANTS
  StreamCoded
  RollingTrue
  StreamRead
CHECK_DEADLOCK FALSE
