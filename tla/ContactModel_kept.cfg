SPECIFICATION MCSpec
CONSTANTS
  Ids = {i1, i2}
  Names = {n1}
  MaxRows = 2
  MaxOps = 3
  MaxRestarts = 1
  NumPorts = 3
  Local = {0, 1}
  Downloads = {d1, d2, d3}
  MaxReboots = 2
  Servers = {s1, s2}
  Users = {"alice", "bob"}
  Texts = {"first", "second"}
  Matches <- MCMatches
  NoText = NoText
  MaxSearches = 2
  MaxSaid <- MCMaxSaid
INVARIANTS
  WishesKept
  SuccessEarned
  DownloadsRemembered
  ResultsTrue
  ConversationAgrees
SYMMETRY Symmetry
CHECK_DEADLOCK FALSE
