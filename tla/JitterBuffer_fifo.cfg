SPECIFICATION Spec
CONSTANTS
  MaxSkip = 2
  QueueMax = 3
  NumMod = 8
  Clock = 50
  Remotes = {40, 51, 60}
  Faults = {"lose", "reorder"}
  MaxPackets = 9
  MaxFlight = 3
INVARIANTS
  TimelineKept
  PlayedInOrder
CHECK_DEADLOCK FALSE
