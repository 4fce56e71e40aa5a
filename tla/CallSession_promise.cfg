SPECIFICATION FairSpec
CONSTANTS
  Hosts = {a, b}
  Callers = {a, b}
  MaxCalls = 2
  Faults = {"link", "hangup"}
INVARIANTS
  SessionWhole
PROPERTIES
  KeepsPromise
  FarEndTerminates
CHECK_DEADLOCK FALSE
