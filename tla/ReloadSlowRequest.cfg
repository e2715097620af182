SPECIFICATION Spec
CONSTANTS
  Requests = {q1}
  Timeouts = {1, 3}
  Sections = {s}
  ProbeTimeout = 1
  ReloadTimeout = 1
  RevokeTimeout = 1
  MaxTime = 6
  MaxVersion = 2
  MaxClients = 3
CHECK_DEADLOCK FALSE
INVARIANTS EveryHolderFinishes
