SPECIFICATION FairWatchdog
CONSTANTS
  Requests = {q1}
  Timeouts = {1}
  Sections = {s1}
  ProbeTimeout = 0
  ReloadTimeout = 2
  RevokeTimeout = 1
  WatchdogSec = 4
  MaxTime = 9
  MaxVersion = 2
  MaxClients = 3
CHECK_DEADLOCK FALSE
INVARIANTS WatchdogIsFed
PROPERTIES ReloadEnds
