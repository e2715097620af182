SPECIFICATION Spec
CONSTANTS
  Requests = {q1}
  Timeouts = {1, 3}
  Sections = {s1, s2}
  ProbeTimeout = 1
  ReloadTimeout = 1
  RevokeTimeout = 1
  MaxTime = 6
  MaxVersion = 2
  MaxClients = 3
SYMMETRY Symmetry
CHECK_DEADLOCK FALSE
INVARIANTS TypeOK TokenOutlivesItsRequests InstalledClientIsAlive NoTokenIsForgotten HangupIsNotLost
