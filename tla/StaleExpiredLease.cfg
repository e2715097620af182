SPECIFICATION Spec
CONSTANTS
  Refs = {k}
  Requests = {q}
  Clients = {c}
  Ages = {2}
  Leases = {0, 1}
  NetErrors <- MCNetErrors
  Refusals <- MCRefusals
  ReadTimeout = 1
  SweepInterval = 2
  MaxTime = 3
  MaxVersion = 1
  MaxGen = 1
INVARIANTS ExpiredIsNeverServed
