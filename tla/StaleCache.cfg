SPECIFICATION Spec
CONSTANTS
  Refs = {k1, k2}
  Requests = {q1, q2}
  Clients = {c}
  Ages = {0, 1, 2}
  Leases = {0, 1}
  NetErrors <- MCNetErrors
  Refusals <- MCRefusals
  ReadTimeout = 1
  SweepInterval = 2
  MaxTime = 3
  MaxVersion = 2
  MaxGen = 2
SYMMETRY Symmetry
INVARIANTS TypeOK RefusalSupersedes StaleWithinWindow Residency
PROPERTIES OutageKeepsFallback KeepsThePromise
