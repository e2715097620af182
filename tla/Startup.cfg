SPECIFICATION Spec
CONSTANTS
  Files <- MCFiles
  Addresses = {"https", "http"}
  Limit = 1
  MaxSize = 3
  MaxHops = 1
  MaxVersion = 2
  MaxChanges = 2
CHECK_DEADLOCK FALSE
INVARIANTS TypeOK EveryOptionCounts NothingInTheClear BodyWholeOrRefused
PROPERTIES StartIsDecided CorrectedIsPickedUp
