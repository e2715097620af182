SPECIFICATION Spec
CONSTANTS
  Requests = {q1, q2}
  Methods = {"login"}
  Kinds = {"forever", "renewable", "fixed"}
  MaxEvents = 1
SYMMETRY Symmetry
CHECK_DEADLOCK FALSE
INVARIANTS RefusalStandsOnItsToken
