SPECIFICATION FairSpec
CONSTANTS
  Conns = {c1, c2, c3}
  MaxReloads = 1
CHECK_DEADLOCK FALSE
INVARIANTS TypeOK EveryConnectionIsCounted StatusIsCurrent
PROPERTIES StatusCatchesUp
