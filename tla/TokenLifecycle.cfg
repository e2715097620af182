SPECIFICATION FairSpec
CONSTANTS
  Requests = {q1, q2}
  Methods = {"token_file", "login"}
  Kinds = {"forever", "renewable"}
  MaxEvents = 2
CHECK_DEADLOCK FALSE
INVARIANTS TypeOK ReportedTokenIsNotWaitedOn RefusalBlamesTheSecret SignalHasCause
PROPERTIES RejectedTokenIsReplaced
