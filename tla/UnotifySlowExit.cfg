SPECIFICATION FairSpec
CONSTANTS
  Requests = {"kill"}
  MaxNotify = 1
  FaultSets = {{"slow_exit"}}
INVARIANT
  JoinFindsStatus
CHECK_DEADLOCK FALSE
