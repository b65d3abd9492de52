SPECIFICATION FairSpec
CONSTANTS
  Requests = {"kill", "dump", "limit", "proxy"}
  MaxNotify = 2
  FaultSets = {{"notif_error"}, {"slow_exit", "fetch_error"}, {"notif_gone", "init_killed"}}
INVARIANTS
  NoLostWakeup
  ResultFitsDeath
PROPERTIES
  ImplementsSandboxRun
  RunEnds
CHECK_DEADLOCK FALSE
