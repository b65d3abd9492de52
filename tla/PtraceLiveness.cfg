SPECIFICATION FairSpec
CONSTANTS
  Main = main
  Others = {c1}
  InitPids = {}
  Requests = {"kill", "limit"}
  Events = {"newproc", "exited"}
  PreExecve = FALSE
  PtraceErrors = FALSE
  LogAllStacks = TRUE
  PermitAll = FALSE
  StackOnExit = TRUE
  DumpPossible = TRUE
PROPERTIES
  RunEnds
CHECK_DEADLOCK FALSE
