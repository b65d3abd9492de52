SPECIFICATION Spec
CONSTANTS
  Main = main
  Others = {}
  InitPids = {}
  Requests = {"kill", "dump", "proxy"}
  Events = {"signal", "stop", "exec", "seccomp", "newproc", "exited", "SIGSYS", "killed", "foreign", "sigkill"}
  PreExecve = TRUE
  PtraceErrors = TRUE
  LogAllStacks = FALSE
  PermitAll = FALSE
  StackOnExit = FALSE
  DumpPossible = TRUE
INVARIANTS
  ChecksHold
  OkOnlyIfMonitored
  ViolationIsReal
PROPERTIES
  ImplementsSandboxRun
CHECK_DEADLOCK FALSE
