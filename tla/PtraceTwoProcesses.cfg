SPECIFICATION Spec
CONSTANTS
  Main = main
  Others = {c1}
  InitPids = {}
  Requests = {}
  Events = {"seccomp", "newproc", "exited", "sigkill"}
  PreExecve = FALSE
  PtraceErrors = FALSE
  LogAllStacks = FALSE
  PermitAll = TRUE
  StackOnExit = FALSE
  DumpPossible = TRUE
INVARIANTS
  NoPanic
  InspectionsMatch
  NoForgottenStop
PROPERTIES
  EverySyscallExamined
CHECK_DEADLOCK FALSE
