SPECIFICATION Spec
CONSTANTS
  Threads = {"main", "other"}
  MainThread = "main"
  RetryCount = 1
  TimeLimits = {1, 120}
  MaxSandboxees = 4
  Blocks = {1, 2, 3}
  MaxLength = 2
  MaxDepartures = 1
  HostFds = {0, 1, 2}
  FdNumber = 2
  BoxFds = {3, 4}
INVARIANTS
  RepliesAreOwn
  ObjectsAreAccountedFor
  SuccessIsEarned
PROPERTIES
  InitOncePerSandboxee
  SandboxCallsReturn
  RemoteMemoryIsSound
  ClosesWhatItOwns
CHECK_DEADLOCK FALSE
