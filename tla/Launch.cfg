SPECIFICATION FairSpec
CONSTANTS
  MaxFds = 2
  Faults = {"server", "init", "client", "path", "fork", "notify", "limits", "attach",
            "pipe"}
INVARIANTS
  ChannelsInSync
  RunsLimitedAndMonitored
PROPERTIES
  LaunchEnds
  FailedLaunchCleansUp
CHECK_DEADLOCK FALSE
