SPECIFICATION Spec
CONSTANTS
  ProxyThreads = {p1, p2}
  OpenHosts = {"open"}
  RefusingHosts = {"refusing"}
  MaxConnects = 1
  ForkThreads = {f1, f2}
  MaxForkCalls = 2
  MaxServers = 2
  Senders = {s1, s2}
  Receivers = {r1, r2}
  MaxSends = 1
  SocketSpace = 2
INVARIANTS
  SocketsAreOwn
  PidsAreOwn
  MessagesArriveWhole
PROPERTIES
  ProxyCallsReturn
  ForkCallsReturn
  PeersAreLetGo
CHECK_DEADLOCK FALSE
