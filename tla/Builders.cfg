SPECIFICATION Spec
CONSTANTS
    Outside <- MCOutside
    Inode <- MCInode
    HostKind <- MCHostKind
    HostBelow <- MCHostBelow
    HostMounts <- MCHostMounts
    InsidePaths <- MCInside
    ReadOnlyDevs <- MCReadOnlyDevs
    NulName = "n"
    MaxMountCalls = 3
    LongPaths <- MCLongPaths
    ShortPaths <- MCShortPaths
    WorkDir <- MCWorkDir
    LdLibraryPath <- MCLdLibraryPath
    StandardPaths <- MCStandardPaths
    Platform <- MCPlatform
    HostFiles <- MCHostFiles
    LibNames <- MCLibNames
    NeedLists <- MCNeedLists
    MaxResolvingDepth = 4
    MaxResolvedEntries = 6
    MaxLoadedEntries = 4
    MaxImportedLibraries = 4
    MaxWorkQueueSize = 5
    MaxShortJump = 3
    Numbers = {1, 2, 3, 4, 5, 6}
    Argument = 0
    Policies <- MCPolicies
    NumLists <- MCNumLists
    Listed <- MCListed
    CustomRules <- MCCustomRules
    AddedPaths <- MCAddedPaths
    SelfNames = {"self"}
    LibraryLists <- MCLibraryLists
    MaxUserPolicyLength = 240
    MaxBuilderCalls = 2
    AddrBits = 4
    ByteBits = 2
    PortBits = 2
    HostIps = {6, 16}
    HostPorts = {0, 3, 4}
    MaxHostCalls = 2
INVARIANTS
  ShortListsAreExact
  PathsKeepPlace
  LibrariesAreComplete
  ComposesAsUnion
  ShippedPoliciesServe
  HostsAsAsked
PROPERTIES
  MountsAreAsAsked
  BuildIsSound
CHECK_DEADLOCK FALSE
