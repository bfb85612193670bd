SPECIFICATION FairSpec
CONSTANTS
  Servers = {"s1", "s2"}
  InitialServer = "s1"
  LocalKinds <- MCLocalKinds
  RemoteKinds <- MCRemoteKinds
  MaxCommits = 4
  MaxLocal = 2
  MaxRemote = 2
  MaxCrashes = 1
  MaxFaults = 1
INVARIANTS
  ServesItsConfiguration
  NothingPendingWasReplicated
PROPERTIES
  NothingIsLost
  Converges
CHECK_DEADLOCK FALSE
