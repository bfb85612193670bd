SPECIFICATION Spec
CONSTANTS
  p = p
  q = q
  Absent = Absent
  Edge = Edge
  None = None
  External = External
  Paths = {p, q}
  Blocks = {"a", "b", "x", "y", "bad"}
  InitialTree <- MCInitialTree
  Servers = {"s1", "s2"}
  InitialServer = "s1"
  Valid <- MCValid
  Requests <- PutRequests
  ExternalPages <- NoPages
  MaxOwn = 1
  MaxExternal = 1
  MaxResets = 0
  MaxCrashes = 1
  MaxFaults = 0
INVARIANTS
  RestartAppliesConfiguration
CHECK_DEADLOCK FALSE
