SPECIFICATION FairSpec
CONSTANTS
  p = p
  q = q
  Absent = Absent
  Edge = Edge
  None = None
  External = External
  Paths = {p, q}
  Blocks = {"a", "b", "x", "y", "bad"}
  InitialTree <- MCInitialTree
  Servers = {"s1"}
  InitialServer = "s1"
  Valid <- MCValid
  Requests <- EditRequests
  ExternalPages <- MCExternalPages
  MaxOwn = 2
  MaxExternal = 1
  MaxResets = 1
  MaxCrashes = 1
  MaxFaults = 1
INVARIANTS
  RetriesApplyOnce
  PublishedIsValid
  CommitsAreEdits
  AnswersAreCurrent
  FailedEditLeavesNoTrace
PROPERTIES
  BlockedMeansNoCommit
  RequestsEnd
  BlockHeals
  ImplementsEditHistory
CHECK_DEADLOCK FALSE
