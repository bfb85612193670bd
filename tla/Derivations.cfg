SPECIFICATION FairSpec
CONSTANTS
  s = s
  t = t
  None = None
  Values = {"v1", "v2"}
  References <- MCReferences
  MaxFailures = 2
  Derivations = {s, t}
  MaxAttempts = 7
  Scenarios <- MCScenarios
INVARIANTS
  PublicationsAreFaithful
  RetriesRunAgain
PROPERTIES
  PublicationsAreTimely
  DerivationsSettle
CHECK_DEADLOCK FALSE
