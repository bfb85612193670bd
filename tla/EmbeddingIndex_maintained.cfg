SPECIFICATION FairSpec
CONSTANTS
  Pages = {"p", "q"}
  Chunks = {"a", "b"}
  Texts <- SingleTexts
  None = None
  Budget <- MaintainBudget
INVARIANTS
  VectorsBelongToTheirChunks
PROPERTIES
  IndexCompletes
CHECK_DEADLOCK FALSE
