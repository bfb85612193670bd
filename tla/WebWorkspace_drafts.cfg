SPECIFICATION Spec
CONSTANTS
  Paths = {"p"}
  Values = {"a", "b"}
  Blank = "blank"
  Absent = Absent
  None = None
  Scenarios <- DraftScenarios
INVARIANTS
  DraftsAreWhatWasTyped
CHECK_DEADLOCK FALSE
