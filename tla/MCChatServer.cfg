SPECIFICATION Spec
CONSTANTS
  OpenMax = 4
  Names = {"ann"}
  Anonymous = "anonymous"
  Ill = "ill"
  None = "none"
  AdminTexts = {"text", "lines"}
INVARIANTS TypeOK UniqueNames WholeMessages WaitingIsWatched
PROPERTIES ClosedForReason NoneSkipped
\* The administrator may shut the server down.
CHECK_DEADLOCK FALSE
