SPECIFICATION Spec
CONSTANTS
  Sids = {"s", "t", "u"}
  Names = {"ann", "bob"}
  Anonymous = "anonymous"
  None = "none"
INVARIANT UniqueNames
\* All sessions may have ended.
CHECK_DEADLOCK FALSE
