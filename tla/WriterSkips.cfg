SPECIFICATION Spec
CONSTANTS
  Calls = {c1, c2}
  None = None
  BeginMayFail = TRUE
INVARIANT NilMeansApplied
CHECK_DEADLOCK FALSE
