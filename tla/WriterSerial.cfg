SPECIFICATION FairSpec
CONSTANTS
  Calls = {c1, c2, c3}
  None = None
  BeginMayFail = TRUE
INVARIANTS
  TypeOK
  OneWorker
  TaskOwned
PROPERTY ImplementsSerialStore
CHECK_DEADLOCK FALSE
