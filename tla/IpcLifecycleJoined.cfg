SPECIFICATION Spec
CONSTANTS
  MaxInstalls = 1
  MaxSends = 1
  FreeInTask = FALSE
  Failing = {}
INVARIANT
  RunnerJoined
CHECK_DEADLOCK FALSE
