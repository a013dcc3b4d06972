SPECIFICATION FairSpec
CONSTANTS
  MaxInstalls = 1
  MaxSends = 1
  FreeInTask = TRUE
  Failing = {}
PROPERTY
  RemoveAlwaysReturns
CHECK_DEADLOCK FALSE
