SPECIFICATION FairSpec
CONSTANTS
  MaxInstalls = 3
  MaxSends = 2
  FreeInTask = TRUE
  Failing = {"shmget", "semget", "shmat"}
INVARIANTS
  IInv
  RunnerQuiet
  InstalledServes
  MeetFirst
PROPERTY
  RemoveReturns
CHECK_DEADLOCK FALSE
