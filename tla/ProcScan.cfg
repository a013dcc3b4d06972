SPECIFICATION FairSpec
CONSTANTS
  MaxPid = 6
  Programs <- MCPrograms
INVARIANTS
  IInv
  YesWasDescendant
  NotMissed
PROPERTY
  FindEnds
CHECK_DEADLOCK FALSE
