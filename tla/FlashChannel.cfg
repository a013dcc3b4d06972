SPECIFICATION FairSpec
CONSTANTS
  Callers = {c1, c2}
  Kinds = {"CALL", "KEY_CLICK"}
  MaxSends = 2
INVARIANTS
  ServerOwnsSegment
  TasksOnceInOrder
  CleanNotMisanswered
  IInv
  IntactDispatch
  CleanHandledOnce
PROPERTIES
  BellSafety
  BellLiveness
  SendReturns
