SPECIFICATION FairSpec
CONSTANTS
  MaxCreates = 1
  MaxDeaths = 2
  MaxFlash = 2
  Failing = {"shmat", "semget"}
INVARIANTS
  IInv
  KeptBelongs
  RingsWhatItCopied
  NothingLeaks
PROPERTIES
  ServerNotCut
  FlashForgotten
  FlashFound
CHECK_DEADLOCK FALSE
