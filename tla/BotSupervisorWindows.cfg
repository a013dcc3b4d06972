SPECIFICATION FairSpec
CONSTANTS
  MaxCreates = 2
  MaxDeaths = 2
  MaxFlash = 1
  Failing = {"fork"}
INVARIANT
  BrowsersSupervised
PROPERTY
  BrowserReplaced
CHECK_DEADLOCK FALSE
