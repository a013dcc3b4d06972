SPECIFICATION Spec
CONSTANTS
  MaxCreates = 1
  MaxDeaths = 1
  MaxFlash = 2
  Failing = {}
INVARIANT
  BrowserRefreshed
CHECK_DEADLOCK FALSE
