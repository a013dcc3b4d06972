SPECIFICATION Spec
CONSTANTS
  auto1 = auto1
  auto2 = auto2
  timer1 = timer1
  ea1 = ea1
  eb1 = eb1
  ea2 = ea2
  et1 = et1
  pool1 = pool1
  pool2 = pool2
  page1 = page1
  page2 = page2
  None = None
  Methods <- MCMethods
  Envs <- MCEnvs
  MethodOf <- MCMethodOf
  Id <- MCId
  PoolOf <- MCPoolOf
  TimerOf <- MCTimerOf
  ChunkOf <- MCChunkOf
  Names = {"refine"}
  MaxDepth = 2
  MaxFrees = 1
INVARIANTS
  IInv
  KeptAreOriginals
  HookedStaysHooked
  NothingLeft
  ProxyHasHandler
  FreedEnvsUntouched
  CachesFollowPool
CHECK_DEADLOCK FALSE
SYMMETRY MCSymmetry
