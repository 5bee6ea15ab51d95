\* Nothing makes query_mtx first come first served: a later waiter may take it.
CONSTANTS
  NoTrans = 0
  User = User
  Trans = {1, 2}
  MemUse <- MCMemUse2
  Declared = {}
  TimeOuts = {0, 5}
  MemorySizeMax = 3
  WatchdogInterval = 60
SPECIFICATION PipeResponsiveSpec
PROPERTY
  LimitBoundsTheWait
CHECK_DEADLOCK FALSE
