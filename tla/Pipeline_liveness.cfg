\* Two transactions under fair scheduling: waitForRes returns.
CONSTANTS
  NoTrans = 0
  User = User
  Trans = {1, 2}
  MemUse <- MCMemUse2
  Declared = {}
  TimeOuts = {0, 5}
  MemorySizeMax = 3
  WatchdogInterval = 60
SPECIFICATION PipeFairSpec
PROPERTIES
  LimitedCallReturns
  UnlimitedCallReturns
CHECK_DEADLOCK FALSE
