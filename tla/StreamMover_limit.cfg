\* One beat, with and without a limit.
CONSTANTS
  NumChannels = 1
  BurstLen = 2
  MemRatio = 2
  Depth = 4
  Runs <- MCOneBeat
  TimeOuts = {0, 5}
  AieDepth = 2
SPECIFICATION MoverSpec
INVARIANTS
  LimitKept
CHECK_DEADLOCK FALSE
