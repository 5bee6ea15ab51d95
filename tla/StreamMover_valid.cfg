\* One channel whose output is twice the URAM buffer.
CONSTANTS
  NumChannels = 1
  BurstLen = 2
  MemRatio = 2
  Depth = 4
  Runs <- MCLargeOutput
  TimeOuts = {0}
  AieDepth = 2
SPECIFICATION MoverSpec
INVARIANTS
  ValidMeansDelivered
CHECK_DEADLOCK FALSE
