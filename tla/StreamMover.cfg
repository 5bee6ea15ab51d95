\* Three channels; words of two beats, bursts of two words, FIFOs of four.
CONSTANTS
  NumChannels = 3
  BurstLen = 2
  MemRatio = 2
  Depth = 4
  Runs <- MCRuns
  TimeOuts = {0}
  AieDepth = 2
SPECIFICATION MoverFairSpec
INVARIANTS
  MoverTypeOK
  ResultsInPlace
  DeliveredIfOutputsFit
  PerfOfOwnChannel
PROPERTIES
  ServedChannelsFinish
CHECK_DEADLOCK FALSE
