\* A window of four vectors, a FIFO that holds one window, two rounds.
CONSTANTS
  Window = 4
  FifoDepth = 4
  Rounds = 2
  Programs <- MCPrograms
SPECIFICATION Spec
INVARIANTS
  StreamsInStep
  NothingLeftOver
  ResultsGolden
PROPERTY ProgramsEnd
CHECK_DEADLOCK FALSE
