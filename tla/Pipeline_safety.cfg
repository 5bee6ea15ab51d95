\* Three transactions, a limited and an unlimited wait, watchdog on.
CONSTANTS
  NoTrans = 0
  User = User
  Trans = {1, 2, 3}
  MemUse <- MCMemUse
  Declared = {}
  TimeOuts = {0, 5}
  MemorySizeMax = 4
  WatchdogInterval = 60
SPECIFICATION PipeSpec
INVARIANTS
  PipeTypeOK
  NoServerFault
  CleanClose
  QueriesFindLiveTransactions
  AnswersReachTheirCaller
  JoinedMeansStored
  RefusedOnlyIfWarned
  IntervalRestored
PROPERTY
  PipelineImplementsApi
CHECK_DEADLOCK FALSE
