\* Three transactions, an arbitrary client and connection, the threads fair.
CONSTANTS
  t1 = t1
  t2 = t2
  t3 = t3
  NoTrans = NoTrans
  Trans = {t1, t2, t3}
  MemUse <- MCMemUse
  Declared = {1, 2}
  TimeOuts = {0, 5}
  MemorySizeMax = 4
SPECIFICATION FairSpec
INVARIANTS
  DriverIsFront
  NoUseAfterDelete
  MemoryAccounting
  ThreadPerTransaction
  TimeOutNeedsLimit
PROPERTIES
  ImplementsQueue
  LimitedWaitReturns
  UnlimitedWaitReturns
CHECK_DEADLOCK FALSE
