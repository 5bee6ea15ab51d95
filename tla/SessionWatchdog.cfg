\* With and without a watchdog of two seconds, requests of up to three.
CONSTANTS
  Intervals = {0, 2}
  Limits = {0, 1, 3}
  UnknownMax = 2
SPECIFICATION WatchFairSpec
INVARIANTS
  SparesLimitedRequests
PROPERTIES
  RunsOutOnlyWhenIdle
  QuietSessionEnds
CHECK_DEADLOCK FALSE
