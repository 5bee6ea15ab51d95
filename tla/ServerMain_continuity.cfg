SPECIFICATION MainFairSpec
CONSTANTS
  Clients = {c1}
  NoClient = NoClient
  SessionLimits = {0}
  ResetFlag = TRUE
  MkdirRetries = 1
  Backlog = 2
  TimedClients = {}
  MaxRequests = 1
  Faults = {}
INVARIANTS
  RunsContinuously
CHECK_DEADLOCK FALSE
