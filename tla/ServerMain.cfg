SPECIFICATION MainFairSpec
CONSTANTS
  Clients = {c1, c2}
  NoClient = NoClient
  SessionLimits = {1, 2}
  ResetFlag = TRUE
  MkdirRetries = 1
  Backlog = 2
  TimedClients = {c1}
  MaxRequests = 1
  Faults = {"killed", "filesystem", "reset"}
INVARIANTS
  OneUser
  SessionsBounded
  MessagesInTurn
PROPERTIES
  FreshStart
  NobodyHangs
CHECK_DEADLOCK FALSE
