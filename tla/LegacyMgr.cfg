SPECIFICATION LegacyFairSpec
CONSTANT Trans = {1, 2, 3}
INVARIANTS StaleOnlyAfterFailure GraphsAccountedFor
PROPERTIES LegacyWaitReturns ImplementsApi
CHECK_DEADLOCK FALSE
