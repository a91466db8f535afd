SPECIFICATION FairSpec
CONSTANTS
  k1 = k1
  k2 = k2
  Keys <- MCKeys
  MaxWorkers = 1
  MaxAttempts = 2
  MaxFaults = 2
INVARIANTS TypeOK RunningIsDriven
PROPERTIES LedgerSpec
CHECK_DEADLOCK FALSE
