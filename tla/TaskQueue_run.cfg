SPECIFICATION FairSpec
CONSTANTS
  N = 3
  Parent <- MCParent
  Limits = {1, 2}
  FirstLimit = 1
  Ceiling = 2
  MaxRetries = 1
  MaxFaults = 1
  Flaky = {1}
INVARIANTS TypeOK OneOwner RowsAgree NoIdleSlot WithinCeiling
PROPERTIES TasksEnd
CHECK_DEADLOCK FALSE
