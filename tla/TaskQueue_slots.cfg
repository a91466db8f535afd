SPECIFICATION Spec
CONSTANTS
  N = 3
  Parent <- MCParent
  Limits = {1, 2}
  FirstLimit = 1
  Ceiling = 2
  MaxRetries = 1
  MaxFaults = 1
  Flaky = {1}
INVARIANTS FinishedFreesSlot
CHECK_DEADLOCK FALSE
