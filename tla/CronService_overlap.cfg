SPECIFICATION Spec
CONSTANTS
  daily = daily
  once = once
  Jobs <- MCJobs
  Stored = {daily}
  OneShots = {once}
  Channeled = {once}
  At = 2
  Every = 2
  Intervals = {}
  MaxConcurrent = 2
  MaxAttempts = 2
  Horizon = 5
  MaxFaults = 0
  MaxTasks = 2
INVARIANTS NoDuplicateRun
CHECK_DEADLOCK FALSE
