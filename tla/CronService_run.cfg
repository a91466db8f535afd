SPECIFICATION FairSpec
CONSTANTS
  daily = daily
  once = once
  Jobs <- MCJobs
  Stored = {daily}
  OneShots = {once}
  Channeled = {once}
  At = 2
  Every = 2
  Intervals = {}
  MaxConcurrent = 2
  MaxAttempts = 2
  Horizon = 3
  MaxFaults = 1
  MaxTasks = 2
INVARIANTS TypeOK OncePerOccurrence SentOnce
PROPERTIES DueJobsRun OutboxDrains
CHECK_DEADLOCK FALSE
