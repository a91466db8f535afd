SPECIFICATION Spec
CONSTANTS
  Nodes <- ChainNodes
  Starter = "start"
  Edges <- ChainEdges
  OutPorts <- ChainOutPorts
  Risk <- ChainRisk
  ApprovalMode <- ChainApprovalMode
  Policy = "auto_safe"
  OnErrorContinue = {}
  RetryLimit <- ChainRetryLimit
  Foreach = {}
  MaxOps = 3
  DryRun = FALSE
  RuntimeWired = TRUE
  MaxCrashes = 0
PROPERTIES CancelStopsWork
CHECK_DEADLOCK FALSE
