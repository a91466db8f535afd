SPECIFICATION FairSpec
CONSTANTS
  Nodes <- ChainNodes
  Starter = "start"
  Edges <- ChainEdges
  OutPorts <- ChainOutPorts
  Risk <- ChainRisk
  ApprovalMode <- ChainApprovalMode
  Policy = "auto_safe"
  OnErrorContinue = {}
  RetryLimit <- ChainRetryLimit
  Foreach = {}
  MaxOps = 3
  DryRun = FALSE
  RuntimeWired = FALSE
  MaxCrashes = 1
PROPERTIES RunsRecovered
CHECK_DEADLOCK FALSE
