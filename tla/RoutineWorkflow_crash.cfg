SPECIFICATION FairSpec
CONSTANTS
  Nodes <- MCNodes
  Starter = "start"
  Edges <- MCEdges
  OutPorts <- MCOutPorts
  Risk <- MCRisk
  ApprovalMode <- MCApprovalMode
  Policy = "confirm_external"
  OnErrorContinue <- MCOnErrorContinue
  RetryLimit <- MCRetryLimit
  Foreach <- MCForeach
  MaxOps = 6
  DryRun = FALSE
  RuntimeWired = TRUE
  MaxCrashes = 1
INVARIANTS TypeOK WritesApproved DependenciesFirst BudgetRespected Attended WaitingIsAnswerable
PROPERTIES InterruptedVerified RunSettles
CHECK_DEADLOCK FALSE
