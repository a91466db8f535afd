SPECIFICATION FairSpec
CONSTANTS
  Nodes <- MCNodes
  Late <- MCLate
  Edges <- MCEdges
  Remote = {"remote"}
  MaxParallel = 1
  MaxCrashes = 1
INVARIANTS
  TypeOK
  Bounds
  DispatchedOnce
  TerminalIsQuiet
  PredecessorsDone
  CompletedIsComplete
PROPERTIES RunSettles GraphSpec
CHECK_DEADLOCK FALSE
