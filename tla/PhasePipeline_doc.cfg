SPECIFICATION PipelineSpec
CONSTANTS
  Phases <- MCPhases
  Nodes <- MCNodes
  Late = {}
  Edges <- MCEdges
  Remote = {}
  MaxParallel = 1
  MaxCrashes = 1
INVARIANTS InsteadOfGuidance
CHECK_DEADLOCK FALSE
