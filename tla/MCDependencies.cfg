SPECIFICATION Spec
CONSTANTS
  Docs <- MCDocs
  Bases <- MCBases
  Relations <- MCRelations
  Overlays <- MCOverlays
  Formula <- MCFormula
  First <- MCFirst
  Scopes <- MCScopes
  MaxDepth = 3
  None = None
  MaxEdits = 2
  MaxRuns = 2
CHECK_DEADLOCK FALSE
INVARIANTS
  EvaluationIsReference
PROPERTIES
  ManualRunsReach
  RunsConverge
