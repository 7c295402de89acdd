SPECIFICATION Spec
CONSTANTS
  Files = {a, b}
  Bodies = {x, y}
  Metas = {m, n}
  None = None
  Unread = Unread
  MaxEdits = 2
  MaxFails = 1
  MaxCrashes = 1
  MaxRuns = 2
SYMMETRY Symmetry
PROPERTY LaterEventsProcessed
CHECK_DEADLOCK FALSE
