SPECIFICATION FairSpec
CONSTANTS
  Files = {a, b}
  Bodies = {x, y}
  Metas = {m}
  None = None
  Unread = Unread
  MaxEdits = 2
  MaxFails = 1
  MaxCrashes = 1
  MaxRuns = 1
PROPERTIES CrashesRepaired Settles
CHECK_DEADLOCK FALSE
