SPECIFICATION MCSpec
CONSTANTS
  a = a  b = b  t1 = t1  t2 = t2  v1 = v1  v2 = v2  copy = copy  part = part
  Docs = {a, b}
  Texts = {t1, t2}
  Vals = {v1, v2}
  Defs = {copy, part}
  Schemas <- MCSchemas
  Eval <- MCEval
  Target <- MCTarget
  None = None  Broken = Broken  Free = Free
  MaxEdits = 1  MaxSchemas = 2  MaxFaults = 1  MaxRuns = 2  MaxEvents = 2
  Attempts = 2  First <- MCFirst  Edited = {a}  Events <- MCEvents
CHECK_DEADLOCK FALSE
INVARIANTS TypeOK OwnershipKept
PROPERTIES EditsSurvive OnlyOwnValuesRemoved OneOverlay
