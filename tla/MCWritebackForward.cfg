SPECIFICATION Spec
CONSTANTS
  a = a  b = b  t1 = t1  t2 = t2  v1 = v1  v2 = v2  copy = copy  part = part
  Docs = {a}
  Texts = {t1, t2}
  Vals = {v1, v2}
  Defs = {copy, part}
  Schemas <- MCSchemas
  Eval <- MCEval
  Target <- MCTarget
  None = None  Broken = Broken  Free = Free
  MaxEdits = 1  MaxSchemas = 1  MaxFaults = 1  MaxRuns = 1  MaxEvents = 1
  Attempts = 3  First <- MCFirst  Edited = {a}  Events <- MCEvents
CHECK_DEADLOCK FALSE
INVARIANT ReplacementsRolledForward
