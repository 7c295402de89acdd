INIT Init
NEXT Next
INVARIANT SortsTotally
CHECK_DEADLOCK FALSE
CONSTANT None = None
