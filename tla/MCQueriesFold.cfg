INIT Init
NEXT Next
INVARIANT StragglersStay
CHECK_DEADLOCK FALSE
CONSTANT None = None
