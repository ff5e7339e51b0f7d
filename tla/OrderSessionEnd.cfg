SPECIFICATION Spec
CONSTANTS
    Ids = {1, 2}
    Ttl = 2
    Lag = 1
    MaxQty = 1
    LastOrder = 1
    MaxCancels = 1
    Close = 4
    LastPoint = 3
    Replay = FALSE
INVARIANT NothingCrossesTheDay
\* the day ends
CHECK_DEADLOCK FALSE
