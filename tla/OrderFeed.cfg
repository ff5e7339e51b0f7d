SPECIFICATION Spec
CONSTANTS
    Ids = {1, 2, 3}
    Ttl = 2
    Lag = 1
    MaxQty = 2
    LastOrder = 2
    MaxCancels = 1
    Close = 4
    LastPoint = 3
    Replay = TRUE
INVARIANTS ExactWhenInTime Conservation PairsExact HeapMatches WaitsForWatermark
\* the day ends
CHECK_DEADLOCK FALSE
