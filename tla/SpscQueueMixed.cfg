CONSTANTS
    Capacity = 2
    Width = 8
    MaxPush = 4
    MaxBulk = 2
SPECIFICATION SpecMixed
PROPERTY PushRefusedWhenFull
CHECK_DEADLOCK FALSE
