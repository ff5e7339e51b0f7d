\* Capacity 4, indices wrapping at 8: eleven pushes lap the ring twice and
\* wrap the indices once.
CONSTANTS
    Capacity = 4
    Width = 8
    MaxPush = 11
SPECIFICATION FairSpec
INVARIANTS RingInv NoOverwrite
PROPERTIES ImplementsFifo AllArrive
\* The exploration ends when MaxPush items have been handed over.
CHECK_DEADLOCK FALSE
