\* Two consumers, two preallocated blocks of two items; nine items lap the list
\* and let recycled blocks be recycled again.
CONSTANTS
    Consumers = {c1, c2}
    BlockSize = 2
    InitialBlocks = 2
    MaxItems = 9
SPECIFICATION FairSpec
INVARIANT NeverStranded
PROPERTIES OverwritesOnlyRead GrowsOnlyWhenHeld ImplementsLog EveryoneFinishes
CHECK_DEADLOCK FALSE
