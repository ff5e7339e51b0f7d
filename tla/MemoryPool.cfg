\* Two consumers, blocks of two elements, two of them reserved; six records use
\* some blocks again and may need a third.  RecycleBlocks may be called before any
\* allocation, or never.
CONSTANTS
    Consumers = {c1, c2}
    BlockSize = 2
    Reserved = 2
    MaxAllocs = 6
SPECIFICATION FairSpecRecycle
INVARIANTS StableWhileHeld CountersAgree
PROPERTIES CreatesOnlyWhenFull AllReturned
CHECK_DEADLOCK FALSE
