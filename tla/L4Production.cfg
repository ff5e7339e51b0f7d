CONSTANTS
    Submitters = {s1, s2}
    NoReceipt = NoReceipt
    MaxCrashes = 1
    MaxFailures = 1
    ChunkCount = 3
    LaneCount = 2
    DatesPerChunk = 2
    MaxJobs = 4
    MaxDeaths = 1
SPECIFICATION ProductionSpec
INVARIANTS OneJobPerChunk ReceiptTruthful ReceiptResumable LaneComplete
PROPERTIES NeverForgets OutputKept
SYMMETRY SubmittersAlike
CHECK_DEADLOCK FALSE
