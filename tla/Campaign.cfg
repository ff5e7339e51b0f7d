CONSTANTS
    Submitters = {s1, s2}
    NoReceipt = NoReceipt
    MaxCrashes = 2
    MaxFailures = 1
    JobCount = 3
    CanRecover = TRUE
    Controllers = {c1, c2}
    StageCount = 4
    SelectionStage = 2
    HoldoutStage = 3
    MaxResults = 6
    DisplayChunks = 3
    DisplayLanes = 2
    DatesInChunk = 1
    MaxSubmits = 2
    MaxKilled = 1
SPECIFICATION SpecCampaign
INVARIANTS OneJobPerChunk ChainOrder StagesInOrder EvidenceChain DisplayFromWhole
PROPERTIES ReceiptFinal
CHECK_DEADLOCK FALSE
