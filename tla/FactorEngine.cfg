\* One time-series and one cross-sectional thread, three send points of which
\* the first has Shenzhen rows only and the second is not saved.
CONSTANTS
    t1 = t1
    t2 = t2
    c1 = c1
    TsThreads = {t1}
    CsThreads = {c1}
    SendPoints <- MCSendPoints
    ComputePoints <- MCComputePoints
    GlobalPoints = {0}
    SaveTimes <- MCSaveTimes
    SkipMissed = FALSE
    SplitFiles = TRUE
    ShanghaiOpen = 1
    SzCodes = 1
    ShCodes = 1
    ResultRoom = 1
    MaxTime = 4
    MaxRecords = 3
SPECIFICATION Spec
INVARIANTS SnapshotExact KeptComplete SavedRowsMatch
PROPERTIES ImplementsBatchStream
CHECK_DEADLOCK FALSE
