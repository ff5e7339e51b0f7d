\* skip_missed_time_triggers, one output file, two time-series threads beside
\* the cross-sectional one, result queues of one item; send points 1 and 2 may
\* become due together, or never.
CONSTANTS
    t1 = t1
    t2 = t2
    c1 = c1
    TsThreads = {t1, t2}
    CsThreads = {c1}
    SendPoints <- MCPairPoints
    ComputePoints <- MCPairCompute
    GlobalPoints = {}
    SaveTimes <- MCPairPoints
    SkipMissed = TRUE
    SplitFiles = FALSE
    ShanghaiOpen = 1
    SzCodes = 1
    ShCodes = 1
    ResultRoom = 1
    MaxTime = 2
    MaxRecords = 2
SPECIFICATION FairSpec
INVARIANT SendsAsConfigured
PROPERTY StopCompletes
CHECK_DEADLOCK FALSE
