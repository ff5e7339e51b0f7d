CONSTANTS
    MaxCodes = 11
    MaxThreads = 7
    MaxCsFactors = 3
    TimesInfos <- MCTimesInfos
    ComputeTimes <- MCComputeTimes
    GlobalStart = 93000000
    GlobalEnd = 145701000
    GlobalInterval = 120000
    MaxAssets = 2
    MaxRecords = 6
    MaxLocal = 1
    MaxExch = 1
SPECIFICATION SpecInput
INVARIANTS RowsAgree GridExact LeastFirst DeliversAll
\* the day is set up, and the records end
CHECK_DEADLOCK FALSE
