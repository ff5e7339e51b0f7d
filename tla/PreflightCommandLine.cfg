\* The command line: no function to ask the cluster with.
CONSTANTS
    Submitters = {s1}
    NoReceipt = NoReceipt
    MaxCrashes = 1
    MaxFailures = 0
    JobCount = 2
    CanRecover = FALSE
SPECIFICATION Spec
INVARIANT OneJobPerChunk
CHECK_DEADLOCK FALSE
