SPECIFICATION JobsSpec
CONSTANTS
    d1 = d1
    j1 = j1
    j2 = j2
    Documents <- MCDocuments
    Jobs <- MCJobs
    DocOf <- MCDocOf
    MaxSends = 3
    FallbackMayBeDisabled = TRUE
    ProviderErrorLimit = 2
    MaxAttempts = 3
    MaxCrashes = 1
    MaxFolderSwaps = 0
INVARIANT
    PaidAtMostOnce
CHECK_DEADLOCK FALSE
