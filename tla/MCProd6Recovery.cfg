SPECIFICATION JobsSpec
CONSTANTS
    d1 = d1
    j1 = j1
    j2 = j2
    Documents <- MCDocuments
    Jobs <- MCJobs
    DocOf <- MCDocOf
    MaxSends = 2
    FallbackMayBeDisabled = FALSE
    ProviderErrorLimit = 1
    MaxAttempts = 3
    MaxCrashes = 1
    MaxFolderSwaps = 1
INVARIANTS
    PaidAtMostOnce
    DoneWasPaid
PROPERTIES
    RefundsAreFree
    AnswersAreStored
CHECK_DEADLOCK FALSE
