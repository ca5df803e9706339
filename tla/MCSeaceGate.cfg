SPECIFICATION Spec
CONSTANTS
    prod6 = prod6
    a1 = a1
    a2 = a2
    a3 = a3
    w1 = w1
    w2 = w2
    Workers <- MCWorkers
    WorkerRequests <- MCWorkerRequests
    WebRequests <- MCWebRequests
    ProcessOf <- MCProcessOf
    Budget <- MCBudget
    SharedInterval = 1
    BlockTime = 2
    WorkerInterval = 1
    WebInterval = 2
    WebMaxWait = 2
    WebCap = 1
    MaxTime = 3
SYMMETRY Symmetry
INVARIANTS
    PaceIsKept
    BudgetIsExact
    WebCapIsKept
PROPERTIES
    WorkersStopForBlock
CHECK_DEADLOCK FALSE
