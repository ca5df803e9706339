SPECIFICATION Spec
CONSTANTS
    q1 = q1
    q2 = q2
    a = a
    b = b
    c = c
    d = d
    Order <- MCOrder
    Today = {q2}
    Ids = {a, b, c, d}
    PageSize = 1
    SearchWorkers = 2
    MaxCandidates = 4
    Repeats = 1
    Consumers = {1, 2}
    MaxAccepted = 3
    BlockedRetries = 1
    Retries = 1
    Listings <- MCListings
    Bounds <- MCBounds
INVARIANTS
    PassIsWhole
    AttentionIsEarned
PROPERTIES
    CycleIsWhole
    StartsAreEarned
    CyclesEnd
CHECK_DEADLOCK FALSE
