SPECIFICATION Spec
CONSTANTS
    c1 = c1
    c2 = c2
    None = None
    Convs = {c1, c2}
    Requests = {1, 2}
    MaxRequests = 1
    MaxAuto = 1
    MaxAttempts = 2
    Bounds <- MCBounds
INVARIANTS
    PaidOnce
PROPERTIES
    SendsStopAtDoubt
    WorkEnds
    ReadingsGetGraded
CHECK_DEADLOCK FALSE
