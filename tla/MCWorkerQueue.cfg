SPECIFICATION Spec
CONSTANTS
    n1 = n1
    n2 = n2
    s1 = s1
    s2 = s2
    w1 = w1
    w2 = w2
    Jobs = {n1, n2, s1, s2}
    Populations <- MCPopulations
    Notices = {n1, n2}
    KeyOf <- MCKeyOf
    Workers = {w1, w2}
    Knows <- MCKnows
    MaxAttempts = 2
    MaxAlerts = 1
    MaxDays = 2
    MaxTouches = 1
    MaxCrashes = 1
INVARIANTS RunsAreBounded AlertsAreBounded
PROPERTIES JobsEnd
CHECK_DEADLOCK FALSE
