SPECIFICATION GradingSpec
CONSTANTS
    Payloads <- MCPayloads
    MaxSends = 2
    FallbackMayBeDisabled = FALSE
    Bounds <- MCBounds
    MaxRequests = 2
    ErrorLimit = 2
INVARIANTS
    SendsAreAwaited
PROPERTIES
    EvaluationsKept
    DoneIsGraded
    RequestsEnd
CHECK_DEADLOCK FALSE
