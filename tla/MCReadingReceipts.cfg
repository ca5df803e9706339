SPECIFICATION Spec
CONSTANTS
    d1 = d1
    d2 = d2
    Documents <- MCDocuments
    MaxSends = 3
    FallbackMayBeDisabled = FALSE
SYMMETRY Symmetry
INVARIANTS
    OneUncertainRequest
    ChargesAreOnRecord
    RefusalIsFree
PROPERTIES
    AnswersAreKept
    PromiseKept
