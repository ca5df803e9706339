SPECIFICATION SessionSpec
CONSTANTS
    None = None
    Runs = {r1, r2}
    Deciders = {u1, u2}
    MaxDeaths = 1
    MaxChangeSets = 1
INVARIANTS DecisionsAgree NoForeignDocuments DeliveredOnce
PROPERTIES RunsEnd
CHECK_DEADLOCK FALSE
