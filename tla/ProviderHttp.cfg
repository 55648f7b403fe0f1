SPECIFICATION FairSpec
CONSTANTS
    Requests = {r1, r2, r3}
    MaxConcurrency = 1
    MaxRetries = 1
CHECK_DEADLOCK FALSE
INVARIANTS SlotsConserved
PROPERTIES RetriesExact EveryRequestEnds
