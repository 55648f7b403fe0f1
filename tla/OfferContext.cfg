SPECIFICATION Spec
CONSTANTS
    Queries = {"q1", "q2"}
    Rows <- MCRows
    Searches = {1, 2, 3}
    Probes = {3}
    Refundable = {"c"}
    Selectable = {"a"}
    Ttl = 3
    RawTtl = 2
    Lag = 1
    ContextLimit = 3
    OfferLimit = 2
    Horizon = 4
CHECK_DEADLOCK FALSE
INVARIANT ContextOutlivesOffers
PROPERTIES ResultsNormalise AnswersAreOnSale
