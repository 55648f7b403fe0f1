SPECIFICATION Spec
CONSTANTS
    Requests = {r1, r2, r3, r4}
    SharedKey = k1
    OtherKey = k2
    OtherRequest = r4
    Keys = {k1, k2}
    KeyOf <- MCKeyOf
    MaxCacheEntries = 1
    CacheTtl = 1
    Horizon = 2
SYMMETRY Interchangeable
CHECK_DEADLOCK FALSE
INVARIANTS
    TypeOK
    WaiterCountExact
    SharedWorkSurvives
    OneLoadPerKey
    AbandonedResultNotCached
PROPERTIES
    ImplementsSharedSearch
