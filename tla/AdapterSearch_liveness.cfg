SPECIFICATION FairSpec
CONSTANTS
    Requests = {r1, r2, r3}
    SharedKey = k1
    OtherKey = k2
    OtherRequest = none
    Keys = {k1, k2}
    KeyOf <- MCKeyOf
    MaxCacheEntries = 1
    CacheTtl = 1
    Horizon = 1
CHECK_DEADLOCK FALSE
PROPERTIES
    EveryRequestEnds
    FlightsDrain
