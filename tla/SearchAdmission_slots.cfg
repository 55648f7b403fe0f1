SPECIFICATION Spec
CONSTANTS
    Searches = {s1, s2, s3, p1, p2}
    Probes = {p1, p2}
    RoundTrips = {}
    Providers = {a}
    MaxSearches = 2
    MaxDates = 1
SYMMETRY Interchangeable
CHECK_DEADLOCK FALSE
INVARIANTS
    SlotsConserved
    NoIdleSlot
PROPERTY
    AdmittedInOrder
