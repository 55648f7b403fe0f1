SPECIFICATION FairSpec
CONSTANTS
    Searches = {trip, p1, p2}
    Probes = {p1, p2}
    RoundTrips = {trip}
    Providers = {a, b}
    MaxSearches = 1
    MaxDates = 1
CHECK_DEADLOCK FALSE
INVARIANTS
    LegsHaveASlot
PROPERTIES
    AnswersAreHonest
    EverySearchEnds
