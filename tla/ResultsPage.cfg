SPECIFICATION FairSpec
CONSTANTS
    Trips = {t1, t2}
    RoundTrips = {t2}
    Intents = {i1, i2}
    JobIds = {1, 2}
    MaxRuns = 3
INVARIANT ScreenIsOfThisJourney
PROPERTY EverySearchIsAnswered
CHECK_DEADLOCK FALSE
