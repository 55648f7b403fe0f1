SPECIFICATION SuggestSpec
CONSTANTS
    Names <- MCNames
    Match <- MCMatch
    PlaceLists <- MCPlaceLists
    AtOnce = 2
    Limits = {1, 2}
INVARIANT SuggestionsAreConfirmed
CHECK_DEADLOCK FALSE
