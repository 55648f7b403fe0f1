SPECIFICATION ListSpec
CONSTANTS
    Rows <- MCRows
    MaxItems = 3
INVARIANTS
    OffersAreSound
    AnswerIsHonest
