SPECIFICATION ListSpec
CONSTANTS
    Rows <- MCRows
    MaxItems = 1
INVARIANT
    ChangedShapeIsNotEmpty
