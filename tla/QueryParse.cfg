CONSTANTS
    MaxTokens = 6
    Field <- QueryField
    Asked <- QueryAsked
SPECIFICATION QuerySpec
INVARIANTS
    AtomsKept
CHECK_DEADLOCK FALSE
