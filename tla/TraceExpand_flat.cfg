SPECIFICATION Spec
CONSTANTS
    Pattern <- ShortPatterns
    Result <- MCResult
    Depth = 2
    MaxItems = 2
    MaxFields = 2
INVARIANTS
    FlatIsExact
CHECK_DEADLOCK FALSE
