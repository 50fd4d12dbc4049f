SPECIFICATION Spec
CONSTANTS
    Pattern <- NestedPattern
    Result <- MCResult
    Depth = 1
    MaxItems = 2
    MaxFields = 1
INVARIANTS
    ExpandIsComplete
CHECK_DEADLOCK FALSE
