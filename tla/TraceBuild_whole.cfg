SPECIFICATION FeedSpec
CONSTANTS
    c1 = c1
    c2 = c2
    NoOutput = NoOutput
    Caller <- TwoCallers
    Setting <- OneThread
    Output <- WholeOutputs
    MaxCalls = 2
    Rewritten = {2}
    Happening <- Happenings
    MaxOther = 1
SYMMETRY Callers
INVARIANTS
    LineageIsComplete
CHECK_DEADLOCK FALSE
