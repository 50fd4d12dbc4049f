SPECIFICATION FeedSpec
CONSTANTS
    c1 = c1
    c2 = c2
    NoOutput = NoOutput
    Caller <- TwoCallers
    Setting <- AllSettings
    Output <- FieldOutputs
    MaxCalls = 3
    Rewritten = {2}
    Happening <- Happenings
    MaxOther = 1
SYMMETRY Callers
INVARIANTS
    RecordsFollowVerdicts
    LineageIsComplete
    ResultMeansReturned
    ConsumersAgree
PROPERTIES
    StopHoldsLaterCalls
CHECK_DEADLOCK FALSE
