SPECIFICATION ReconnectSpec
CONSTANTS
    i1 = i1
    i2 = i2
    i3 = i3
    i4 = i4
    r1 = r1
    NoId = NoId
    None = None
    Id <- MCId
    Ref <- MCRef
    Version <- MCVersion
    Delta <- MCDelta
    SignedDelta <- MCDelta
    Foreign <- Nothing
    TestBench = TRUE
    LocalCap = None
    HoldAfter = TRUE
    MaxOutbox = 9
    MaxCommands = 3
    MaxRestart = 1
INVARIANTS
    WholeChainIsLive
    NoFreerThanDesired
    OneShotsArrive
    HonestIsAccepted
    ClearedUnfiredIsOvertaken
PROPERTIES
    AgainOnlyFromTheChain
CHECK_DEADLOCK FALSE
