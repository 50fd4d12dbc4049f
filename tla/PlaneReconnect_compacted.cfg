SPECIFICATION ReconnectSpec
CONSTANTS
    i1 = i1
    i2 = i2
    i3 = i3
    i4 = i4
    r1 = r1
    NoId = NoId
    None = None
    Id <- MCId
    Ref <- MCRef
    Version <- MCVersion
    Delta <- CapDelta
    SignedDelta <- CapDelta
    Foreign <- Nothing
    TestBench = TRUE
    LocalCap = None
    HoldAfter = TRUE
    MaxOutbox = 9
    MaxCommands = 2
    MaxRestart = 0
INVARIANTS
    AppliesIdentically
CHECK_DEADLOCK FALSE
