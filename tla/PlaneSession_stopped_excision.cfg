SPECIFICATION Spec
CONSTANTS
    i1 = i1
    i2 = i2
    r1 = r1
    NoId = NoId
    None = None
    Id <- MCId
    Ref <- MCRef
    Version <- MCVersion
    Delta <- KeyedSteeringDelta
    SignedDelta <- KeyedSteeringDelta
    Foreign <- NoForgery
    TestBench = TRUE
    LocalCap = None
    MaxOutbox = 3
PROPERTIES
    StoppedAbsorbsOneShots
