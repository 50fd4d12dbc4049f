SPECIFICATION Spec
CONSTANTS
    i1 = i1
    i2 = i2
    r1 = r1
    NoId = NoId
    None = None
    Id <- MCId
    Ref <- MCRef
    Version <- MCVersion
    Delta <- AnyDelta
    SignedDelta <- PostureDelta
    Foreign <- ForgedPosture
    TestBench = TRUE
    LocalCap = 3
    MaxOutbox = 3
INVARIANTS
    TypeOK
    PostureFollowsTaken
    CapIsTightest
    OneShotAtMostOnce
    ConsumedIsAcknowledged
    ArmedByNewest
PROPERTIES
    NewerSignedOnly
    NoCommandPassedOver
    StoppedIsNotSteered
    PostureSpec
