SPECIFICATION FairSpec
CONSTANTS
    e1 = e1
    e2 = e2
    e3 = e3
    heartbeat = heartbeat
    initial = initial
    Event <- ThreeEvents
    Ackable <- FirstEvent
    Flusher <- TwoTasks
    Periodic <- OneTask
    Setting <- MemoryAndDisk
    Attempts = 2
INVARIANTS
    TypeOK
    NothingLost
    LossIsInFlight
    NoResendAfterAnswer
    LinesAreTheirOwn
    StoredInOrder
    ClearedHasEvidence
PROPERTIES
    SpoolKeepsUntilStored
    EventuallyStored
    SpooledIsStored
CHECK_DEADLOCK FALSE
