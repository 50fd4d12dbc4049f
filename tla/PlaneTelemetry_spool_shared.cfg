SPECIFICATION Spec
CONSTANTS
    e1 = e1
    e2 = e2
    e3 = e3
    heartbeat = heartbeat
    initial = initial
    Event <- TwoEvents
    Ackable <- FirstEvent
    Flusher <- TwoTasks
    Periodic <- OneTask
    Setting <- SharedSpool
    Attempts = 1
INVARIANTS
    NothingLost
CHECK_DEADLOCK FALSE
