SPECIFICATION FairSpec
CONSTANTS
    MaxCommands = 2
    MaxFail = 3
INVARIANTS
    NodeIsAtAPrefix
    RunLeavesNothing
PROPERTIES
    CommandsArrive
    StopEnds
CHECK_DEADLOCK FALSE
