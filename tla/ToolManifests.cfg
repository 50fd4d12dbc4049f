SPECIFICATION Spec
CONSTANTS
    d1 = d1
    d2 = d2
    d3 = d3
    known = known
    recipient = recipient
    Absent = Absent
    Destination <- MCDestination
    Reference <- MCReference
    Conditions <- MCConditions
    Scenarios <- MCScenarios
    Planned <- MCPlanned
    Words <- MCWords
    Project <- MCProject
    FileOrder <- MCFileOrder
    Unwritable = {"save/all"}
    Verdict = {"READ"}
    MaxRuns = 2
    MaxReview = 1
INVARIANTS
    RefusedForCause
    SinksTakeOnlyNamed
    OnlyEvidentIsReleased
    SidecarTellsAll
CHECK_DEADLOCK FALSE
