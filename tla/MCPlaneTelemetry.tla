-------------------------- MODULE MCPlaneTelemetry --------------------------
(***************************************************************************)
(* Instances of PlaneTelemetry for TLC: two or three reports, the first of *)
(* them an acknowledgement, and one or two flushing tasks.                 *)
(***************************************************************************)
EXTENDS PlaneTelemetry

CONSTANTS e1, e2, e3, heartbeat, initial

TwoEvents == {e1, e2}
ThreeEvents == {e1, e2, e3}
FirstEvent == {e1}
OneTask == {heartbeat}
TwoTasks == {heartbeat, initial}

InMemory ==
    [spooled |-> FALSE, tasks |-> TwoTasks, cancels |-> OneTask,
     maxFail |-> 2, maxCrash |-> 0]

Uncancelled ==
    [spooled |-> FALSE, tasks |-> TwoTasks, cancels |-> {},
     maxFail |-> 1, maxCrash |-> 0]

OnDisk ==
    [spooled |-> TRUE, tasks |-> OneTask, cancels |-> {},
     maxFail |-> 3, maxCrash |-> 1]

Shared ==
    [spooled |-> TRUE, tasks |-> TwoTasks, cancels |-> {},
     maxFail |-> 2, maxCrash |-> 0]

MemoryAndDisk == {InMemory, Uncancelled, OnDisk}
SharedSpool == {Shared}
=============================================================================
