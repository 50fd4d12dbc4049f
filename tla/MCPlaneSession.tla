--------------------------- MODULE MCPlaneSession ---------------------------
(***************************************************************************)
(* Instances of PlaneSession for TLC: the bodies operators sign and the    *)
(* commands nobody signed.                                                 *)
(***************************************************************************)
EXTENDS PlaneSession

CONSTANTS i1, i2, r1

MCId == {i1, i2, NoId}
MCRef == {r1}
MCVersion == 1..3

Stop == [stopped |-> TRUE]
Resume == [paused |-> FALSE]
Cap(n) == [budget_cap_calls |-> n]
Inject(id) == [pending_injection |-> id]
Excise(id) == [pending_excision |-> [id |-> id, refs |-> {r1}]]
Replan(id) == [replan |-> id]

\* Posture: flags, a narrowing and a widening that also pauses and injects.
PostureDelta ==
    {Stop, Resume, Cap(1),
     [paused |-> TRUE, budget_cap_calls |-> 2, pending_injection |-> i1]}

\* Steering: a one-shot of each kind, two that share an id, a replan without
\* one, a cleared slot, and a command that stops and injects at once.
SteeringDelta ==
    {Inject(i1), Excise(i1), Replan(i2), Replan(NoId),
     [stopped |-> TRUE, pending_injection |-> i2]}

\* Whoever speaks to an open node may say any of it.
AnyDelta == PostureDelta \cup SteeringDelta

\* Steering without replans, for a keyed node.
KeyedSteeringDelta ==
    {Inject(i1), Excise(i1), [stopped |-> TRUE, pending_injection |-> i2]}

\* A stop no operator signed.
ForgedPosture == {[version |-> 2, delta |-> Stop]}
NoForgery == {}
=============================================================================
