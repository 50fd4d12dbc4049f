-------------------------- MODULE MCPlaneReconnect --------------------------
(***************************************************************************)
(* PlaneReconnect for TLC: operators stop, take a stop back, tighten and   *)
(* widen the cap, and send one-shots, some of them with another key: the   *)
(* excision comes with a cap that may be refused.                          *)
(***************************************************************************)
EXTENDS PlaneReconnect

CONSTANTS i1, i2, i3, i4, r1

MCId == {i1, i2, i3, i4, NoId}
MCRef == {r1}
MCVersion == 1..6

MCDelta ==
    {[stopped |-> TRUE],
     [stopped |-> FALSE, paused |-> FALSE, replan |-> i4],
     [paused |-> TRUE, pending_injection |-> i2],
     [pending_injection |-> i1],
     [pending_injection |-> None, budget_cap_calls |-> 1],
     [budget_cap_calls |-> 2, pending_excision |-> [id |-> i3, refs |-> {r1}]]}

\* Two caps, the second wider than the first.
CapDelta == {[budget_cap_calls |-> 1], [budget_cap_calls |-> 2]}

Nothing == {}
=============================================================================
