---------------------------- MODULE PlanePosture ----------------------------
(***************************************************************************)
(* What a governed node promises about its posture, whatever the control   *)
(* plane sends: it only ever moves by taking a command with a newer        *)
(* version, `stopped` absorbs, and the call cap only narrows.              *)
(* src/axor_wrap/plane/session.py:11-13 states the three promises.         *)
(***************************************************************************)
EXTENDS Integers

CONSTANTS
    LocalCap,   \* the cap of the local configuration, or None
    None        \* Python's None

VARIABLES
    ver,        \* version of the last command taken
    stopped,
    paused,
    cap         \* budget_cap_calls: an integer, or None for "no cap"

vars == <<ver, stopped, paused, cap>>

Init ==
    /\ ver = 0
    /\ stopped = FALSE
    /\ paused = FALSE
    /\ cap = LocalCap

\* new is no wider than old; None is the widest cap of all.
Narrower(new, old) ==
    \/ new = old
    \/ new \in Int /\ (old # None => new <= old)

\* A command newer than everything taken before reaches a stopped node: its
\* version counts, its effects are dropped.
Absorb ==
    /\ stopped
    /\ UNCHANGED <<stopped, paused, cap>>

\* It reaches a running node: the flags go anywhere, the cap only down.
Obey ==
    /\ ~stopped
    /\ stopped' \in BOOLEAN
    /\ paused' \in BOOLEAN
    /\ Narrower(cap', cap)

Take ==
    /\ ver' \in Nat
    /\ ver' > ver
    /\ Absorb \/ Obey

Next == Take

Spec == Init /\ [][Next]_vars
=============================================================================
