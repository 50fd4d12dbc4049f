---------------------------- MODULE MCTraceBuild ----------------------------
(***************************************************************************)
(* Instances of TraceBridge for TLC: the wrapper that enforces and the one *)
(* that observes, the streaming path, and an observing wrapper whose calls *)
(* run on threads.                                                         *)
(***************************************************************************)
EXTENDS TraceBridge, TLC

CONSTANTS c1, c2

TwoCallers == {c1, c2}

Enforcing == [threaded |-> FALSE, enforced |-> TRUE, every_intent |-> TRUE]
Observing == [threaded |-> FALSE, enforced |-> FALSE, every_intent |-> TRUE]
Streaming == [threaded |-> FALSE, enforced |-> TRUE, every_intent |-> FALSE]
Threads == [threaded |-> TRUE, enforced |-> FALSE, every_intent |-> TRUE]

AllSettings == {Enforcing, Observing, Streaming, Threads}
OneThread == {Enforcing, Streaming}

Trusted == [pattern |-> "none", held |-> 0]
\* The answer holds so many values of the declared field.
Fields(k) == [pattern |-> "field", held |-> k]
\* The whole return is declared, of an answer that has no key "result".
Whole == [pattern |-> "result", held |-> 0]

\* A refusal beside the verdicts, and an event the bridge drops.
Happenings ==
    { [kind |-> "SUSPICIOUS_INTENT", marked |-> TRUE],
      [kind |-> "CANCELLED", marked |-> FALSE] }

\* The callers differ in nothing but their names.
Callers == Permutations(TwoCallers)

FieldOutputs == {Trusted, Fields(0), Fields(2)}
WholeOutputs == {Trusted, Whole}
=============================================================================
