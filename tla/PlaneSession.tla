---------------------------- MODULE PlaneSession ----------------------------
(***************************************************************************)
(* PlaneSession (src/axor_wrap/plane/session.py): the adapter-side state   *)
(* of one governed node, the commands the plane's backend delivers to it,  *)
(* and the one-shots its host runtime drains.                              *)
(*                                                                         *)
(* The backend is not trusted (session.py:3-10).  It delivers, repeats,    *)
(* reorders and withholds the commands operators signed, and invents       *)
(* others; in the open posture (no operator keys) nothing is signed and    *)
(* anything it sends is obeyed.                                            *)
(*                                                                         *)
(* apply_snapshot replays the verified commands one by one through _apply. *)
(* The replay is a loop with one step per command here; the method never   *)
(* awaits, so nothing else happens while a replay is under way (idle).     *)
(***************************************************************************)
EXTENDS Integers, Sequences, FiniteSets

CONSTANTS
    Delta,       \* command bodies: functions from some of Key to values
    SignedDelta, \* those operators sign
    Version,     \* versions commands may carry
    Foreign,     \* commands no operator of this node signed
    TestBench,   \* test_bench
    LocalCap,    \* local_budget_cap
    Id,          \* ids of one-shots, NoId among them
    NoId,        \* the empty id
    Ref,         \* context segments an excision may name
    None,        \* Python's None
    MaxOutbox    \* bound: reports the node may append in a behaviour

Key == {"stopped", "paused", "budget_cap_calls",
        "replan", "pending_injection", "pending_excision"}

Excision == [id : Id, refs : SUBSET Ref]

Command == [version : Version, delta : Delta]

Writes(d, k) == k \in DOMAIN d

\* "state.get(k)" is truthy, or for the cap "is not None".
Names(d, k) == Writes(d, k) /\ d[k] # None

ASSUME NoneIsNoValue ==
    /\ None \notin Int
    /\ None \notin Id
    /\ None \notin Excision

ASSUME VersionType == Version \subseteq Nat \ {0}

ASSUME NoIdIsId == NoId \in Id

ASSUME ConfigType ==
    /\ TestBench \in BOOLEAN
    /\ LocalCap \in Int \cup {None}
    /\ MaxOutbox \in Nat

ASSUME DeltaType ==
    \A d \in Delta :
        /\ DOMAIN d \subseteq Key
        /\ Writes(d, "stopped") => d["stopped"] \in BOOLEAN
        /\ Writes(d, "paused") => d["paused"] \in BOOLEAN
        /\ Names(d, "budget_cap_calls") => d["budget_cap_calls"] \in Int
        /\ Names(d, "replan") => d["replan"] \in Id
        /\ Names(d, "pending_injection") => d["pending_injection"] \in Id
        /\ Names(d, "pending_excision") => d["pending_excision"] \in Excision

ASSUME CommandType == SignedDelta \subseteq Delta /\ Foreign \subseteq Command

VARIABLES
    keyed,       \* operator_pubkeys is not empty: as configured, never changed
    applied,     \* applied_version
    stopped,
    paused,
    cap,         \* budget_cap_calls
    injection,   \* _pending_injection: an id, or None
    excision,    \* _pending_excision
    replan,      \* _pending_replan: an id, or None
    consumed,    \* consumed_ids
    outbox,      \* every report appended so far, flushed or not
    issued,      \* commands operators signed
    rest,        \* verified commands a snapshot's replay has still to visit
    snapVersion, \* the version of that snapshot; 0 when no replay is under way
    taken        \* history: commands taken while the node was running

slots == <<injection, excision, replan>>
posture == <<stopped, paused, cap>>
nodeVars == <<applied, posture, slots, consumed, outbox>>
vars == <<keyed, nodeVars, issued, rest, snapVersion, taken>>

(***************************************************************************)
(* Reports.  The detail of a refusal is left out: kind, id and version     *)
(* are all the properties tell apart.                                      *)
(***************************************************************************)
StateApplied ==
    [kind : {"state_applied"}, version : Version,
     result : {"noop_absorbed", "rejected_widening", "sig_invalid"}]

FireKind == {"injection_consumed", "context_excision", "replan_applied"}

RefuseKind == {"injection_refused", "excision_refused", "replan_refused"}

OneShotEvent == [kind : FireKind \cup RefuseKind, id : Id]

Event == StateApplied \cup OneShotEvent

HasRoom == Len(outbox) < MaxOutbox

Report(v, result) ==
    /\ HasRoom
    /\ outbox' = Append(outbox,
           [kind |-> "state_applied", version |-> v, result |-> result])

Ack(kind, id) ==
    /\ HasRoom
    /\ outbox' = Append(outbox, [kind |-> kind, id |-> id])

idle == snapVersion = 0

(***************************************************************************)
(* _apply                                                                  *)
(***************************************************************************)
\* MUTANT nothing is ever stale.
NeverStale(v) == FALSE

Stale(v) == v <= applied

\* MUTANT no widening is ever refused.
NeverWidens(d) == FALSE

Widens(d) ==
    Names(d, "budget_cap_calls") /\ cap # None /\ d["budget_cap_calls"] > cap

\* A stopped node accepts the version and drops the effects.
Absorb(v) ==
    /\ stopped
    /\ applied' = v
    /\ Report(v, "noop_absorbed")
    /\ UNCHANGED <<posture, slots, consumed, taken>>

\* MUTANT a command that leaves a flag alone resets it.
SetFlagsResetting(v, d) ==
    /\ ~stopped
    /\ applied' = v
    /\ stopped' = (Writes(d, "stopped") /\ d["stopped"])
    /\ paused' = (Writes(d, "paused") /\ d["paused"])
    /\ taken' = taken \cup {[version |-> v, delta |-> d]}

SetFlags(v, d) ==
    /\ ~stopped
    /\ applied' = v
    /\ stopped' = IF Writes(d, "stopped") THEN d["stopped"] ELSE stopped
    /\ paused' = IF Writes(d, "paused") THEN d["paused"] ELSE paused
    /\ taken' = taken \cup {[version |-> v, delta |-> d]}

\* A wider cap stops the command there: the flags above it are already set,
\* the one-shots below it are never armed.
RejectWidening(v, d) ==
    /\ SetFlags(v, d)
    /\ Widens(d)
    /\ Report(v, "rejected_widening")
    /\ UNCHANGED <<cap, slots, consumed>>

Arm(d, k, slot) == IF Names(d, k) THEN d[k] ELSE slot

Accept(v, d) ==
    /\ SetFlags(v, d)
    /\ ~Widens(d)
    /\ cap' = Arm(d, "budget_cap_calls", cap)
    /\ replan' = Arm(d, "replan", replan)
    /\ injection' = Arm(d, "pending_injection", injection)
    /\ excision' = Arm(d, "pending_excision", excision)
    /\ UNCHANGED <<consumed, outbox>>

\* MUTANT the stopped node does not return early.
ApplyWhenStopped(v, d) ==
    \/ Stale(v) /\ UNCHANGED <<nodeVars, taken>>
    \/ /\ ~Stale(v)
       /\ applied' = v
       /\ stopped' = IF Writes(d, "stopped") THEN d["stopped"] ELSE stopped
       /\ paused' = IF Writes(d, "paused") THEN d["paused"] ELSE paused
       /\ taken' = taken \cup {[version |-> v, delta |-> d]}
       /\ UNCHANGED <<cap, slots, consumed, outbox>>

Apply(v, d) ==
    \/ Stale(v) /\ UNCHANGED <<nodeVars, taken>>
    \/ ~Stale(v) /\ (Absorb(v) \/ RejectWidening(v, d) \/ Accept(v, d))

(***************************************************************************)
(* Commands on the wire.                                                   *)
(***************************************************************************)
\* An operator signs a command under the next version the plane hands out.
Issue(v, d) ==
    /\ keyed
    /\ idle
    /\ \A c \in issued : c.version < v
    /\ issued' = issued \cup {[version |-> v, delta |-> d]}
    /\ UNCHANGED <<keyed, nodeVars, rest, snapVersion, taken>>

\* MUTANT every signature is good.
VerifyNothing(c) == TRUE

\* The signature covers node, version, body and timestamp: with keys, only
\* what an operator of this node signed passes.
Verified(c) == keyed => c \in issued

\* What the backend can put on the wire.
Wire == IF keyed THEN issued \cup Foreign ELSE Command

RefuseSignature(v) ==
    /\ Report(v, "sig_invalid")
    /\ UNCHANGED <<applied, posture, slots, consumed, taken>>

ApplyDelta(c) ==
    /\ idle
    /\ IF Verified(c) THEN Apply(c.version, c.delta) ELSE RefuseSignature(c.version)
    /\ UNCHANGED <<keyed, issued, rest, snapVersion>>

(***************************************************************************)
(* apply_snapshot                                                          *)
(***************************************************************************)
\* The open posture: the snapshot's state is applied as it stands.
ApplyOpenSnapshot(v, state) ==
    /\ ~keyed
    /\ idle
    /\ Apply(v, state)
    /\ UNCHANGED <<keyed, issued, rest, snapVersion>>

\* MUTANT what the commands write beyond the state is refused too.
AccountedForExactly(state, commands) ==
    /\ \A k \in DOMAIN state :
        \E c \in commands :
            /\ Writes(c.delta, k)
            /\ c.delta[k] = state[k]
            /\ \A e \in commands : Writes(e.delta, k) => e.version <= c.version
    /\ \A c \in commands : DOMAIN c.delta \subseteq DOMAIN state

\* Each key of state holds what the newest of the commands writing it wrote.
AccountedFor(state, commands) ==
    \A k \in DOMAIN state :
        \E c \in commands :
            /\ Writes(c.delta, k)
            /\ c.delta[k] = state[k]
            /\ \A e \in commands : Writes(e.delta, k) => e.version <= c.version

\* One bad command, or one key no command accounts for, refuses it whole.
RefuseSnapshot(v, state, commands) ==
    /\ keyed
    /\ idle
    /\ ~(\A c \in commands : Verified(c)) \/ ~AccountedFor(state, commands)
    /\ RefuseSignature(v)
    /\ UNCHANGED <<keyed, issued, rest, snapVersion>>

\* MUTANT the commands are replayed without a look at their signatures.
StartReplayUnverified(v, state, commands) ==
    /\ keyed
    /\ idle
    /\ AccountedFor(state, commands)
    /\ Len(outbox) + Cardinality(commands) <= MaxOutbox
    /\ rest' = commands
    /\ snapVersion' = v
    /\ UNCHANGED <<keyed, nodeVars, issued, taken>>

\* The bound needs room for whatever the replay will report.
StartReplay(v, state, commands) ==
    /\ keyed
    /\ idle
    /\ \A c \in commands : Verified(c)
    /\ AccountedFor(state, commands)
    /\ Len(outbox) + Cardinality(commands) <= MaxOutbox
    /\ rest' = commands
    /\ snapVersion' = v
    /\ UNCHANGED <<keyed, nodeVars, issued, taken>>

\* MUTANT the commands are replayed in the order they arrived.
ReplayUnsorted(c) == c \in rest

\* verified.sort: lowest version first.
IsNext(c) == \A e \in rest : c.version <= e.version

ReplayOne(c) ==
    /\ ~idle
    /\ IsNext(c)
    /\ Apply(c.version, c.delta)
    /\ rest' = rest \ {c}
    /\ UNCHANGED <<keyed, issued, snapVersion>>

FinishReplay ==
    /\ ~idle
    /\ rest = {}
    /\ applied' = IF snapVersion > applied THEN snapVersion ELSE applied
    /\ snapVersion' = 0
    /\ UNCHANGED <<keyed, posture, slots, consumed, outbox, issued, rest, taken>>

(***************************************************************************)
(* The IntentLoop boundary: the host drains the one-shots.  Each slot is   *)
(* emptied first; a consumed id is dropped without a word.                 *)
(***************************************************************************)
admit_intent == ~(paused \/ stopped)

\* MUTANT the id is not remembered.
FireForgetting(kind, id) ==
    /\ Ack(kind, id)
    /\ UNCHANGED consumed

Fire(kind, id) ==
    /\ Ack(kind, id)
    /\ consumed' = consumed \cup {id}

Refuse(kind, id) ==
    /\ Ack(kind, id)
    /\ UNCHANGED consumed

DropDuplicate(id) ==
    /\ id \in consumed
    /\ UNCHANGED <<consumed, outbox>>

boundaryFrame == <<keyed, applied, posture, issued, rest, snapVersion, taken>>

\* MUTANT a stopped node still injects.
TakeInjectionWhenStopped ==
    /\ idle
    /\ injection # None
    /\ injection' = None
    /\ \/ DropDuplicate(injection)
       \/ /\ injection \notin consumed
          /\ IF TestBench
             THEN Fire("injection_consumed", injection)
             ELSE Refuse("injection_refused", injection)
    /\ UNCHANGED <<excision, replan, boundaryFrame>>

take_pending_injection ==
    /\ idle
    /\ injection # None
    /\ injection' = None
    /\ \/ DropDuplicate(injection)
       \/ /\ injection \notin consumed
          /\ IF ~stopped /\ TestBench
             THEN Fire("injection_consumed", injection)
             ELSE Refuse("injection_refused", injection)
    /\ UNCHANGED <<excision, replan, boundaryFrame>>

\* The kernel's provenance guard (axor_core, external): any target that is
\* operator configuration refuses the excision.
excision_refused(e, config) == e.refs \cap config # {}

\* config: the segments whose provenance, as the host reports it, is operator
\* configuration.  The code does not look at `stopped` here.
take_pending_excision(config) ==
    /\ idle
    /\ excision # None
    /\ excision' = None
    /\ \/ DropDuplicate(excision.id)
       \/ /\ excision.id \notin consumed
          /\ IF excision_refused(excision, config)
             THEN Refuse("excision_refused", excision.id)
             ELSE Fire("context_excision", excision.id)
    /\ UNCHANGED <<injection, replan, boundaryFrame>>

\* A replan without an id is never a duplicate and never remembered.
take_pending_replan ==
    /\ idle
    /\ replan # None
    /\ replan' = None
    /\ \/ replan # NoId /\ DropDuplicate(replan)
       \/ /\ replan = NoId \/ replan \notin consumed
          /\ IF stopped THEN Refuse("replan_refused", replan)
             ELSE IF replan = NoId
             THEN Ack("replan_applied", replan) /\ UNCHANGED consumed
             ELSE Fire("replan_applied", replan)
    /\ UNCHANGED <<injection, excision, boundaryFrame>>

Init ==
    /\ keyed \in BOOLEAN
    /\ applied = 0
    /\ stopped = FALSE
    /\ paused = FALSE
    /\ cap = LocalCap
    /\ injection = None
    /\ excision = None
    /\ replan = None
    /\ consumed = {}
    /\ outbox = <<>>
    /\ issued = {}
    /\ rest = {}
    /\ snapVersion = 0
    /\ taken = {}

\* The state of a snapshot decides whether it is refused, nothing else, so
\* the bodies of Delta and the empty one stand for every state sent.
EmptyState == [k \in {} |-> None]

Next ==
    \/ \E v \in Version, d \in SignedDelta : Issue(v, d)
    \/ \E c \in Wire : ApplyDelta(c)
    \/ \E v \in Version, d \in Delta : ApplyOpenSnapshot(v, d)
    \/ \E v \in Version, state \in Delta \cup {EmptyState},
          commands \in SUBSET (issued \cup Foreign) :
          RefuseSnapshot(v, state, commands) \/ StartReplay(v, state, commands)
    \/ \E c \in rest : ReplayOne(c)
    \/ FinishReplay
    \/ take_pending_injection
    \/ \E config \in SUBSET Ref : take_pending_excision(config)
    \/ take_pending_replan

Spec == Init /\ [][Next]_vars

-----------------------------------------------------------------------------
(***************************************************************************)
(* Properties                                                              *)
(***************************************************************************)
\* Every variable has its type; a replay under way belongs to a keyed node.
TypeOK ==
    /\ keyed \in BOOLEAN
    /\ applied \in Nat
    /\ stopped \in BOOLEAN
    /\ paused \in BOOLEAN
    /\ cap \in Int \cup {None}
    /\ injection \in Id \cup {None}
    /\ excision \in Excision \cup {None}
    /\ replan \in Id \cup {None}
    /\ consumed \in SUBSET Id
    /\ outbox \in Seq(Event)
    /\ issued \in SUBSET Command
    /\ rest \in SUBSET issued
    /\ snapVersion \in Version \cup {0}
    /\ taken \in SUBSET Command

Writers(k) == {c \in taken : Writes(c.delta, k)}

\* Stopped once any of the commands taken stopped.
StoppedFollowsTaken ==
    stopped <=> \E c \in Writers("stopped") : c.delta["stopped"]

\* Paused as the newest writer of `paused` says.
PausedFollowsTaken ==
    IF Writers("paused") = {} THEN ~paused
    ELSE \E c \in Writers("paused") :
             /\ paused = c.delta["paused"]
             /\ \A e \in Writers("paused") : e.version <= c.version

\* By whatever mixture of deltas, snapshots, repeats and gaps the commands
\* came, the flags are those the commands taken so far, put in version order,
\* leave (session.py:106-110, "applies identically").
PostureFollowsTaken == StoppedFollowsTaken /\ PausedFollowsTaken

TakenCaps ==
    {c.delta["budget_cap_calls"] :
        c \in {e \in taken : Names(e.delta, "budget_cap_calls")}}
    \cup ({LocalCap} \ {None})

\* The cap is the tightest of the local one and of every cap a command taken
\* while running named, refused widenings included (session.py:13).
CapIsTightest ==
    IF TakenCaps = {} THEN cap = None
    ELSE cap \in TakenCaps /\ \A n \in TakenCaps : cap <= n

\* c named a cap wider than the local one or than an earlier command's.
Widened(c) ==
    /\ Names(c.delta, "budget_cap_calls")
    /\ \/ LocalCap # None /\ c.delta["budget_cap_calls"] > LocalCap
       \/ \E e \in taken :
             /\ e.version < c.version
             /\ Names(e.delta, "budget_cap_calls")
             /\ e.delta["budget_cap_calls"] < c.delta["budget_cap_calls"]

Armers(k) == {c \in taken : Names(c.delta, k) /\ ~Widened(c)}

ArmedBy(k, slot) ==
    slot # None =>
        \E c \in Armers(k) :
            /\ slot = c.delta[k]
            /\ \A e \in Armers(k) : e.version <= c.version

\* A pending one-shot is the one of the newest command that armed the slot: a
\* consumed or superseded one never comes back, and a command refused as a
\* widening never armed one (session.py:224-265).
ArmedByNewest ==
    /\ ArmedBy("pending_injection", injection)
    /\ ArmedBy("pending_excision", excision)
    /\ ArmedBy("replan", replan)

Fired(e) == e.kind \in FireKind

\* replan_applied with the empty id: the one event that may repeat.
Anonymous(e) == e.kind = "replan_applied" /\ e.id = NoId

\* No id fires twice, nor as two kinds of one-shot, however often its command
\* is delivered, replayed or re-armed (session.py:14).
OneShotAtMostOnce ==
    \A i, j \in 1..Len(outbox) :
        /\ Fired(outbox[i]) /\ ~Anonymous(outbox[i])
        /\ Fired(outbox[j]) /\ ~Anonymous(outbox[j])
        /\ outbox[i].id = outbox[j].id
        => i = j

\* The ids a heartbeat calls consumed are exactly those an acknowledgement
\* was appended for (session.py:301-304, 329-330, 359-361, 371).
ConsumedIsAcknowledged ==
    \A id \in Id :
        id \in consumed <=>
            \E i \in 1..Len(outbox) :
                Fired(outbox[i]) /\ outbox[i].id = id /\ ~Anonymous(outbox[i])

Changes(new, old) == new # old

Arms(new, old) == new # old /\ new # None

\* A keyed node changes posture or arms a one-shot only by a command an
\* operator signed, newer than what it has applied, and only in the keys that
\* command writes; it takes that command's version in the same step
\* (session.py:6-11, 111-114).
NewerSignedOnly ==
    [][keyed =>
         \/ /\ UNCHANGED posture
            /\ ~Arms(injection', injection)
            /\ ~Arms(excision', excision)
            /\ ~Arms(replan', replan)
         \/ /\ applied' > applied
            /\ \E c \in issued :
                 /\ c.version = applied'
                 /\ Changes(stopped', stopped) => Writes(c.delta, "stopped")
                 /\ Changes(paused', paused) => Writes(c.delta, "paused")
                 /\ Changes(cap', cap) => Names(c.delta, "budget_cap_calls")
                 /\ Arms(injection', injection) => Names(c.delta, "pending_injection")
                 /\ Arms(excision', excision) => Names(c.delta, "pending_excision")
                 /\ Arms(replan', replan) => Names(c.delta, "replan")]_vars

\* A replay passes no command over: while one is still to be visited, the
\* applied version moves past it only by applying it (session.py:147, 169-172).
NoCommandPassedOver ==
    [][\A c \in rest :
         c.version > applied /\ c.version <= applied' => c.version = applied']_vars

Appended(kinds) ==
    /\ Len(outbox') = Len(outbox) + 1
    /\ outbox'[Len(outbox')].kind \in kinds

\* Once stopped, neither an injection nor a replan fires, also one armed
\* before the stop (session.py:286-294, 353-358).
StoppedIsNotSteered ==
    [][stopped => ~Appended({"injection_consumed", "replan_applied"})]_vars

\* "A stopped node absorbs later effects" read for every one-shot, as the
\* module docstring has it (session.py:12).  The code does not do this.
StoppedAbsorbsOneShots == [][stopped => ~Appended(FireKind)]_vars

\* The node implements the abstract posture: newer commands only, stopped
\* absorbs, the cap narrows.
Posture == INSTANCE PlanePosture WITH ver <- applied

PostureSpec == Posture!Spec
=============================================================================
