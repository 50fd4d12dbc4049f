--------------------------- MODULE PlaneReconnect ---------------------------
(***************************************************************************)
(* A node that loses its stream, reconnects to a snapshot, or is restarted *)
(* and begins with one: PlaneSession (src/axor_wrap/plane/session.py)      *)
(* under an honest backend.                                                *)
(*                                                                         *)
(* The backend (external) keeps the desired state, last writer wins, under *)
(* a version of its own.  A snapshot carries the state and, for a keyed    *)
(* node, the signed commands: the one behind each key, or all of them.     *)
(* The protocol text says the former (session.py:104-106), the code also   *)
(* takes the latter (session.py:170, 175-177).                             *)
(*                                                                         *)
(* A client with hold_on_disconnect_after pauses its session when it has   *)
(* been away that long (client.py:333-337): behind the version counter,    *)
(* and only a later command that writes `paused` takes the pause back.     *)
(*                                                                         *)
(* After a one-shot fired the client tells the backend to clear its key    *)
(* (client.py:141-153): late or never, and not which one-shot it was.      *)
(***************************************************************************)
EXTENDS PlaneSession

CONSTANTS
    HoldAfter,   \* hold_on_disconnect_after is set
    MaxCommands, \* bound: commands in a behaviour
    MaxRestart   \* bound: restarts in a behaviour

ASSUME HoldType == HoldAfter \in BOOLEAN

VARIABLES
    compact,  \* snapshots carry only the commands behind the keys of state
    state,    \* the desired state, last writer per key
    latest,   \* its version
    acks,     \* keys whose POST .../consumed is under way
    cleared,  \* history: one-shots whose key was cleared
    synced,   \* the stream stands and has sent its snapshot
    held,     \* history: a hold paused the node, no command wrote paused since
    earlier,  \* history: ids that fired before the last restart
    restarts

backend == <<compact, state, latest, acks, cleared>>
process == <<synced, held, earlier, restarts>>
allVars == <<vars, backend, process>>

OneShotKey == {"replan", "pending_injection", "pending_excision"}

IdOf(k, value) == IF k = "pending_excision" THEN value.id ELSE value

\* The one-shots a body or the state names, under one key or any.
IdAt(d, k) == {IdOf(k, d[key]) : key \in {x \in {k} : Names(d, x)}}
Ids(d) == UNION {IdAt(d, k) : k \in OneShotKey}

(***************************************************************************)
(* The backend                                                             *)
(***************************************************************************)
\* An operator's command; every one-shot has an id of its own.
Order(d) ==
    /\ idle
    /\ Cardinality(issued) < MaxCommands
    /\ \A j, k \in OneShotKey : j # k => IdAt(d, j) \cap IdAt(d, k) = {}
    /\ \A c \in issued : Ids(c.delta) \cap Ids(d) = {}
    /\ latest' = latest + 1
    /\ issued' = issued \cup {[version |-> latest + 1, delta |-> d]}
    /\ state' = [k \in DOMAIN state \cup DOMAIN d |->
                    IF Writes(d, k) THEN d[k] ELSE state[k]]
    /\ UNCHANGED <<keyed, nodeVars, rest, snapVersion, taken,
                   compact, acks, cleared, process>>

Newest(k) ==
    CHOOSE c \in issued :
        /\ Writes(c.delta, k)
        /\ \A e \in issued : Writes(e.delta, k) => e.version <= c.version

Chain == IF compact THEN {Newest(k) : k \in DOMAIN state} ELSE issued

\* MUTANT the version moves and the key stays.
ClearNothing(k) ==
    /\ idle
    /\ k \in acks
    /\ acks' = acks \ {k}
    /\ IF k \in DOMAIN state
       THEN latest' = latest + 1 /\ cleared' = cleared \cup IdAt(state, k)
       ELSE UNCHANGED <<latest, cleared>>
    /\ UNCHANGED <<vars, state, compact, process>>

\* POST .../consumed arrives: the key goes, whichever one-shot it holds by now.
Clear(k) ==
    /\ idle
    /\ k \in acks
    /\ acks' = acks \ {k}
    /\ IF k \in DOMAIN state
       THEN /\ state' = [key \in DOMAIN state \ {k} |-> state[key]]
            /\ latest' = latest + 1
            /\ cleared' = cleared \cup IdAt(state, k)
       ELSE UNCHANGED <<state, latest, cleared>>
    /\ UNCHANGED <<vars, compact, process>>

(***************************************************************************)
(* The stream                                                              *)
(***************************************************************************)
\* The stream ends or breaks; the client will dial again.
Disconnect ==
    /\ idle
    /\ synced
    /\ synced' = FALSE
    /\ UNCHANGED <<vars, backend, held, earlier, restarts>>

\* Away for hold_on_disconnect_after, also before the first snapshot ever: the
\* pause is local, no command and no version stands for it.  In a paused
\* session it changes nothing.
Hold ==
    /\ HoldAfter
    /\ idle
    /\ ~synced
    /\ ~paused
    /\ paused' = TRUE
    /\ held' = TRUE
    /\ UNCHANGED <<keyed, applied, stopped, cap, slots, consumed, outbox, issued,
                   rest, snapVersion, taken, backend, synced, earlier, restarts>>

\* Where _apply writes `paused` the hold is over, whatever it writes.
TakesBackHold(v, d) ==
    held' = IF Stale(v) \/ stopped \/ ~Writes(d, "paused") THEN held ELSE FALSE

\* A command on the stream: the next one the node has not had.
Push(c) ==
    /\ synced
    /\ c.version > applied
    /\ \A e \in issued : e.version > applied => c.version <= e.version
    /\ ApplyDelta(c)
    /\ TakesBackHold(c.version, c.delta)
    /\ UNCHANGED <<backend, synced, earlier, restarts>>

\* The snapshot a subscription opens with.
Reconnect ==
    /\ idle
    /\ ~synced
    /\ synced' = TRUE
    /\ \/ StartReplay(latest, state, Chain) /\ latest > 0 /\ UNCHANGED held
       \/ ApplyOpenSnapshot(latest, state) /\ TakesBackHold(latest, state)
       \/ keyed /\ latest = 0 /\ UNCHANGED <<vars, held>>
    /\ UNCHANGED <<backend, earlier, restarts>>

Replay(c) ==
    /\ ReplayOne(c)
    /\ TakesBackHold(c.version, c.delta)
    /\ UNCHANGED <<backend, synced, earlier, restarts>>

(***************************************************************************)
(* The node                                                                *)
(***************************************************************************)
\* MUTANT whatever became of a one-shot, its key is cleared.
AcknowledgeAnything ==
    LET last == outbox'[Len(outbox')] IN
    acks' = IF outbox' = outbox THEN acks
            ELSE acks \cup
                 {k \in {"pending_injection", "pending_excision"} :
                    last.kind \in IF k = "pending_injection"
                                  THEN {"injection_consumed", "injection_refused"}
                                  ELSE {"context_excision", "excision_refused"}}

\* flush posts /consumed for the keys that fired; a replan's is never cleared.
Acknowledge ==
    LET last == outbox'[Len(outbox')] IN
    acks' = IF outbox' = outbox THEN acks
            ELSE acks \cup
                 {k \in {"pending_injection", "pending_excision"} :
                    last.kind = IF k = "pending_injection"
                                THEN "injection_consumed" ELSE "context_excision"}

Boundary ==
    /\ \/ take_pending_injection
       \/ \E config \in SUBSET Ref : take_pending_excision(config)
       \/ take_pending_replan
    /\ Acknowledge
    /\ UNCHANGED <<compact, state, latest, cleared, process>>

\* MUTANT the applied version outlives the process, what it stood for does not.
RestartKeepingVersion ==
    /\ idle
    /\ restarts < MaxRestart
    /\ restarts' = restarts + 1
    /\ earlier' = earlier \cup consumed
    /\ synced' = FALSE
    /\ held' = FALSE
    /\ stopped' = FALSE
    /\ paused' = FALSE
    /\ cap' = LocalCap
    /\ injection' = None
    /\ excision' = None
    /\ replan' = None
    /\ consumed' = {}
    /\ outbox' = <<>>
    /\ taken' = {}
    /\ UNCHANGED <<keyed, applied, issued, rest, snapVersion, backend>>

\* The process dies and a new one starts: all of the session was in memory.
Restart ==
    /\ idle
    /\ restarts < MaxRestart
    /\ restarts' = restarts + 1
    /\ earlier' = earlier \cup consumed
    /\ synced' = FALSE
    /\ held' = FALSE
    /\ applied' = 0
    /\ stopped' = FALSE
    /\ paused' = FALSE
    /\ cap' = LocalCap
    /\ injection' = None
    /\ excision' = None
    /\ replan' = None
    /\ consumed' = {}
    /\ outbox' = <<>>
    /\ taken' = {}
    /\ UNCHANGED <<keyed, issued, rest, snapVersion, backend>>

ReconnectInit ==
    /\ Init
    /\ compact \in IF keyed THEN BOOLEAN ELSE {FALSE}
    /\ state = EmptyState
    /\ latest = 0
    /\ acks = {}
    /\ cleared = {}
    /\ synced = FALSE
    /\ held = FALSE
    /\ earlier = {}
    /\ restarts = 0

ReconnectNext ==
    \/ \E d \in SignedDelta : Order(d)
    \/ \E k \in acks : Clear(k)
    \/ Disconnect
    \/ Hold
    \/ \E c \in issued : Push(c)
    \/ Reconnect
    \/ \E c \in rest : Replay(c)
    \/ FinishReplay /\ UNCHANGED <<backend, process>>
    \/ Boundary
    \/ Restart

ReconnectSpec == ReconnectInit /\ [][ReconnectNext]_allVars

-----------------------------------------------------------------------------
(***************************************************************************)
(* Properties                                                              *)
(***************************************************************************)
\* Connected, and nothing on the way.
CaughtUp == synced /\ idle /\ \A c \in issued : c.version <= applied

\* What a node that never was away makes of the commands, one by one.
Fresh == [stopped |-> FALSE, paused |-> FALSE, cap |-> LocalCap]

Obey(p, d) ==
    IF p.stopped THEN p
    ELSE [stopped |-> IF Writes(d, "stopped") THEN d["stopped"] ELSE FALSE,
          paused |-> IF Writes(d, "paused") THEN d["paused"] ELSE p.paused,
          cap |-> IF Names(d, "budget_cap_calls")
                     /\ (p.cap = None \/ d["budget_cap_calls"] <= p.cap)
                  THEN d["budget_cap_calls"] ELSE p.cap]

\* After the commands of versions up to v.
After(commands) ==
    LET after[v \in Nat] ==
            IF v = 0 THEN Fresh
            ELSE IF \E c \in commands : c.version = v
            THEN Obey(after[v - 1], (CHOOSE c \in commands : c.version = v).delta)
            ELSE after[v - 1]
    IN  after

Live == After(issued)[latest]

\* "The lattice ... applies identically whether a command arrives live or
\* after a reconnect" (session.py:107-110): a node that has caught up is where
\* one that never was away is, but for a pause of its own client's hold that no
\* command has taken back.  The code does not do this for a snapshot that
\* carries only the command behind each key.
AppliesIdentically ==
    keyed /\ CaughtUp =>
        LET live == Live IN
        /\ stopped = live.stopped
        /\ IF held THEN paused ELSE paused = live.paused
        /\ cap = live.cap

\* It does when the snapshot carries every command, also after a restart and
\* whatever was missed, held, repeated or cleared in between.
WholeChainIsLive == ~compact => AppliesIdentically

\* However a node came to catch up, keyed or open, by a compacted chain or a
\* merged state, it is no freer than the desired state: stopped and paused if
\* that says so, and under its cap (session.py:85-129).  Only its own hold can
\* keep it paused where the state says to run.
NoFreerThanDesired ==
    CaughtUp /\ ~stopped =>
        /\ Writes(state, "stopped") => ~state["stopped"]
        /\ Writes(state, "paused") =>
               IF held THEN paused ELSE paused = state["paused"]
        /\ Names(state, "budget_cap_calls") =>
               cap # None /\ cap <= state["budget_cap_calls"]

Slot(k) ==
    CASE k = "replan" -> replan
      [] k = "pending_injection" -> injection
      [] k = "pending_excision" -> excision

\* A one-shot of that id fired or was refused.
Answered(id) ==
    \E i \in 1..Len(outbox) :
        outbox[i].kind # "state_applied" /\ outbox[i].id = id

RefusedAsWidening(v) ==
    \E i \in 1..Len(outbox) :
        /\ outbox[i].kind = "state_applied"
        /\ outbox[i].result = "rejected_widening"
        /\ outbox[i].version = v

\* What the backend still wants done has reached a keyed node that has caught
\* up: the one-shot is armed, dealt with, or was refused with the cap it came
\* with, also when the node was away for it or restarted (session.py:166-180).
OneShotsArrive ==
    keyed /\ CaughtUp /\ ~stopped =>
        \A k \in {key \in OneShotKey : Names(state, key)} :
            \/ Slot(k) = state[k]
            \/ Answered(IdOf(k, state[k]))
            \/ RefusedAsWidening(Newest(k).version)

\* An honest backend's snapshot passes the node's checks, whatever was cleared
\* out of its state, whichever commands it carries and whatever else they
\* write: Reconnect has no need of a refusal (session.py:131-164).
HonestIsAccepted ==
    /\ \A c \in Chain : Verified(c)
    /\ AccountedFor(state, Chain)

Pending ==
    {injection, replan} \cup (IF excision = None THEN {} ELSE {excision.id})

\* consumed_ids dies with the process, so a restart may arm a one-shot that
\* fired before.  Once its key was cleared this takes a command the snapshot
\* still carries: for another key, or because it carries them all
\* (session.py:83, 175-181).
AgainOnlyFromTheChain ==
    [][\A id \in earlier \cap cleared \cap (Pending' \ Pending) :
         /\ keyed
         /\ compact => \E c \in issued :
                          id \in Ids(c.delta) /\ Cardinality(DOMAIN c.delta) > 1]_allVars

\* A key is cleared without its one-shot having fired only when an older
\* one-shot under the same key did fire: the call names no id, so late it
\* clears the newer one (client.py:143-151).
ClearedUnfiredIsOvertaken ==
    \A id \in cleared \ (earlier \cup consumed) :
        \E c, e \in issued : \E k \in OneShotKey :
            /\ Names(c.delta, k) /\ IdOf(k, c.delta[k]) = id
            /\ Names(e.delta, k) /\ IdOf(k, e.delta[k]) \in earlier \cup consumed
            /\ e.version < c.version
=============================================================================
