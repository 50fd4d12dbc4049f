------------------------- MODULE PlaneSubscription -------------------------
(***************************************************************************)
(* The downstream half of the plane connection: PlaneClient.run            *)
(* (src/axor_wrap/plane/client.py), which subscribes to desired state and  *)
(* dispatches what the stream carries to the session, and                  *)
(* PlaneConnector.run (src/axor_wrap/connect.py), which owns that task and *)
(* the heartbeat loop and winds both down.                                 *)
(*                                                                         *)
(* Operators pause, resume and stop a keyed node.  The backend (external,  *)
(* here an honest one) numbers their commands, opens every subscription    *)
(* with a snapshot of all of them, pushes later ones as deltas, and closes *)
(* the stream of a reader it cannot serve.  The session is reduced to the  *)
(* posture and the version it has applied; PlaneSession has the rest.      *)
(***************************************************************************)
EXTENDS Integers, Sequences

CONSTANTS
    MaxCommands, \* bound: commands in a behaviour
    MaxFail      \* bound: streams lost, closed, refused or garbled in a behaviour

ASSUME SubscriptionConfig ==
    /\ MaxCommands \in Nat
    /\ MaxFail \in Nat

VARIABLES
    hold_after, \* whether hold_on_disconnect_after is set
    log,      \* the operators' commands; the index is the version
    wire,     \* messages on the stream, the next one first
    node,     \* the session's posture
    applied,  \* applied_version
    held,     \* history: a disconnect paused the node, no command touched that since
    client,   \* where the subscription task is
    beat,     \* where the heartbeat task is
    runner,   \* where PlaneConnector.run is
    stop,     \* the stop event
    fails     \* failures so far

session == <<node, applied, held>>
tasks == <<beat, runner, stop>>
vars == <<hold_after, log, wire, session, client, tasks, fails>>

Command == {"pause", "resume", "stop"}

Posture == [paused : BOOLEAN, stopped : BOOLEAN]

Fresh == [paused |-> FALSE, stopped |-> FALSE]

(***************************************************************************)
(* The session                                                             *)
(***************************************************************************)
\* _apply on the posture: stopped absorbs.
Obey(posture, c) ==
    IF posture.stopped THEN posture
    ELSE [paused |-> (c = "pause" \/ (posture.paused /\ c # "resume")),
          stopped |-> c = "stop"]

\* Commands from + 1 to to, obeyed in version order.
Obeyed(posture, from, to) ==
    LET after[v \in Nat] ==
            IF v <= from THEN posture ELSE Obey(after[v - 1], log[v])
    IN  after[to]

Touches(from, to) == \E v \in (from + 1)..to : log[v] \in {"pause", "resume"}

\* MUTANT a snapshot sets the version and leaves its commands to the deltas.
SnapshotVersionOnly(v) ==
    /\ applied' = IF v > applied THEN v ELSE applied
    /\ UNCHANGED <<node, held>>

\* apply_snapshot: what the node has not applied yet is replayed.
Snapshot(v) ==
    /\ applied' = IF v > applied THEN v ELSE applied
    /\ node' = Obeyed(node, applied, v)
    /\ held' = (held /\ ~Touches(applied, v))

\* apply_delta: the command alone, unless it is stale.
Delta(v) ==
    IF v <= applied THEN UNCHANGED session
    ELSE /\ applied' = v
         /\ node' = Obey(node, log[v])
         /\ held' = (held /\ log[v] = "stop")

(***************************************************************************)
(* Operators and backend (external)                                        *)
(***************************************************************************)
Message ==
    [kind : {"snapshot", "delta"}, version : 0..MaxCommands]
    \cup [kind : {"unreadable"}]

Operator(c) ==
    /\ Len(log) < MaxCommands
    /\ log' = Append(log, c)
    /\ wire' = IF client = "streaming"
               THEN Append(wire, [kind |-> "delta", version |-> Len(log) + 1])
               ELSE wire
    /\ UNCHANGED <<hold_after, session, client, tasks, fails>>

\* A message _dispatch cannot read: no JSON, no version.
Garble ==
    /\ client = "streaming"
    /\ fails < MaxFail
    /\ fails' = fails + 1
    /\ wire' = Append(wire, [kind |-> "unreadable"])
    /\ UNCHANGED <<hold_after, log, session, client, tasks>>

(***************************************************************************)
(* PlaneClient.run                                                         *)
(***************************************************************************)
\* The GET is answered 200; the backend's first message is the snapshot.  It
\* took the reader on before it read the snapshot, so commands the snapshot
\* has, from any point on, may follow it again as deltas.
Subscribe ==
    /\ client = "dialing"
    /\ ~stop
    /\ client' = "streaming"
    /\ \E from \in 0..Len(log) :
         wire' = <<[kind |-> "snapshot", version |-> Len(log)]>>
                 \o [i \in 1..(Len(log) - from) |->
                       [kind |-> "delta", version |-> from + i]]
    /\ UNCHANGED <<hold_after, log, session, tasks, fails>>

\* The loop's condition: no new subscription once the event is set.
LeaveLoop ==
    /\ client = "dialing"
    /\ stop
    /\ client' = "over"
    /\ UNCHANGED <<hold_after, log, wire, session, tasks, fails>>

\* Either the credential is refused, or the stream ends without an error:
\* wait, then dial again.
Refused ==
    /\ client \in {"dialing", "streaming"}
    /\ fails < MaxFail
    /\ fails' = fails + 1
    /\ client' = "backing_off"
    /\ wire' = <<>>
    /\ UNCHANGED <<hold_after, log, session, tasks>>

\* An httpx.HTTPError, while dialing or streaming.
Disconnected ==
    /\ client \in {"dialing", "streaming"}
    /\ fails < MaxFail
    /\ fails' = fails + 1
    /\ client' = IF hold_after THEN "grace" ELSE "backing_off"
    /\ wire' = <<>>
    /\ UNCHANGED <<hold_after, log, session, tasks>>

\* MUTANT an error ends the subscription.
GiveUpOnError ==
    /\ client = "backing_off"
    /\ client' = "over"
    /\ UNCHANGED <<hold_after, log, wire, session, tasks, fails>>

\* _pause: the delay passes, or stop ends the loop.
Redial ==
    /\ client = "backing_off"
    /\ client' = IF stop THEN "over" ELSE "dialing"
    /\ UNCHANGED <<hold_after, log, wire, session, tasks, fails>>

\* hold_on_disconnect: the grace period passes, the node is paused, and the
\* next dial begins; nothing resumes it but a command.
GraceOver ==
    /\ client = "grace"
    /\ IF stop THEN client' = "over" /\ UNCHANGED session
       ELSE /\ client' = "dialing"
            /\ node' = [node EXCEPT !.paused = TRUE]
            /\ held' = TRUE
            /\ UNCHANGED applied
    /\ UNCHANGED <<hold_after, log, wire, tasks, fails>>

\* _consume_sse and _dispatch.  The stop event is looked at when a line comes;
\* an exception out of _dispatch ends the task.
Receive ==
    /\ client = "streaming"
    /\ wire # <<>>
    /\ wire' = Tail(wire)
    /\ IF stop THEN client' = "backing_off" /\ UNCHANGED session
       ELSE LET m == Head(wire) IN
            \/ m.kind = "snapshot" /\ Snapshot(m.version) /\ UNCHANGED client
            \/ m.kind = "delta" /\ Delta(m.version) /\ UNCHANGED client
            \/ m.kind = "unreadable" /\ client' = "died" /\ UNCHANGED session
    /\ UNCHANGED <<hold_after, log, tasks, fails>>

(***************************************************************************)
(* PlaneConnector.run and heartbeat_loop                                   *)
(***************************************************************************)
\* PlaneConnector.stop
Stop ==
    /\ ~stop
    /\ stop' = TRUE
    /\ UNCHANGED <<hold_after, log, wire, session, client, beat, runner, fails>>

\* The period passes and a flush begins, or stop ends the loop.
Tick ==
    /\ beat = "waiting"
    /\ beat' = IF stop THEN "over" ELSE "flushing"
    /\ UNCHANGED <<hold_after, log, wire, session, client, runner, stop, fails>>

\* The flush ends, by whatever exception.
Flushed ==
    /\ beat = "flushing"
    /\ beat' = "waiting"
    /\ UNCHANGED <<hold_after, log, wire, session, client, runner, stop, fails>>

\* The ttl runs out or stop is set: the finally block sets it either way.
\* Without a stop this is the ttl, or the first flush raising.
WindDown ==
    /\ runner = "running"
    /\ stop' = TRUE
    /\ runner' = "ending_client"
    /\ UNCHANGED <<hold_after, log, wire, session, client, beat, fails>>

\* MUTANT the subscription is left to notice the event by itself.
LeaveClient ==
    /\ runner = "ending_client"
    /\ runner' = "ending_beat"
    /\ UNCHANGED <<hold_after, log, wire, session, client, beat, stop, fails>>

\* MUTANT the subscription is awaited without being cancelled.
AwaitClient ==
    /\ runner = "ending_client"
    /\ client = "over"
    /\ runner' = "ending_beat"
    /\ UNCHANGED <<hold_after, log, wire, session, client, beat, stop, fails>>

\* task.cancel(); await task.  A task that died raises what it died of, and
\* the loop over the tasks ends there.
EndClient ==
    /\ runner = "ending_client"
    /\ IF client = "died" THEN runner' = "raised" /\ UNCHANGED client
       ELSE runner' = "ending_beat" /\ client' = "over"
    /\ UNCHANGED <<hold_after, log, wire, session, beat, stop, fails>>

EndBeat ==
    /\ runner = "ending_beat"
    /\ beat' = "over"
    /\ runner' = "returned"
    /\ UNCHANGED <<hold_after, log, wire, session, client, stop, fails>>

Init ==
    /\ hold_after \in BOOLEAN
    /\ log = <<>>
    /\ wire = <<>>
    /\ node = Fresh
    /\ applied = 0
    /\ held = FALSE
    /\ client = "dialing"
    /\ beat = "waiting"
    /\ runner = "running"
    /\ stop = FALSE
    /\ fails = 0

ClientStep == Subscribe \/ LeaveLoop \/ Redial \/ GraceOver \/ Receive

Next ==
    \/ \E c \in Command : Operator(c)
    \/ Garble
    \/ ClientStep
    \/ Refused
    \/ Disconnected
    \/ Stop
    \/ Tick
    \/ Flushed
    \/ WindDown
    \/ EndClient
    \/ EndBeat

Spec == Init /\ [][Next]_vars

\* The event loop resumes every task that can run: delays pass, a dial is
\* answered, a line that arrived is read.  A stop wakes PlaneConnector.run.
\* Failures, operators and the ttl owe nothing.
Fairness ==
    /\ WF_vars(ClientStep)
    /\ WF_vars(Tick \/ Flushed)
    /\ WF_vars(stop /\ WindDown)
    /\ WF_vars(EndClient \/ EndBeat)

FairSpec == Spec /\ Fairness

-----------------------------------------------------------------------------
(***************************************************************************)
(* Properties                                                              *)
(***************************************************************************)
\* Whatever the disconnects and repeats, the node's posture is exactly what the
\* operators' first `applied` commands leave, none skipped, none obeyed twice.
\* A local hold shows as paused until a command says otherwise; on a stopped
\* node the pause no longer matters (session.py:106-110, client.py:334-337).
NodeIsAtAPrefix ==
    LET desired == Obeyed(Fresh, 0, applied) IN
    /\ node.stopped = desired.stopped
    /\ ~node.stopped => node.paused = (desired.paused \/ held)

\* The subscription catches up: a command issued is applied in the end, unless
\* the connection is wound down or an unreadable message ended the task
\* (client.py:290-292).
CommandsArrive ==
    \A v \in 1..MaxCommands :
        v <= Len(log) ~> (applied >= v \/ stop \/ client = "died")

\* Once PlaneConnector.run has returned nothing of it is left that could move
\* the posture or post a heartbeat, and its subscription ended by leaving its
\* loop: what it died of, run raises (connect.py:316-321).
RunLeavesNothing == runner = "returned" => client = "over" /\ beat = "over"

\* A stop ends run, also while the stream is silent, and with it the heartbeat,
\* also when run raised before it got there (connect.py:316-321).
StopEnds == stop ~> (runner \in {"returned", "raised"} /\ beat = "over")
=============================================================================
