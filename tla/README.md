# axor-wrap: formal models

TLA+ models of axor-wrap's runtime core, the TLC configurations that check them
on small instances, and TLAPS proofs for every value of the constants. axor-wrap
is a Python library that puts a governed kernel (`axor_core`) between an agent
and its tools, connects the node to a Control Plane, and turns a session into a
trace. The paths below are relative to the repository.

## 1. Inventory

| Part | State | Operations | Talks to |
|---|---|---|---|
| `PlaneSession` (`axor_wrap/plane/session.py`) | applied version, posture (stopped, paused, cap), three one-shot slots, consumed ids, outbox | `apply_snapshot`, `apply_delta`, `admit_intent`, three `take_pending_*`, `heartbeat` | fed by the client's SSE task, drained by the host's loop, its outbox emptied by `flush` |
| `PlaneClient`, upstream (`plane/client.py`) | spool file, sequence counter, request in flight | `flush`, `_post_telemetry`, `heartbeat_loop`, `post_probe_report` | session outbox; backend by POST |
| `PlaneClient`, downstream | the SSE stream, backoff, hold | `run`, `_consume_sse`, `_dispatch` | backend by SSE; session |
| `PlaneConnector` (`connect.py`) | two tasks, a stop event | `connect`, `run`, `stop`, `level`, `gate` | owns the two halves of the client; binds admission to a toolset |
| `PlaneAdmission` (`plane/admission.py`) | an event | `await_admission`, `notify` | polls the session for the kernel's loop |
| `WrappedToolset` (`runtime.py`) | governor, recorder, admission, enforcement flag | `call`, `callables`, `trace` | kernel, tools, recorder |
| Trace (`trace.py`) | recorded calls, value ledger | `evaluated`, `record_tools`, `_paired`, `_expand`, `build_trace` | kernel events, recorder |
| Bridge (`plane/bridge.py`) | none | `trace_to_kernel`, `trace_event_to_kernel` | kernel events to plane events |
| `LabRuntimeConnector` (`connect.py`), `experiment.py` | runtime ref, ingest key | `connect`, `claim`, `complete_trial`; arm and input look-up | axor-lab by HTTP |
| Scanner, roles, manifests (`detect.py`, `roles.py`, `manifest.py`) | none | `scan_project`, `infer_effect`, `build_manifest` | source files |
| Compiler (`compile.py`) | none | `governor_kwargs`, references of a policy | manifests, policy |
| Command line (`cli.py`) | the manifests directory and `wrap.json` | `manifest`, `config`, `scan`, `connect-lab` | files, a reviewer |

The kernel (`axor_core`), the Control-Plane backend, the network and the host's
agent framework are external. They are modelled only as far as this code uses
them, and generously: the kernel gives any verdict, the network loses, repeats
and delays, the backend of the session model says anything. An honest backend is
a model of its own (`PlaneReconnect`).

What is hard here is order and failure. Three asyncio tasks and the host share
one session; the backend is not trusted and the channel comes and goes; a
request may succeed without its answer; the process may die between a spool
write and its removal; tools call tools; a posture changes between a check and
the call it admitted; a node comes back to a snapshot that is not what it
missed; a directory of manifests outlives the code it was written for, and the
human who corrected it. `PROJECT.json` lists these under "hazards", each at its
line, with the property that watches it.

## 2. Modules

| Module | Models |
|---|---|
| `PlanePosture` | what a node promises about its posture (abstract) |
| `PlaneSession` | the session, its one-shots and reports; implements `PlanePosture` |
| `PlaneReconnect` | `PlaneSession` under an honest backend: disconnects, snapshots, restarts, late clears |
| `PlaneTelemetry` | `flush`, retries, numbering, spool, acknowledgements, the backend's log |
| `PlaneSubscription` | the SSE subscription, the hold, the connector's wind-down |
| `WrappedRuntime` | `WrappedToolset.call`, the recorder and `_paired`, `await_admission` |
| `TraceBuild` | `build_trace` over the sessions of `WrappedRuntime` |
| `TraceBridge` | the kernel's feed over `TraceBuild`, and the bridge to the plane |
| `TraceExpand` | `_expand` and `_mint_untrusted_fields` against a reference |
| `Assignment` | `toolset_for_arm` and the compilation of manifests and policy |
| `ToolManifests` | scan, role inference, the `manifest` command, reviews; then the trials of `Assignment` |
| `InductionLemmas` | induction over the naturals, recursive functions and sequences, for the proofs |
| `TraceProofs` | TLAPS proofs about `WrappedRuntime`, `TraceBuild` and `TraceBridge` |
| `*Proofs` | TLAPS proofs about the module named; `ToolManifestsProofs` also about `Assignment` |
| `MC*` | constants for TLC |

Operators commented `MUTANT` are not part of any specification. Each is the
definition that follows it with one plausible mistake made, and a run must find
the property it is paired with in `PROJECT.json` violated when it replaces it.

### PlaneSession

Variables carry the names of the dataclass's fields (`applied`, `stopped`,
`paused`, `cap`, the slots, `consumed`, `outbox`). `issued` is what operators
signed: a signature is good exactly for members of it, since it covers node,
version, body and timestamp. `_apply` is `Apply`, one disjunct per return:
`Stale`, `Absorb`, `RejectWidening`, `Accept`. `apply_snapshot` checks
(`StartReplay`, `RefuseSnapshot`) and then replays command by command
(`ReplayOne`, `FinishReplay`); the method does not await, so every other action
waits for `idle`. Whether a node has operator keys (`keyed`) is chosen at `Init`, so one
run has both: operators sign `SignedDelta`, while whoever speaks to an open node
may send any body at any version, and a merged state as its snapshot. The model writes `noop_stale` and `applied` nowhere because the
code reports neither. Payload text, reasons and operators' names are left out; a
one-shot is its id, an excision also its targets. The reports a node has made
are kept whole in `outbox`, which is what lets "at most once" be stated;
emptying it is `PlaneTelemetry`'s business.

`taken` is a history variable: the commands the node took while running. It
makes the posture checkable against the commands, put in version order,
instead of against the last step.

### PlaneReconnect

Extends `PlaneSession` and gives it the backend the protocol describes. `Order`
is an operator's command: the desired state (`state`) is last writer wins, its
version is `latest`. `Disconnect`, `Push` (the next command the node has not
had) and `Reconnect` (a snapshot: the state and the one signed command behind
each of its keys, or, if not `compact`, every command; for an open node the
state alone) are the stream. `Boundary` is a `take_pending_*` and the
`POST .../consumed` it leads to, which names a key and no id; `Clear` is its late
arrival, which removes whatever the key holds by then. `Hold` is the
client's own pause after `hold_on_disconnect_after` (`client.py:337`), which it
makes between two dials, also before the first snapshot, behind the session's
version; `HoldAfter` says whether the client was given one. `Restart` loses all
of the session, since all of it is in memory. `held`, `earlier` and `cleared` are
history variables: `held` is set by `Hold` and cleared where `_apply` writes
`paused` (`TakesBackHold`), in a delta, a merged state or a command of a chain
(`Replay`). The checks of a snapshot stay in: that an honest one passes them is a
property, not an assumption. Operators give a one-shot an id of its own, so no two
commands name the same.

### PlaneTelemetry

`setting` is how the client is set up and run: with a spool file or not, which
tasks run, which of them a shutdown cancels, and how many failed attempts and
process deaths there are at most. One record of state per flushing task. `Flush` is `flush` up to its first await
(load the spool, clear the outbox, build the request). `Answered` is a 2xx that
reaches `_post_telemetry`, which still awaits the connection's close;
`RemoveSpool` is what `flush` then does with the spool file. A death or a
cancellation may come between the two, and the file may resist its removal
(`RemoveFails`); `cut`, a history variable, has the requests to which any of
these happened. `Retry` and `GiveUp` are the two ends of a failed attempt,
`Consumed` is one POST to `/consumed`, `Cancel` a cancellation at an await. The
index of a request stands for its Idempotency-Key. `_line`'s run id is the
number of deaths so far, which is the default branch of `run_id or ...`
(`client.py:73`), `seq` its counter; the backend drops a line whose pair
it has (`logged`), as `client.py:69-75` expects of it. `Deliver` is the network and
the backend: any request ever posted may arrive at any time, once. `toAck` is
what the loop of `flush` over its events has still to look at; those that are no
report of a one-shot are passed over on the way to the next. `Crash`
leaves the spool file and the backend. The code writes the file by an atomic
rename, so `Hold` is one step. Not modelled: a spool file that cannot be written
(the error leaves `flush` with the outbox already cleared, so that batch is gone)
or parsed, and a run id the host sets itself, which under a restart behaves as
the mutant `run_id_of_node` does.

### PlaneSubscription

`client` is the subscription task, `beat` the heartbeat task, `runner` the
method `PlaneConnector.run`. The backend is honest here: it opens each stream
with a snapshot of every command and pushes the later ones, possibly repeating
some that the snapshot had. A failed dial, a lost stream, a refused credential
and an ended stream differ in whether the hold applies; how long a delay lasts
does not matter. `Garble` puts a message on the stream that `_dispatch` cannot
read, whose exception no handler catches. The session is reduced to posture and
version. `held` is a history variable.

### WrappedRuntime

`call` in its steps: `Begin`, `Admit`, `Evaluate` (kernel), `Record`, `Run`,
`Register`, `Mark`, with `ToolRaises`. On one thread a call is interrupted only
by calls its own tool makes (`HasTurn`); with `setting.threaded` anywhere. The
streaming path (`record_tools`) has the same steps without the wrapper's own
admission and with records for approvals only; its calls wait at
`await_admission`, and the kernel may also refuse what is no tool call
(`RefuseOther`: a spawn, a message), which is a verdict without a call. Verdicts
and records are sequences of call numbers, so a wrong pairing shows: `Recorded` is
the set of verdicts `_paired` expects a record of, `RecordOf` the record it takes
for a verdict, `Refused` that their numbers differ and it raises. `ran` and `beforeStop` are history variables.

### TraceBuild

Extends `WrappedRuntime`: the same steps, and with them what the trace joins.
`Attribute` is the kernel's provenance (`origin`: which untrusted outputs an
argument derives from, any set), `Yield` what a tool returned. `Trace` is not a
step but a state function, since `trace()` reads a session at any moment: the
last of `Turns`, a recursive function that applies `AddCall`, one turn of
`build_trace`'s loop, to each verdict. `Argument` and `Reads` are `mint_argument` and
`mint_read`, `untrusted_ids` is the ledger's list. A call has one argument,
which drives it. An output is the pattern its manifest declares and the number
of values found there.

### TraceBridge

Extends `TraceBuild` with `feed`, the kernel's events in the order of their
numbers: `Emit` adds the verdicts and the untrusted outputs of a step to it,
`Happens` whatever else a kernel that owns its loop records. On it both readers
are defined: `verdict_events`, where the feed has what trace/v1 takes, and
`trace_to_kernel`, what the plane folds, one case per kind: the code tells most
events by their class, and the model takes it that axor_core gives each class a
kind of its own. The plane orders
events by their sequence numbers, so its side is a set of numbered events. An
event keeps the one fact that decides its
translation (`marked`); payloads, severities and gate names are left out.

### TraceExpand

A result is given as the nodes at its paths: a tree of dicts, lists, scalars and
nulls is the function from the places in it to what stands there, which any
JSON value of the shapes kept is. `Expand` is `_expand`, its recursion over the
segments of the pattern written as the function `found`: what the last k
segments find below each node, by what the last k - 1 find below the nodes
under it (`Segment`, one branch per branch of the code). The code puts a value's
path together on its way back, here it is the path of the node. `Present` and
`Fits` say what a pattern should find without walking anything: the scalars at
paths that look like it. `Mint` is one turn of the loop over a manifest's
patterns.

### Assignment

This module is a library of `ToolManifests` and has no behaviour of its own. An
assignment is constant once it arrives; `toolset_for_arm` takes its planned
trials in order and appends a toolset or `NoToolset`, for an exception. `Refusal`
gathers what raises: no manifests, no such arm, no legal flag, and a reference
without an input, which `_expand` raises on even when no tool is a sink. A
manifest is its id, its effect classes (default and resolved) and its driving
arguments; an allowlist is a sequence of destinations and references. The
properties state the outcome from the assignment alone, without the model's
look-ups. A malformed unit name and the caller's own policy or inputs are left
out.

### ToolManifests

From source code to trials. `project` is a sequence of modules, each with the
tools and shell calls the scanner would report or a syntax error; `Scan` keeps
their order and folds the shell calls of a module into one candidate. `classify`
is `_classify`, over sets of words: a word of the model stands for one cell of
the overlaps between the tables of `roles.py` (`query` reads and is SQL,
`update` writes and is SQL that writes, `fetch` reads and is a hint of the
outside). `build_manifest` writes UNKNOWN as EXEC. The command is a step for each
file (`WriteManifest`, under the first free name) and one for `wrap.json`;
`Interrupted` ends it inside a write, by an exception (`Unwritable`) or a kill,
with the open file truncated. `Develop` changes the code, `Review` a file's
class, and a second command overwrites what it finds. `Plan` then gives the
directory, read in the order of its names, to Lab, or forgets to, and `RunTrial`
is `toolset_for_arm`. `InOrder` keeps the items of a sequence that are in a set,
by their rank. The files carry as history the tool they were written for
and whether a human has changed them.

## 3. Runs

| Run | Shows | Bounds |
|---|---|---|
| `session` | posture and cap are what the commands say in version order; nothing unsigned or old takes effect; a replay skips nothing; one-shots fire once, are acknowledged, and the pending ones are the newest; a stopped node is not steered; refinement of `PlanePosture` | keyed and open; 3 versions, 9 bodies of which 4 are signed for the keyed node, a forged stop, local cap 3, 3 reports |
| `reconnect` | a node that catches up by every command is where one that never was away is; but for a pause of its client's own hold; by any snapshot it is no freer than the desired state and has the one-shots still wanted; an honest snapshot is never refused; what late clears and restarts can do to one-shots, and no more | keyed and open, compacted or whole chains; 3 commands of 6 bodies, holds at any time away, 1 restart, 9 reports |
| `telemetry` | in memory nothing is lost but a cancelled flush's batch; with a spool file a death loses nothing written; an answered batch is sent again only from a file its flush was kept from removing; no line passes for another; order; evidence before clearing; delivery in the end | 3 reports, 2 attempts; in memory 2 tasks, one cancelled at any time and 2 failures, or none cancelled and 1 failure; on disk 1 task, 3 failures, 1 death |
| `subscription` | the node is always at a prefix of the operators' commands and catches up; a stop ends everything | 2 commands, 3 failures, with and without hold |
| `runtime_trace` | verdicts and records pair up; a stop holds later calls; the trace links each tainted argument to its sources and has a result for exactly the calls that returned; the plane folds the calls the trace decides | 2 interchangeable callers, 3 calls, 4 set-ups, 1 other event, outputs trusted or with 0 or 2 declared values |
| `expand_flat` | `_expand` finds nothing that its pattern does not name, something of every pattern that names a value, and all of a pattern without a list under a field | every result of 3 to 4 levels with lists of up to 2, every pair of patterns of up to 3 segments |
| `manifests` | trials are refused for cause only; each sink takes exactly its arm's and scenario's destinations; a tool leaves the sinks only on its own words or a human's; what the running command will write to `wrap.json` is true of its files at every moment | 3 states of the code with 10 tool candidates between them, 2 commands, 1 file reclassified at a time, 5 conditions, 3 sets of inputs, 3 trials |

The bounds are the smallest at which the cases meet: three versions give a
command below, between and above two others, so gaps, repeats and a widening
after a narrowing all occur; three commands and one restart give a one-shot
that fired, a newer one its late clear removes, and a command of another key
that keeps it in a compacted chain; two failures with two attempts give both a
retry and a give-up, and a late delivery of a request already given up; two
commands and three failures give a command missed while the stream was down,
followed by a second loss or a garbled message; a third call runs inside or
after the second; two `manifest` commands give every left-over of one in the
directory of the other.

`MaxOutbox`, `MaxCommands`, `MaxRestart`, `MaxFail`, `maxFail`, `maxCrash`,
`MaxCalls`, `MaxOther`, `MaxRuns` and `MaxReview` appear in guards and nowhere
else; `Verdict` bounds a reviewer's choice to READ, the class that releases a
tool, and `Unplanned` ends code and directory when Lab plans, since the trials
read neither. `Callers` is a symmetry of a run without liveness. Deadlock is
checked for the session, which can always refuse or repeat something. The other
behaviours end when their bounded reports, calls, commands or patterns are used
up, and are allowed to.

Five runs expect a violation, each of a sentence the repository says:

- `session_stopped_excision`: an excision armed before a stop still fires after
  it (`session.py:307-340`), while the comment at 287-288 and the docstring at
  12 say that a stopped node absorbs later effects.
- `reconnect_compacted`: after a cap of 1 and a refused cap of 2, the one
  command behind the key is the latter, so a node that was away ends at 2 and
  one that was not at 1, while `session.py:106-110` says the lattice "applies
  identically whether a command arrives live or after a reconnect". With every
  command in the snapshot it does (`WholeChainIsLive`).
- `telemetry_spool_shared`: two overlapping flushes with one spool file lose
  events (`client.py:137, 141`), against "nothing is lost" at 135.
- `expand_nested`: the loop at `trace.py:266-267` returns in its first
  iteration, so `a.b[].c` finds one element only.
- `trace_whole_return`: `harness_manifest(untrusted=True)` declares the path
  `result`, "the root path" (`manifest.py:121-125`); `trace.py:240` does not
  strip it, so it is looked up as a key, no value is minted, and arguments the
  kernel tainted from that tool have no lineage in the trace. The `result.*` the
  scanner writes (`roles.py:70`) goes the same way, to a key `*`.

Met on the way, visible in the models, and without a run of their own:

- A flush cancelled at its await drops its batch, although the docstring says
  the outbox is cleared on acknowledgement (`LossIsInFlight` bounds the loss).
- An unreadable message ends the subscription while heartbeats go on;
  `CommandsArrive` names the exception. After a hold nothing but a new command
  that writes `paused` unpauses the node, whatever the desired state says
  (`NodeIsAtAPrefix`, `AppliesIdentically` and `NoFreerThanDesired` except it).
- A process that dies, is cancelled or meets a file system error between a 2xx
  and the removal of the spool file posts the answered batch again under a new
  key (`NoResendAfterAnswer` says that nothing else does).
- A late `/consumed` clears a newer one-shot under the same key
  (`ClearedUnfiredIsOvertaken` says that nothing else is cleared unfired); a
  restart may arm a one-shot that had fired, from a command the snapshot still
  carries (`AgainOnlyFromTheChain`).
- The merged snapshot of an open node is one command: if it widens the cap, the
  one-shots in it are refused with it. `OneShotsArrive` is stated for keyed nodes.
- Calls on threads can be recorded in another order than judged
  (`RecordsFollowVerdicts` is stated for one thread).
- Inside a nested call, `derived_from` lists values the outer tool returned only
  later, more than the comment's "live at the call" though a superset still.
- A refused spawn or message becomes a decision of the trace, since
  `verdict_events` asks for the kind only (`trace.py:328`), while the bridge
  tells it from a call; `ConsumersAgree` leaves such verdicts out of the
  comparison.
- A `manifest` command that is stopped, or run over code that changed, leaves an
  older `wrap.json` or older files beside its own; `SidecarTellsAll` speaks of the
  entries the running command has gathered.
- Running `manifest` again overwrites a review; and of two tools with one id,
  the file `send-2.` comes before `send.` in the directory's order.
- `governance_yaml` takes no inputs and writes no consequence overrides, although
  `compile.py:16-21` calls it an output of the same compilation as
  `governor_kwargs`, so a policy with a reference cannot be written as YAML.

## 4. Fairness

`PlaneTelemetry`: weak fairness of a flush that has begun (the event loop
resumes it), of `Flush` for periodic tasks (`heartbeat_loop` catches every
exception, `client.py:257-261`), and of the delivery of a
request whose flush still awaits it (an assumption about the network). A
request given up, or left behind by a dead process, may never arrive, so the
liveness properties rest on what `Hold` and the spool file keep. Failures are
bounded, not fair.

`PlaneSubscription`: weak fairness of the subscription's steps, of the
heartbeat's, and of the connector's wind-down once stop is set. Neither
operators, failures nor a stop are owed.

No other property is temporal in that sense, and no other module has fairness.

## 5. Proofs

Each theorem holds for every value of the constants and rests on the modules'
ASSUMEs, which TLC evaluates on every run, and on the hypotheses named here.
Every invariant the passing runs check has one, and so has every action property.

The provers know no induction. `InductionLemmas` gets it from well-foundedness
of the naturals: a set of naturals has a least member (`LeastNatural`), one that
holds 0 and successors holds all (`Induction`), and a function given by its start
and its step exists (`Recursion`). With these what `Obeyed`, `After`, `Turns` and
`FlattenSeq` compute is proved for every length. Filters of sequences, which
tlapm cannot open, are written as sets of positions and their ranks. What the
sequence operators gather (`Gathered`, `SeqMembers`, `BothHold`) is there as well.

`PlaneSessionProofs`, of `Spec`, for any commands, versions and ids. Every step is
a `SessionStep`: `_apply` of some body, a take by the host, or next to nothing. The
step lemmas ask nothing of a body but the types of what it writes, so that they
hold as well of the states a backend merges:

- `TypeCorrect`: `TypeOK` is inductive as it stands.
- `ImplementsPosture`: `PostureSpec`. Each step maps to `Take` or a stutter
  (`PostureStep`); `FinishReplay` may raise the version of a node whose posture
  stays.
- `SessionHolds`: `SessionInv`, the inductive invariant, kept by every
  `SessionStep` (`SessionKept`) and true of a node that has taken nothing
  (`SessionBegins`), and with it `PausedFollowsTaken` (`PausedStep`), which stands
  apart because a client's hold breaks it. Three theorems are its parts:
  - `PostureIsHistory`: `PostureFollowsTaken` and `CapIsTightest` (stated alone in
    `TightestCap`). They become inductive with `TakenIsApplied`, that every
    command taken has a version no higher than the applied one, which makes a new
    command the newest writer.
  - `FiresAtMostOnce`: `ConsumedIsAcknowledged` (alone in `AcknowledgedOnly`) and
    `OneShotAtMostOnce` together; the first is what makes the second inductive.
  - `PendingIsNewest`: `ArmedByNewest`. A widening arms nothing, so the invariant
    needs to know that a command is refused exactly when it exceeds the cap of
    those before it: `WidenedIsRefused`, which rests on `CapIsTightest`.
- `ReplayVisitsAll`: `NoCommandPassedOver`, with the invariant that
  commands are left to visit only while a replay is under way, and that a replay
  visits a lowest one.
- `StoppedNodeIsNotSteered` and `ObeysNewerSigned`: the two action properties,
  by the forms a step can take; the second uses that what a replay has left is
  signed, a part of `TypeOK`.

`PlaneReconnectProofs`, of `ReconnectSpec`:

- `BackendIsOrdered`: versions are distinct and at most `latest`, and each key of
  the state has the value of its newest writer.
- `HonestPasses`: `HonestIsAccepted`, from it: a chain accounts for every key.
- `CaughtUpIsNoFreer`: `NoFreerThanDesired`. The inductive part is
  `Reflected`, that a node whose version has reached that of a key's newest
  writer agrees with that key or is stricter, with `Follows`, that a replay still
  holds every newest writer the node has not applied.
- `WantedOneShotsArrive`: `OneShotsArrive`. `Arrived` is `Reflected` for the
  slots: once the newest writer of a key is applied, its one-shot is pending,
  fired, superseded, refused with its cap or dropped by a stop (`Dealt`), and
  whatever moves the slot later leaves it one of these.
- `WholeChainAppliesIdentically`: `WholeChainIsLive`. `Tracks` says that a node
  under whole chains is at every moment where the commands up to its version,
  obeyed in order, would have put it, or there and paused if it is held
  (`UnderHold`), and that a replay still holds all later ones. `HeldObeys` says
  that obeying a command and being held commute until a command writes `paused`.
- `LateClearTakesTheNewer`: `ClearedUnfiredIsOvertaken`, and `ClearedStaysGone`:
  `AgainOnlyFromTheChain`. `Known` follows every id from the one command that
  names it to slots, consumed ids and late calls; `OwnIds` in it is where unique
  ids are used.

- `EveryLifeIsASession`, `StoppedInEveryLife`, `ReplayVisitsAllInEveryLife`: what
  `PlaneSessionProofs` shows of a session, of every life of the node. A step is a
  `SessionStep`, a hold or a restart (`LifeForms`), since what an honest backend sends is
  a body (`MergedIsBody`), and a restart begins a session (`RestartBegins`). The
  runs check these properties of `Spec`, whose versions and bodies its constants
  list; here versions count up and states are merged. Of `paused` they say what a session
  does only while the node is not held (`PausedInLife`).
- `EveryLifeImplementsPosture`: `PostureUntilRestart`, that the node implements
  `PlanePosture` but for restarts, after which it is free until it has caught up,
  and for holds, which only pause it (`HeldAway`).

`PlaneTelemetryProofs`, of `Spec`, in every setting and for any number of
events, tasks, attempts and failures and any cancellations:

- `TypeCorrect`: `TypeOK`, which rests on `LinesStayApart`: the log stays a
  sequence of batches because a batch is stored whole or not at all.
- `HeldInMemory`: `LossIsInFlight`. The strengthening `Shape` adds that a posting
  flush has a request and that answered keys are requests; `Held` restates the
  property by the flush that carries an event.
- `LinesStayApart`: `LinesAreTheirOwn`, for the default run id. `Numbered` says that batches of one run
  have disjoint intervals of numbers below `seq`, `LoggedWasSeen` that a logged
  line is one of a stored batch.
- `ClearsOnEvidence`: `ClearedHasEvidence`, by `Evidence`: what a flush has still
  to look through is stored already.
- `AnsweredIsNotResent` (`NoResendAfterAnswer`), `SpoolIsKept`
  (`SpoolKeepsUntilStored`) and `EitherWayNothingIsLost` (`NothingLost`), under
  `SpoolUnshared`: a spool file has one flushing task. The code does not see to
  that: a host that gives its client a `spool_path` and calls `flush` beside
  `heartbeat_loop` shares the file, and what then goes wrong is what
  `telemetry_spool_shared` shows. (`PlaneConnector` has no spool file.) So these three say what a file is good for with a single flushing task,
  such as a host that awaits `flush` itself, and without a file what holds for any
  number of tasks. The invariant is `Lone`: a batch that was answered, or may yet
  be, shares nothing with a later batch or with what the next will take, and a
  posting flush answers for all of the file. A batch whose flush was `cut` is
  excepted, and one still to be removed (`Removing`) may be in the file but in no
  later batch.
- `StoredAsReported`: `StoredInOrder`. `InOrder` makes every batch a stretch of
  what was reported that follows reports the backend has.

`PlaneSubscriptionProofs`:

- `NothingIsLeft`: `RunLeavesNothing`, by `WindingDown`, what each stage of the
  connector's wind-down has already ended.
- `NodeFollowsTheLog`: `NodeIsAtAPrefix`, for a log of any length, from the
  invariant `Follows` (`FollowsHolds`). `Connected` in it
  says what an open stream carries: nothing the log has not, no command without
  those before it, and all there is. What obeying a log means is a recursion, so
  `ObeyedSteps` and `MatchOverLog` are inductions over it.
- `SubscriptionKeepsThePosture`: `PostureButForHolds`, that the posture this module
  reduces the session to moves as `PlanePosture` allows, as `PlaneSession` does in
  full; the one other move is the pause of a client that was given
  `hold_on_disconnect_after`. A snapshot may replay any number of commands, so that
  a stopped node ignores them all is an induction (`StoppedObeysNothing`).

`TraceProofs`, of `Spec` of `WrappedRuntime`, for any callers, calls and settings:

- `StopHolds`: `StopHoldsLaterCalls`; `beforeStop` holds whoever was past the
  boundary when the stop came (`PastIsBefore`).
- `RecordsMatch`: `RecordsFollowVerdicts`, for the wrapper that asks the kernel
  itself and for the one handed what a streaming kernel approved. `Pairing` says
  that on one thread at most one call stands between its verdict and its record,
  and that records and the verdicts due one agree up to it.

and of `TraceSpec`, for any number of nested, denied and streamed calls on one
thread (a trace is not defined over a session on several:
`RecordsFollowVerdicts`). `FeedIsASession` carries all of it to `FeedSpec`.

- `ResultsAreReturned`: `ResultMeansReturned`. `Session` adds to `Pairing` that a
  call is judged once, that its record says executed exactly if its tool
  returned, and that an argument derives only from outputs of calls judged before
  its own; the rest is an induction over the turns of the loop (`Grown`).
- `LineageMissesNothing`: `LineageIsComplete`, under `NoneWhole`: no tool declares
  its bare return, whose values the loop loses (`trace_whole_return`).
- `PlaneFoldsWhatTraceDecides`: `ConsumersAgree`, of `FeedSpec`. `Feeds` says that
  the feed holds the verdicts in order and every untrusted output before the
  verdicts on what derives from it.

`TraceExpandProofs`, of `Spec`, for results of any depth and breadth, any patterns
and any number of them:

- `MintsWhatIsNamed`: `FlatIsExact`. `ExpandIsExact` is the induction over the
  segments left: what is found below a node that fits the pattern so far is
  `Exact` if it is so below each node one step on (`ExactByStep`). A plain field
  takes the first value below it and loses none under a flat pattern, which has
  only fields from there on, hence one value at most (`OneUnderFields`). That
  every path of the result is walked step by step is `IsResult`, what makes a
  set of nodes a tree.

`ToolManifestsProofs`, of `Spec`, for any code, words, names and assignments:

- `SidecarIsTrue`: `SidecarTellsAll`. `Command` says that the entries so far are
  those of the first tools found, each with a file of its own, and that what is
  found is what a scan of some state of the code finds; `Directory` that a file's
  manifest says what the inference made of its tool (`FileTells`). That the
  command finds a free name is the pigeonhole principle.
- `ReleasedOnEvidence`: `OnlyEvidentIsReleased`, with `Trials`: every toolset is
  what the one assignment says, and its manifests tell the truth. `GuessTells` is
  the inference: READ or WRITE only on the tool's own words.
- `RefusalHasCause` and `SinksTakeNamed`: `RefusedForCause` and
  `SinksTakeOnlyNamed`, under `NamesAreUnique`: an assignment gives its arms ids
  and its scenarios names of their own, which is what the code looks them up by
  (`experiment.py:31`, `117`). Of two arms with one id the last would be taken, of
  two scenarios the first, and "its own arm" would mean nothing.

Only model-checked: liveness (`EventuallyStored`, `SpooledIsStored`,
`CommandsArrive`, `StopEnds`), since fairness is out of the prover's reach here.

## 6. Not modelled

- `LabRuntimeConnector`: stateless HTTP calls after `connect`; what they carry is
  in `TraceBuild` and `Assignment`, and no call is retried or depends on another.
- In the plane's client: `post_probe_report` and the `extra_events` of a flush,
  which keep nothing; the contents of a heartbeat; the lengths of backoffs; a
  spool file that cannot be written or parsed.
- The event that cuts a poll of `PlaneAdmission` short: it changes when a call is
  let through, not whether.
- In a trace: hashes, redaction, labels of sensitivity, gates, reasons and the
  trial's coordinates. In the feed: payloads and severities, and how axor_core
  numbers the events of several nodes.
- In the compilation: the caller's overrides, sensitive sources, the YAML form.
- In the manifests: validation against the schema, `harness_manifest` and
  `classified`; how a name is split into tokens; which syntax is a tool of which
  framework. These are tables, regular expressions and AST walks.
- `scan`, `connect-lab` and the error classes, which print or carry a text.

## 7. Plan

1. Done: the plane's session, its abstract posture and the reconnecting node;
   telemetry and subscription; the runtime with its trace and its bridge; field
   expansion; from source code to manifests to trials. The proofs of section 5.
2. Next, model: the trial loop over `LabRuntimeConnector` (claim, run, complete,
   renew), should it come to retry; several nodes in one feed once their
   numbering is fixed.
