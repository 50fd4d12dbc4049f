--------------------------- MODULE PlaneTelemetry ---------------------------
(***************************************************************************)
(* The upstream half of PlaneClient (src/axor_wrap/plane/client.py): how   *)
(* the reports the session appends to its outbox reach the backend.        *)
(*                                                                         *)
(* Several tasks of one event loop may call flush: the heartbeat loop, the *)
(* initial flush of PlaneConnector.run, the host.  A flush moves the       *)
(* durable events into a request of its own and awaits the POST, so other  *)
(* tasks run between its steps.  Heartbeats are regenerated by each flush  *)
(* and are left out; so are flushes with nothing durable to send, and a    *)
(* spool file that cannot be written.                                      *)
(*                                                                         *)
(* The network may lose a request, deliver it late (after the client gave  *)
(* it up, or after the process died) or lose the answer.  The backend      *)
(* (external) stores a batch once per Idempotency-Key, and a line of it    *)
(* once per run id and sequence number (client.py:69-75).                  *)
(***************************************************************************)
EXTENDS Integers, Sequences, FiniteSets

CONSTANTS
    Event,       \* durable events the session will report, each once
    Ackable,     \* those whose kind is followed by POST .../consumed
    Flusher,     \* tasks that call flush
    Periodic,    \* those that call it again and again: the heartbeat loop
    Setting,     \* ways the client is set up and run
    Attempts     \* _TELEMETRY_ATTEMPTS

ASSUME TelemetryConfig ==
    /\ Ackable \subseteq Event
    /\ Periodic \subseteq Flusher
    /\ Attempts \in Nat \ {0}

\* spooled: spool_path is configured; tasks: those running; cancels: those of
\* them a shutdown cancels; maxFail, maxCrash: bounds on the failed attempts
\* and process deaths in a behaviour.
ASSUME SettingType ==
    Setting \subseteq [spooled : BOOLEAN, tasks : SUBSET Flusher,
                       cancels : SUBSET Flusher, maxFail : Nat, maxCrash : Nat]

VARIABLES
    setting,
    emitted,  \* events reported so far, in order
    outbox,   \* session.outbox
    spool,    \* the spool file
    pc,       \* each task: idle, posting, answered, acking or cancelled
    key,      \* the request of each flush; its durable events are requests[key]
    attempt,  \* failed attempts of that request
    toAck,    \* events each flush has still to look through for acknowledgements
    requests, \* every batch posted; the index stands for its Idempotency-Key
    first,    \* the run id and sequence number of each batch's first line
    seq,      \* _seq
    stored,   \* the backend's log
    logged,   \* run ids and sequence numbers of the lines in that log
    seen,     \* keys whose batch the backend stored
    answered, \* keys whose 2xx the client saw
    cut,      \* history: those whose flush ended before it removed the file
    cleared,  \* events whose /consumed call reached the backend
    fails,    \* failed attempts so far
    crashes   \* process deaths so far

client == <<outbox, pc, key, attempt, toAck>>
posted == <<setting, requests, first, seq>>
counts == <<fails, crashes>>
backend == <<stored, logged, seen, cleared>>
answers == <<answered, cut>>
vars == <<posted, emitted, client, spool, answers, backend, counts>>

Members(s) == {s[i] : i \in DOMAIN s}

\* The durable events of f's request.
Batch(f) == requests[key[f]]

\* The session appends a report: an _apply, a take, a refusal.
Emit(e) ==
    /\ e \notin Members(emitted)
    /\ emitted' = Append(emitted, e)
    /\ outbox' = Append(outbox, e)
    /\ UNCHANGED <<posted, spool, pc, key, attempt, toAck, answers, backend,
                   counts>>

\* MUTANT what an earlier flush left in the spool file is not loaded.
durable_unspooled == outbox

durable == spool \o outbox

\* MUTANT the run id is the node's, as it was before the suffix.
run_id_of_node == 0

\* The default run id: a process has its own.  One the host sets itself may
\* outlive the process; that is not modelled.
run_id == crashes

\* flush up to its first await: durable = spool + outbox, outbox.clear().
\* The spool file is read, not removed.  _line numbers the events and the
\* heartbeat after them, here and never again.
Flush(f) ==
    /\ f \in setting.tasks
    /\ pc[f] = "idle"
    /\ durable # <<>>
    /\ outbox' = <<>>
    /\ requests' = Append(requests, durable)
    /\ first' = Append(first, [run |-> run_id, seq |-> seq])
    /\ seq' = seq + Len(durable) + 1
    /\ key' = [key EXCEPT ![f] = Len(requests) + 1]
    /\ attempt' = [attempt EXCEPT ![f] = 0]
    /\ pc' = [pc EXCEPT ![f] = "posting"]
    /\ UNCHANGED <<setting, emitted, spool, toAck, answers, backend, counts>>

\* The backend's key of the i-th line of batch k.
Line(k, i) == [first[k] EXCEPT !.seq = @ + i - 1]

\* The n-th of a set of indexes.
Nth(S, n) == CHOOSE i \in S : Cardinality({m \in S : m <= i}) = n

\* The events of batch k whose lines the backend does not take for duplicates.
Accepted(k) ==
    LET fresh == {i \in DOMAIN requests[k] : Line(k, i) \notin logged}
    IN  [n \in 1..Cardinality(fresh) |-> requests[k][Nth(fresh, n)]]

\* The backend receives request k, at any time after it was posted.
Deliver(k) ==
    /\ k \notin seen
    /\ seen' = seen \cup {k}
    /\ stored' = stored \o Accepted(k)
    /\ logged' = logged \cup {Line(k, i) : i \in 1..(Len(requests[k]) + 1)}
    /\ UNCHANGED <<posted, emitted, client, spool, answers, cleared, counts>>

\* MUTANT any end of the POST counts as delivered.
AnsweredUnseen(f) ==
    /\ pc[f] = "posting"
    /\ answered' = answered \cup {key[f]}
    /\ pc' = [pc EXCEPT ![f] = "answered"]
    /\ UNCHANGED <<posted, emitted, outbox, spool, key, attempt, toAck, cut,
                   backend, counts>>

\* The POST returns 2xx.  The connection is closed before it does, which awaits.
Answered(f) ==
    /\ pc[f] = "posting"
    /\ key[f] \in seen
    /\ answered' = answered \cup {key[f]}
    /\ pc' = [pc EXCEPT ![f] = "answered"]
    /\ UNCHANGED <<posted, emitted, outbox, spool, key, attempt, toAck, cut,
                   backend, counts>>

\* MUTANT a delivered batch stays in the spool file.
RemoveNothing(f) ==
    /\ pc[f] = "answered"
    /\ toAck' = [toAck EXCEPT ![f] = Batch(f)]
    /\ pc' = [pc EXCEPT ![f] = "acking"]
    /\ UNCHANGED <<posted, emitted, outbox, spool, key, attempt, answers,
                   backend, counts>>

\* The spool file is removed, whoever wrote it, and the acknowledgements to
\* /consumed begin.
RemoveSpool(f) ==
    /\ pc[f] = "answered"
    /\ spool' = <<>>
    /\ toAck' = [toAck EXCEPT ![f] = Batch(f)]
    /\ pc' = [pc EXCEPT ![f] = "acking"]
    /\ UNCHANGED <<posted, emitted, outbox, key, attempt, answers, backend,
                   counts>>

\* The file cannot be removed: the OSError ends the flush.
RemoveFails(f) ==
    /\ pc[f] = "answered"
    /\ spool # <<>>
    /\ fails < setting.maxFail
    /\ fails' = fails + 1
    /\ cut' = cut \cup {key[f]}
    /\ pc' = [pc EXCEPT ![f] = "idle"]
    /\ UNCHANGED <<posted, emitted, outbox, spool, key, attempt, toAck, answered,
                   backend, crashes>>

\* MUTANT the attempts are not counted against their limit.
RetryUnbounded(f) ==
    /\ pc[f] = "posting"
    /\ fails < setting.maxFail
    /\ attempt' = [attempt EXCEPT ![f] = @ + 1]
    /\ fails' = fails + 1
    /\ UNCHANGED <<posted, emitted, outbox, spool, pc, key, toAck, answers,
                   backend, crashes>>

\* An attempt ends in an httpx.HTTPError, its request delivered or not.
\* _post_telemetry retries under the same key.
Retry(f) ==
    /\ pc[f] = "posting"
    /\ fails < setting.maxFail
    /\ attempt[f] + 1 < Attempts
    /\ attempt' = [attempt EXCEPT ![f] = @ + 1]
    /\ fails' = fails + 1
    /\ UNCHANGED <<posted, emitted, outbox, spool, pc, key, toAck, answers,
                   backend, crashes>>

\* MUTANT the batch goes to the back of the outbox.
HoldAtBack(b) ==
    IF setting.spooled THEN spool' = b /\ UNCHANGED outbox
    ELSE outbox' = outbox \o b /\ UNCHANGED spool
\* MUTANT the batch is dropped.
HoldNothing(b) == UNCHANGED <<outbox, spool>>

\* flush's except branch: the file is overwritten, or the batch goes back to
\* the front of the outbox.
Hold(b) ==
    IF setting.spooled THEN spool' = b /\ UNCHANGED outbox
    ELSE outbox' = b \o outbox /\ UNCHANGED spool

\* The last attempt fails: the batch is held for the next flush.
GiveUp(f) ==
    /\ pc[f] = "posting"
    /\ fails < setting.maxFail
    /\ attempt[f] + 1 = Attempts
    /\ fails' = fails + 1
    /\ Hold(Batch(f))
    /\ pc' = [pc EXCEPT ![f] = "idle"]
    /\ UNCHANGED <<posted, emitted, key, attempt, toAck, answers, backend,
                   crashes>>

\* The loop comes to the next event whose key is to be cleared: one POST
\* .../consumed, best effort, it reaches the backend or it does not.
Consumed(f) ==
    /\ pc[f] = "acking"
    /\ \E n \in DOMAIN toAck[f] :
        /\ toAck[f][n] \in Ackable
        /\ \A i \in 1..(n - 1) : toAck[f][i] \notin Ackable
        /\ cleared' \in {cleared, cleared \cup {toAck[f][n]}}
        /\ toAck' = [toAck EXCEPT ![f] = SubSeq(@, n + 1, Len(@))]
    /\ UNCHANGED <<posted, emitted, outbox, spool, pc, key, attempt, answers,
                   stored, logged, seen, counts>>

Return(f) ==
    /\ pc[f] = "acking"
    /\ Members(toAck[f]) \cap Ackable = {}
    /\ pc' = [pc EXCEPT ![f] = "idle"]
    /\ toAck' = [toAck EXCEPT ![f] = <<>>]
    /\ UNCHANGED <<posted, emitted, outbox, spool, key, attempt, answers,
                   backend, counts>>

\* Keys of those flushes that were answered and have not removed the file yet.
CutIn(fs) == {key[f] : f \in {g \in fs : pc[g] = "answered"}}

\* A shutdown cancels the task at its await: CancelledError is no HTTPError,
\* so nothing puts the batch back.
Cancel(f) ==
    /\ f \in setting.cancels
    /\ pc[f] # "cancelled"
    /\ pc' = [pc EXCEPT ![f] = "cancelled"]
    /\ toAck' = [toAck EXCEPT ![f] = <<>>]
    /\ cut' = cut \cup CutIn({f})
    /\ UNCHANGED <<posted, emitted, outbox, spool, key, attempt, answered,
                   backend, counts>>

\* The process dies and a new one starts: only the spool file is left, and
\* the numbers begin again.
Crash ==
    /\ crashes < setting.maxCrash
    /\ crashes' = crashes + 1
    /\ outbox' = <<>>
    /\ seq' = 0
    /\ pc' = [f \in Flusher |-> "idle"]
    /\ toAck' = [f \in Flusher |-> <<>>]
    /\ cut' = cut \cup CutIn(Flusher)
    /\ UNCHANGED <<setting, requests, first, emitted, spool, key, attempt,
                   answered, backend, fails>>

Init ==
    /\ setting \in Setting
    /\ emitted = <<>>
    /\ outbox = <<>>
    /\ spool = <<>>
    /\ pc = [f \in Flusher |-> "idle"]
    /\ key = [f \in Flusher |-> 0]
    /\ attempt = [f \in Flusher |-> 0]
    /\ toAck = [f \in Flusher |-> <<>>]
    /\ requests = <<>>
    /\ first = <<>>
    /\ seq = 0
    /\ stored = <<>>
    /\ logged = {}
    /\ seen = {}
    /\ answered = {}
    /\ cut = {}
    /\ cleared = {}
    /\ fails = 0
    /\ crashes = 0

\* A flush that has begun runs on to its end.
Continue(f) ==
    \/ Answered(f)
    \/ RemoveSpool(f)
    \/ RemoveFails(f)
    \/ Retry(f)
    \/ GiveUp(f)
    \/ Consumed(f)
    \/ Return(f)

Next ==
    \/ \E e \in Event : Emit(e)
    \/ \E f \in Flusher : Flush(f) \/ Continue(f) \/ Cancel(f)
    \/ \E k \in 1..Len(requests) : Deliver(k)
    \/ Crash

Spec == Init /\ [][Next]_vars

\* The heartbeat loop flushes every period and outlives any error of a flush
\* (client.py:240-261); a flush that has begun is resumed by the event loop.
\* A request its flush still awaits arrives in the end, which is the network's
\* part and assumed; one the client gave up, or left behind when it died, may
\* never arrive.
Fairness ==
    /\ \A f \in Flusher : WF_vars(Continue(f))
    /\ \A f \in Periodic : WF_vars(Flush(f))
    /\ \A f \in Flusher : WF_vars(pc[f] = "posting" /\ Deliver(key[f]))

FairSpec == Spec /\ Fairness

-----------------------------------------------------------------------------
(***************************************************************************)
(* Properties                                                              *)
(***************************************************************************)
\* Every variable has its type.
TypeOK ==
    /\ setting \in Setting
    /\ emitted \in Seq(Event)
    /\ outbox \in Seq(Event)
    /\ spool \in Seq(Event)
    /\ pc \in [Flusher -> {"idle", "posting", "answered", "acking", "cancelled"}]
    /\ key \in [Flusher -> 0..Len(requests)]
    /\ attempt \in [Flusher -> 0..(Attempts - 1)]
    /\ toAck \in [Flusher -> Seq(Event)]
    /\ requests \in Seq(Seq(Event))
    /\ first \in Seq([run : Nat, seq : Nat])
    /\ seq \in Nat
    /\ stored \in Seq(Event)
    /\ logged \in SUBSET [run : Nat, seq : Nat]
    /\ seen \in SUBSET (1..Len(requests))
    /\ answered \in SUBSET seen
    /\ cut \in SUBSET answered
    /\ cleared \in SUBSET Event
    /\ fails \in 0..setting.maxFail
    /\ crashes \in 0..setting.maxCrash

Posting(e) == \E f \in Flusher : pc[f] = "posting" /\ e \in Members(Batch(f))

\* "Either way, nothing is lost" (client.py:132-135): while the process lives
\* and none of its flushes is cancelled, what was reported is in the outbox, in
\* the spool file, in a request some flush still answers for, or stored.
NothingLost ==
    crashes = 0 /\ setting.cancels = {} =>
        \A e \in Members(emitted) :
            \/ e \in Members(outbox)
            \/ e \in Members(spool)
            \/ e \in Members(stored)
            \/ Posting(e)

\* While a process without a spool file lives, a report is held or was answered
\* for, however the flushes fail and overlap; only a flush cancelled while it
\* posts may lose something, and that is no more than what it had in flight
\* (client.py:116-120, connect.py:317-321).
LossIsInFlight ==
    crashes = 0 /\ ~setting.spooled =>
        \A e \in Members(emitted) :
            \/ e \in Members(outbox)
            \/ Posting(e)
            \/ \E k \in answered : e \in Members(requests[k])
            \/ \E f \in Flusher :
                  pc[f] = "cancelled" /\ key[f] # 0 /\ e \in Members(Batch(f))

\* An event leaves the spool file only once the backend has it, also across a
\* process death (client.py:77-80, 132-141).
SpoolKeepsUntilStored ==
    [][\A e \in Members(spool) : e \in Members(spool') \cup Members(stored)]_vars

\* A batch the client saw answered is posted again in a later request, where no
\* Idempotency-Key would protect it, only from a spool file its flush was kept
\* from removing: by a process death or a cancellation right after the answer,
\* or by the file system (client.py:141, 155-158, 235).
NoResendAfterAnswer ==
    \A j \in answered, k \in 1..Len(requests) :
        j < k /\ Members(requests[j]) \cap Members(requests[k]) # {} =>
            setting.spooled /\ j \in cut

\* The backend never takes a line for another one's duplicate: retries, late
\* deliveries and batches held and posted again carry numbers of their own,
\* also after a restart began to number from zero (client.py:69-75, 263-268).
LinesAreTheirOwn ==
    \A k \in (1..Len(requests)) \ seen :
        \A i \in 1..(Len(requests[k]) + 1) : Line(k, i) \notin logged

\* While a single task of one process has done the flushing, the backend's log
\* never runs ahead of a report it lacks: an event stored means every earlier
\* one was stored before it, retries, late deliveries and duplicates
\* notwithstanding.
StoredInOrder ==
    crashes = 0 /\ (\A f, g \in Flusher : key[f] # 0 /\ key[g] # 0 => f = g) =>
    \A i, j \in DOMAIN emitted : \A q \in DOMAIN stored :
        i < j /\ stored[q] = emitted[j] =>
            \E p \in DOMAIN stored : p < q /\ stored[p] = emitted[i]

\* The backend is told to clear a one-shot only when it has the evidence that
\* the one-shot fired (client.py:141-153).
ClearedHasEvidence == cleared \subseteq Members(stored)

\* Every report is stored in the end, when failures cease: the heartbeat loop
\* keeps flushing what was held.  A shutdown or a crash may get in between.
EventuallyStored ==
    \A e \in Event : e \in Members(emitted) ~>
        \/ e \in Members(stored)
        \/ \E f \in Flusher : pc[f] = "cancelled"
        \/ crashes > 0

\* What reached the spool file is stored in the end, process deaths included
\* (client.py:77-80).
SpooledIsStored ==
    \A e \in Event : e \in Members(spool) ~> e \in Members(stored)
=============================================================================
