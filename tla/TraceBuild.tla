----------------------------- MODULE TraceBuild -----------------------------
(***************************************************************************)
(* build_trace (src/axor_wrap/trace.py) over the sessions of               *)
(* WrappedRuntime: the join of the kernel's verdicts and provenance with   *)
(* the values the wrapper recorded.                                        *)
(*                                                                         *)
(* A host may ask for the trace at any moment of a session; what it would  *)
(* get is the state function Trace, built over the verdicts as the loop of *)
(* build_trace goes over them.  A value is known by the call it belongs    *)
(* to and its lineage, its id is its place in the ledger, and a call has   *)
(* one argument.  Hashes, previews, redaction, trial coordinates and the   *)
(* digest of the world are left out.                                       *)
(*                                                                         *)
(* The kernel is external: which outputs an argument derives from is any   *)
(* set of untrusted outputs it knows.  A tool's output is reduced to the   *)
(* pattern its manifest declares as untrusted, none, one for a field or    *)
(* the bare "result", and the number of values the answer holds at that    *)
(* place; for nested fields see TraceExpand.                               *)
(***************************************************************************)
EXTENDS WrappedRuntime

CONSTANTS
    Output,  \* what tools return: [pattern, held]
    NoOutput \* no output, yet or ever

ASSUME OutputConfig ==
    /\ Output \subseteq [pattern : {"none", "field", "result"}, held : Nat]
    /\ NoOutput \notin Output

VARIABLES
    output, \* the output of each call whose tool returned
    origin  \* arg_provenance: the calls whose output each call's argument derives from

traceVars == <<vars, output, origin>>

\* The outputs in the taint ledger as untrusted: those of the tools that declare
\* any untrusted field, whatever the answer holds.
Untrusted == {n \in Call : output[n] # NoOutput /\ output[n].pattern # "none"}

TraceInit ==
    /\ Init
    /\ output = [n \in Call |-> NoOutput]
    /\ origin = [n \in Call |-> {}]

\* evaluate attributes the argument to untrusted outputs, or to none.
Attribute ==
    IF Len(verdicts') = Len(verdicts) \/ verdicts'[Len(verdicts')].call = 0
    THEN UNCHANGED origin
    ELSE \E sources \in SUBSET Untrusted :
             origin' = [origin EXCEPT ![verdicts'[Len(verdicts')].call] = sources]

\* A tool that returns yields its output.
Yield ==
    LET returning == {c \in Caller : pc[c] = "running" /\ pc'[c] = "returned"}
    IN IF returning = {} THEN UNCHANGED output
       ELSE \E c \in returning, out \in Output :
                output' = [output EXCEPT ![call[c]] = out]

TraceNext == Next /\ Attribute /\ Yield

TraceSpec == TraceInit /\ [][TraceNext]_traceVars

(***************************************************************************)
(* build_trace                                                             *)
(***************************************************************************)
\* MUTANT only the latest value counts as live.
untrusted_ids_latest(values) ==
    {j \in DOMAIN values : j = Len(values) /\ values[j].untrusted}

\* ledger.untrusted_ids
untrusted_ids(values) == {j \in DOMAIN values : values[j].untrusted}

\* mint_argument: an argument the kernel found derived is untrusted and linked
\* to every untrusted value minted so far; any other is a constant.
Argument(n, sources, values) ==
    [of |-> n, untrusted |-> sources # {},
     derived_from |-> IF sources = {} THEN {} ELSE untrusted_ids(values)]

\* The values _expand finds.  _strip_result leaves a bare "result" as it is, so
\* that too is looked up as a key of the answer.
Found(out) == IF out.pattern = "none" THEN 0 ELSE out.held

\* mint_read, for each of them.
Reads(n) ==
    [k \in 1..Found(output[n]) |-> [of |-> n, untrusted |-> TRUE, derived_from |-> {}]]

\* MUTANT a call the kernel denied is given no result.
ExecutedAllowed(r) ==
    /\ r # 0
    /\ records[r].executed
    /\ \E i \in DOMAIN verdicts : verdicts[i].call = records[r].call /\ verdicts[i].allowed

Executed(r) == r # 0 /\ records[r].executed

\* _decision_of names the driving argument's value; a call nobody recorded has
\* bound none, and a typed reason stands in its place.
driving_value_id(r, bound) == IF r = 0 THEN 0 ELSE Len(bound)

\* One turn of build_trace's loop: the intent with its binding, the decision
\* with its driving value, and the result of a call that was executed.
AddCall(trace, i) ==
    LET r == RecordOf(i)
        n == records[r].call
        argument == IF r = 0 THEN <<>>
                    ELSE <<Argument(n, origin[verdicts[i].call], trace.values)>>
        bound == trace.values \o argument
        values == IF Executed(r) THEN bound \o Reads(n) ELSE bound
    IN [values |-> values,
        calls |-> Append(trace.calls,
            [allowed |-> verdicts[i].allowed,
             driving_value_id |-> driving_value_id(r, bound),
             has_result |-> Executed(r),
             produces_value_ids |-> (Len(bound) + 1)..Len(values)])]

\* The trace after so many turns of the loop.
Turns ==
    LET after[i \in 0..Len(verdicts)] ==
            IF i = 0 THEN [values |-> <<>>, calls |-> <<>>]
            ELSE AddCall(after[i - 1], i)
    IN  after

Trace == Turns[Len(verdicts)]

-----------------------------------------------------------------------------
(***************************************************************************)
(* Properties                                                              *)
(***************************************************************************)
\* trace() runs on the session's own thread: between two calls or inside a
\* tool, never between a call's verdict and its record, nor between a result
\* and its record.
Readable == ~setting.threaded /\ \A c \in Caller : pc[c] \notin {"judged", "returned"}

\* The output held something its manifest declares untrusted; "result" is the
\* whole return (manifest.py:121-123).
HoldsDeclared(out) == out.pattern = "result" \/ Found(out) > 0

\* The values of the trace that stem from the output of call n.
ReadsOf(n) == {j \in DOMAIN Trace.values :
                  /\ Trace.values[j].of = n
                  /\ \E i \in DOMAIN Trace.calls : j \in Trace.calls[i].produces_value_ids}

\* A tainted argument is linked to the values of every output it derives from,
\* if that output held any the manifest declares: derived_from is "a superset,
\* never an omission" (trace.py:218-221), although results are minted in the
\* order their calls were judged, not the order they came back.
LineageIsComplete ==
    Readable =>
        \A i \in DOMAIN verdicts : Trace.calls[i].driving_value_id # 0 =>
            LET argument == Trace.values[Trace.calls[i].driving_value_id]
            IN \A n \in origin[verdicts[i].call] :
                  HoldsDeclared(output[n]) =>
                      /\ ReadsOf(n) # {}
                      /\ ReadsOf(n) \subseteq argument.derived_from

\* A tool_result "is the record that the call actually executed"
\* (tests/test_trace_v1.py:151-155), for nested, denied and streamed calls
\* alike: the i-th decision has one exactly if its own call's tool returned.
ResultMeansReturned ==
    Readable =>
        /\ ~Refused
        /\ \A i \in DOMAIN verdicts : LET n == verdicts[i].call IN
            Trace.calls[i].has_result <=> n # 0 /\ output[n] # NoOutput
=============================================================================
