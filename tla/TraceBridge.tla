----------------------------- MODULE TraceBridge -----------------------------
(***************************************************************************)
(* The kernel's event feed and its two consumers: trace/v1 (TraceBuild)    *)
(* and the events the plane folds, which src/axor_wrap/plane/bridge.py     *)
(* translates.                                                             *)
(*                                                                         *)
(* The kernel is external.  Its feed holds the verdicts of the session in  *)
(* order, a source event for each untrusted output and, of a kernel that   *)
(* owns the loop, whatever else happens in the node tree.  Payloads and    *)
(* gate names are left out; an event keeps the fact that decides how it is *)
(* translated (marked) and, as history, the call it belongs to.            *)
(***************************************************************************)
EXTENDS TraceBuild

CONSTANTS
    Rewritten, \* calls whose arguments the kernel rewrites when it allows them
    Happening, \* what else a kernel that owns the loop records: [kind, marked]
    MaxOther   \* bound: such events in a behaviour

ASSUME FeedConfig ==
    /\ Happening \subseteq [kind : STRING, marked : BOOLEAN]
    /\ \A h \in Happening :
          h.kind \notin {"INTENT_APPROVED", "INTENT_TRANSFORMED", "INTENT_DENIED",
                         "TAINT_PROPAGATED"}

VARIABLE feed \* the TraceEvents, in the order of their sequence numbers

feedVars == <<traceVars, feed>>

FeedEvent(kind, marked, n) == [kind |-> kind, marked |-> marked, call |-> n]

\* A refusal is marked if its intent_kind is a tool call.
VerdictEvent(v) ==
    IF ~v.allowed THEN FeedEvent("INTENT_DENIED", v.call # 0, v.call)
    ELSE FeedEvent(IF v.call \in Rewritten THEN "INTENT_TRANSFORMED" ELSE "INTENT_APPROVED",
                   TRUE, v.call)

\* The feed follows the session: its verdicts and its untrusted outputs.
Emit ==
    LET decided == SubSeq(verdicts', Len(verdicts) + 1, Len(verdicts'))
        sources == {n \in Call : output[n] = NoOutput /\ output'[n] # NoOutput
                                 /\ output'[n].pattern # "none"}
    IN feed' = feed \o [i \in DOMAIN decided |-> VerdictEvent(decided[i])]
                    \o [i \in 1..Cardinality(sources) |->
                           FeedEvent("TAINT_PROPAGATED", TRUE, CHOOSE n \in sources : TRUE)]

Happens ==
    /\ ~setting.every_intent
    /\ Cardinality({i \in DOMAIN feed :
          [kind |-> feed[i].kind, marked |-> feed[i].marked] \in Happening}) < MaxOther
    /\ \E h \in Happening : feed' = Append(feed, FeedEvent(h.kind, h.marked, 0))
    /\ UNCHANGED traceVars

(***************************************************************************)
(* bridge.py                                                               *)
(***************************************************************************)
\* The kernel event of a trace event, under the same sequence number.
Translated(seq, e, kind, verdict) ==
    {[seq |-> seq, kind |-> kind, verdict |-> verdict, call |-> e.call]}

\* MUTANT every refusal becomes a denial.
DenialsToKernel(seq, e) ==
    IF e.kind = "INTENT_DENIED" THEN Translated(seq, e, "DENIAL", "DENY")
    ELSE IF e.kind = "TAINT_PROPAGATED" THEN Translated(seq, e, "TOOL_RESULT", "none")
    ELSE Translated(seq, e, "TOOL_CALL", "PASS")

\* One kernel event, or none for what has no meaning on the plane.  Marked: a
\* tool call's refusal, an anomaly that was denied, a cancellation from the plane.
trace_event_to_kernel(seq, e) ==
    CASE e.kind = "INTENT_DENIED" ->
           Translated(seq, e, IF e.marked THEN "TOOL_CALL" ELSE "DENIAL", "DENY")
      [] e.kind \in {"DEGRADATION_TRANSITION", "SOURCE_QUARANTINED", "CHILD_STALE"} ->
           Translated(seq, e, "FACT", "none")
      [] e.kind = "TAINT_PROPAGATED" -> Translated(seq, e, "TOOL_RESULT", "none")
      [] e.kind = "SUSPICIOUS_INTENT" ->
           IF e.marked THEN Translated(seq, e, "DENIAL", "DENY")
           ELSE Translated(seq, e, "GATE_EVAL", "PASS")
      [] e.kind = "CHILD_SPAWNED" -> Translated(seq, e, "NODE_SPAWNED", "none")
      [] e.kind = "CHILD_COMPLETED" -> Translated(seq, e, "MESSAGE_RECEIVED", "none")
      [] e.kind = "CANCELLED" /\ e.marked -> Translated(seq, e, "OPERATOR_INTERVENTION", "none")
      [] e.kind \in {"INTENT_APPROVED", "INTENT_TRANSFORMED"} ->
           Translated(seq, e, "TOOL_CALL", "PASS")
      [] OTHER -> {}

\* The events the plane folds, in the order of their sequence numbers.
trace_to_kernel(events) ==
    UNION {trace_event_to_kernel(i, events[i]) : i \in DOMAIN events}

\* Where the feed has what trace/v1 takes for verdicts: by kind alone.
verdict_events(events) ==
    {i \in DOMAIN events :
        events[i].kind \in {"INTENT_APPROVED", "INTENT_TRANSFORMED", "INTENT_DENIED"}}

FeedInit == TraceInit /\ feed = <<>>

FeedNext ==
    \/ TraceNext /\ Emit
    \/ Happens

FeedSpec == FeedInit /\ [][FeedNext]_feedVars

-----------------------------------------------------------------------------
(***************************************************************************)
(* Properties                                                              *)
(***************************************************************************)
Refuses(e) ==
    \/ e.kind = "INTENT_DENIED"
    \/ e.kind = "SUSPICIOUS_INTENT" /\ e.marked

\* The number of the decision that trace/v1 makes of feed[i].
Number(i) == Cardinality({j \in verdict_events(feed) : j <= i})

\* One trace, two consumers (bridge.py:1-8): but for the refusals of what is no
\* tool call, which trace/v1 takes for decisions (trace.py:328), the plane folds
\* exactly the calls trace/v1 decides, in order and with the same verdicts; no
\* refusal is lost on the way (bridge.py:205-206), and an argument trace/v1 calls
\* tainted has the source of its taint before its call in the fold
\* (bridge.py:114-120).
ConsumersAgree ==
    Readable =>
        LET folded == trace_to_kernel(feed)
            judged == verdict_events(feed)
        IN /\ Cardinality(judged) = Len(Trace.calls)
           /\ {k \in folded : k.kind = "TOOL_CALL"} =
                  {[seq |-> i, kind |-> "TOOL_CALL",
                    verdict |-> IF Trace.calls[Number(i)].allowed THEN "PASS" ELSE "DENY",
                    call |-> verdicts[Number(i)].call] :
                       i \in {j \in judged : verdicts[Number(j)].call # 0}}
           /\ {k.seq : k \in {f \in folded : f.verdict = "DENY"}} =
                  {i \in DOMAIN feed : Refuses(feed[i])}
           /\ \A k \in folded : k.kind = "TOOL_CALL" =>
                  \A n \in origin[k.call] :
                      \E s \in folded : s.kind = "TOOL_RESULT" /\ s.call = n /\ s.seq < k.seq
=============================================================================
