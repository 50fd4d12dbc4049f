--------------------------- MODULE WrappedRuntime ---------------------------
(***************************************************************************)
(* WrappedToolset.call (src/axor_wrap/runtime.py) and the recorder whose   *)
(* calls build_trace pairs with the kernel's verdicts                      *)
(* (src/axor_wrap/trace.py).                                               *)
(*                                                                         *)
(* Several calls of one session may be under way at once: a tool that      *)
(* calls another tool, or a framework that runs tool calls on threads      *)
(* (setting.threaded).  On one thread a call runs from its first line to the start *)
(* of the tool without interruption; on several it can lose the processor  *)
(* anywhere.  The node's posture changes under all of them, as             *)
(* PlanePosture allows.                                                    *)
(*                                                                         *)
(* A recorder that observes every intent belongs to a wrapper that asks    *)
(* the kernel itself (call); one that observes executions only, to a       *)
(* kernel that owns the loop, waits at PlaneAdmission and hands over only  *)
(* what it approved (record_tools).  The kernel is external: its verdict   *)
(* is any, and its loop runs one intent at a time.                         *)
(***************************************************************************)
EXTENDS Integers, Sequences, FiniteSets

CONSTANTS
    Caller,   \* concurrent callers of the toolset
    Setting,  \* the ways a toolset is set up
    MaxCalls  \* bound: calls in a behaviour

ASSUME RuntimeConfig ==
    /\ Setting \subseteq [threaded : BOOLEAN, enforced : BOOLEAN, every_intent : BOOLEAN]
    /\ MaxCalls \in Nat

VARIABLES
    setting,    \* threads, enforcement "on", SessionRecorder.observes
    paused,     \* the posture admission polls
    stopped,
    pc,         \* where each caller is
    call,       \* the number of the call each caller makes; 0 for none
    allowed,    \* the verdict each caller got
    begun,      \* calls begun so far; a call's number tells it from the others
    verdicts,   \* the kernel's verdict events: [call, allowed]; call 0 is no tool's
    records,    \* the recorder's calls: [call, executed]
    registered, \* calls whose output went into the taint ledger
    ran,        \* history: calls whose tool was started
    beforeStop  \* history: calls past the boundary when the stop arrived

posture == <<paused, stopped>>
session == <<verdicts, records, registered>>
vars == <<setting, posture, pc, call, allowed, begun, session, ran, beforeStop>>

Call == 1..MaxCalls

\* The operator moves the posture; a stop is for good.
ChangePosture ==
    /\ ~stopped
    /\ paused' \in BOOLEAN
    /\ stopped' \in BOOLEAN
    /\ beforeStop' = IF stopped'
                     THEN {call[c] : c \in {d \in Caller : pc[d] \notin {"idle", "asked"}}}
                     ELSE {}
    /\ UNCHANGED <<setting, pc, call, allowed, begun, session, ran>>

Moves(c, to) == pc' = [pc EXCEPT ![c] = to]

\* The call raises, returns or is held: the caller may call again.
Ends(c) == Moves(c, "idle")

\* On one thread a call that has begun holds the processor until its tool
\* starts, and a tool that called another resumes when that call is over.
HasTurn(c) ==
    \/ setting.threaded
    \/ \A d \in Caller \ {c} :
          \/ pc[d] = "idle"
          \/ pc[d] = "running" /\ (pc[c] = "running" => call[d] < call[c])

\* A tool the toolset knows is called; an unknown one raises before anything.
Begin(c) ==
    /\ pc[c] = "idle"
    /\ begun < MaxCalls
    /\ begun' = begun + 1
    /\ call' = [call EXCEPT ![c] = begun + 1]
    /\ Moves(c, "asked")
    /\ UNCHANGED <<setting, posture, allowed, session, ran, beforeStop>>

\* admission(): a paused or stopped node holds the call (AdmissionHeld).
Admit(c) ==
    /\ setting.every_intent
    /\ pc[c] = "asked"
    /\ IF paused \/ stopped THEN Ends(c) ELSE Moves(c, "admitted")
    /\ UNCHANGED <<setting, posture, call, allowed, begun, session, ran, beforeStop>>

\* MUTANT the streaming loop only ever pauses.
AwaitPausedOnly(c) ==
    /\ ~setting.every_intent
    /\ pc[c] = "asked"
    /\ ~paused
    /\ Moves(c, "admitted")
    /\ UNCHANGED <<setting, posture, call, allowed, begun, session, ran, beforeStop>>

\* PlaneAdmission.await_admission: a stop winds the loop down, a pause keeps
\* it polling, so there is no step while paused.
await_admission(c) ==
    /\ ~setting.every_intent
    /\ pc[c] = "asked"
    /\ \/ stopped /\ Ends(c)
       \/ ~stopped /\ ~paused /\ Moves(c, "admitted")
    /\ UNCHANGED <<setting, posture, call, allowed, begun, session, ran, beforeStop>>

\* governor.evaluate: the kernel appends its verdict event.  On the streaming
\* path a denied call goes no further.
Evaluate(c) ==
    /\ pc[c] = "admitted"
    /\ \E verdict \in BOOLEAN :
         /\ allowed' = [allowed EXCEPT ![c] = verdict]
         /\ verdicts' = Append(verdicts, [call |-> call[c], allowed |-> verdict])
         /\ IF setting.every_intent \/ verdict THEN Moves(c, "judged") ELSE Ends(c)
    /\ UNCHANGED <<setting, posture, call, begun, records, registered, ran, beforeStop>>

\* A kernel that owns the loop also refuses what is no tool call, a spawn or a
\* message; that too is a verdict event (bridge.py:77-84).
RefuseOther ==
    /\ ~setting.every_intent
    /\ begun < MaxCalls
    /\ \A c \in Caller : pc[c] = "idle"
    /\ begun' = begun + 1
    /\ verdicts' = Append(verdicts, [call |-> 0, allowed |-> FALSE])
    /\ UNCHANGED <<setting, posture, pc, call, allowed, records, registered, ran, beforeStop>>

\* MUTANT a denied call leaves no record.
RecordAllowedOnly(c) ==
    /\ pc[c] = "judged"
    /\ records' = IF allowed[c]
                  THEN Append(records, [call |-> call[c], executed |-> FALSE])
                  ELSE records
    /\ Moves(c, "recorded")
    /\ UNCHANGED <<setting, posture, call, allowed, begun, verdicts, registered, ran, beforeStop>>

\* recorder.evaluated
Record(c) ==
    /\ pc[c] = "judged"
    /\ records' = Append(records, [call |-> call[c], executed |-> FALSE])
    /\ Moves(c, "recorded")
    /\ UNCHANGED <<setting, posture, call, allowed, begun, verdicts, registered, ran, beforeStop>>

\* A denied call raises ToolDenied under enforcement; any other starts the tool.
Run(c) ==
    /\ pc[c] = "recorded"
    /\ IF ~allowed[c] /\ setting.enforced
       THEN Ends(c) /\ UNCHANGED ran
       ELSE Moves(c, "running") /\ ran' = ran \cup {call[c]}
    /\ UNCHANGED <<setting, posture, call, allowed, begun, session, beforeStop>>

\* The tool raises: nothing is registered, the record stays not executed.
ToolRaises(c) ==
    /\ pc[c] = "running"
    /\ Ends(c)
    /\ UNCHANGED <<setting, posture, call, allowed, begun, session, ran, beforeStop>>

\* register_output
Register(c) ==
    /\ pc[c] = "running"
    /\ registered' = IF setting.every_intent THEN registered \cup {call[c]} ELSE registered
    /\ Moves(c, "returned")
    /\ UNCHANGED <<setting, posture, call, allowed, begun, verdicts, records, ran, beforeStop>>

\* recorded.executed = True, on the record this call made; the call returns.
Mark(c) ==
    /\ pc[c] = "returned"
    /\ records' = [i \in DOMAIN records |->
                     IF records[i].call = call[c]
                     THEN [records[i] EXCEPT !.executed = TRUE] ELSE records[i]]
    /\ Ends(c)
    /\ UNCHANGED <<setting, posture, call, allowed, begun, verdicts, registered, ran, beforeStop>>

\* Of the first i verdicts, those a record belongs to: all, or the approvals.
Recorded(i) == {j \in 1..i : setting.every_intent \/ verdicts[j].allowed}

\* The record _paired takes for the i-th verdict, 0 for a denial nobody recorded.
RecordOf(i) == IF i \in Recorded(i) THEN Cardinality(Recorded(i)) ELSE 0

\* _paired refuses a session whose records and verdicts do not line up.
Refused == Len(records) # Cardinality(Recorded(Len(verdicts)))

Init ==
    /\ setting \in Setting
    /\ paused = FALSE
    /\ stopped = FALSE
    /\ pc = [c \in Caller |-> "idle"]
    /\ call = [c \in Caller |-> 0]
    /\ allowed = [c \in Caller |-> FALSE]
    /\ begun = 0
    /\ verdicts = <<>>
    /\ records = <<>>
    /\ registered = {}
    /\ ran = {}
    /\ beforeStop = {}

Next ==
    \/ ChangePosture
    \/ RefuseOther
    \/ \E c \in Caller :
         /\ HasTurn(c)
         /\ \/ Begin(c)
            \/ Admit(c)
            \/ await_admission(c)
            \/ Evaluate(c)
            \/ Record(c)
            \/ Run(c)
            \/ ToolRaises(c)
            \/ Register(c)
            \/ Mark(c)

Spec == Init /\ [][Next]_vars

-----------------------------------------------------------------------------
(***************************************************************************)
(* Properties                                                              *)
(***************************************************************************)
\* On one thread, whenever no call stands between its verdict and its record,
\* build_trace accepts the session and pairs each record with the verdict of its own call,
\* calls from inside a tool included: "this list stays 1:1 and in order with
\* the kernel's own trace events" (trace.py:69-71, 332-379).
RecordsFollowVerdicts ==
    (~setting.threaded /\ \A c \in Caller : pc[c] # "judged") =>
        /\ ~Refused
        /\ \A i \in DOMAIN verdicts :
              RecordOf(i) # 0 => records[RecordOf(i)].call = verdicts[i].call

\* After a stop only the calls already past the boundary start their tool,
\* whatever was asked before it (session.py:273-275, runtime.py:225-226).
StopHoldsLaterCalls ==
    [][stopped => ran' \ ran \subseteq beforeStop]_vars
=============================================================================
