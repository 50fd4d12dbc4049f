---------------------------- MODULE TraceProofs ----------------------------
(***************************************************************************)
(* TLAPS proofs about WrappedRuntime and what is built on it, for any      *)
(* number of callers, calls, outputs and other events: what a stop holds;  *)
(* that on one thread the records match the verdicts, a result in the      *)
(* trace means that its own call's tool returned, and a tainted argument   *)
(* is linked to all it derives from; that the plane folds what trace/v1    *)
(* decides.                                                                *)
(***************************************************************************)
EXTENDS TraceBridge, InductionLemmas, FiniteSetTheorems

-----------------------------------------------------------------------------
(***************************************************************************)
(* WrappedRuntime                                                          *)
(***************************************************************************)
\* Past the boundary: admitted, and not yet back.
Past(c) == pc[c] \notin {"idle", "asked"}

\* Once stopped, a call past the boundary is one that was there when the stop
\* arrived.
PastIsBefore ==
    /\ DOMAIN pc = Caller
    /\ DOMAIN call = Caller
    /\ stopped => \A c \in Caller : Past(c) => call[c] \in beforeStop

\* Where pc goes when one call moves.
LEMMA OneCallMoves ==
    ASSUME DOMAIN pc = Caller, NEW c \in Caller, NEW to, Moves(c, to)
    PROVE  /\ DOMAIN pc' = Caller
           /\ pc'[c] = to
           /\ \A d \in Caller \ {c} : pc'[d] = pc[d]
BY DEF Moves

\* A call that was past the boundary, or that goes back to idle, changes nothing.
LEMMA StepKeepsPast ==
    ASSUME PastIsBefore, NEW c \in Caller, NEW to, Moves(c, to),
           ~stopped \/ Past(c) \/ to \in {"idle", "asked"},
           UNCHANGED <<stopped, beforeStop, call>>
    PROVE  PastIsBefore'
BY OneCallMoves DEF PastIsBefore, Past

\* After a stop only the calls already past the boundary start their tool
\* (runtime.py:225-226, admission.py:31-40).
THEOREM StopHolds == Spec => StopHoldsLaterCalls
<1> USE DEF posture, session, Ends
<1>1. Init => PastIsBefore
  BY DEF Init, PastIsBefore
<1>2. PastIsBefore /\ [Next]_vars => PastIsBefore'
  <2> SUFFICES ASSUME PastIsBefore, [Next]_vars PROVE PastIsBefore'
    OBVIOUS
  <2>1. CASE ChangePosture
    BY <2>1 DEF ChangePosture, PastIsBefore, Past
  <2>2. CASE RefuseOther \/ UNCHANGED vars
    BY <2>2 DEF RefuseOther, vars, PastIsBefore, Past
  <2>3. ASSUME NEW c \in Caller, Begin(c) PROVE PastIsBefore'
    <3>1. /\ DOMAIN pc' = Caller /\ pc'[c] = "asked"
          /\ \A d \in Caller \ {c} : pc'[d] = pc[d]
      BY <2>3, OneCallMoves DEF Begin, PastIsBefore
    <3>2. /\ DOMAIN call' = Caller
          /\ \A d \in Caller \ {c} : call'[d] = call[d]
          /\ UNCHANGED <<stopped, beforeStop>>
      BY <2>3 DEF Begin, PastIsBefore
    <3> QED
      BY <3>1, <3>2 DEF PastIsBefore, Past
  <2>4. ASSUME NEW c \in Caller, Admit(c) \/ await_admission(c)
        PROVE  PastIsBefore'
    BY <2>4, StepKeepsPast DEF Admit, await_admission
  <2>5. ASSUME NEW c \in Caller, Evaluate(c) PROVE PastIsBefore'
    BY <2>5, StepKeepsPast DEF Evaluate, Past
  <2>6. ASSUME NEW c \in Caller, Record(c) \/ Register(c) \/ Mark(c)
        PROVE  PastIsBefore'
    BY <2>6, StepKeepsPast DEF Record, Register, Mark, Past
  <2>7. ASSUME NEW c \in Caller, Run(c) \/ ToolRaises(c) PROVE PastIsBefore'
    BY <2>7, StepKeepsPast DEF Run, ToolRaises, Past
  <2> QED
    BY <2>1, <2>2, <2>3, <2>4, <2>5, <2>6, <2>7 DEF Next
<1>3. PastIsBefore /\ [Next]_vars => [stopped => ran' \ ran \subseteq beforeStop]_vars
  <2> SUFFICES ASSUME PastIsBefore, Next, stopped PROVE ran' \ ran \subseteq beforeStop
    OBVIOUS
  <2>1. ASSUME NEW c \in Caller, Run(c) PROVE ran' \ ran \subseteq beforeStop
    BY <2>1 DEF Run, PastIsBefore, Past
  <2>2. ASSUME UNCHANGED ran PROVE ran' \ ran \subseteq beforeStop
    BY <2>2
  <2> QED
    BY <2>1, <2>2 DEF Next, ChangePosture, RefuseOther, Begin, Admit, await_admission,
       Evaluate, Record, ToolRaises, Register, Mark
<1> QED
  BY <1>1, <1>2, <1>3, PTL DEF Spec, StopHoldsLaterCalls

-----------------------------------------------------------------------------
(***************************************************************************)
(* Records and verdicts.  A call that is neither idle nor in its tool      *)
(* holds the processor, so there is one such call at most, and only it can *)
(* have a verdict without a record.                                        *)
(***************************************************************************)
OneThread == ~setting.threaded

Alone == \A c, d \in Caller : pc[c] = "judged" /\ pc[d] = "judged" => c = d

Judged == \E c \in Caller : pc[c] = "judged"

\* The verdicts that a record belongs to, or will.
Count == Cardinality(Recorded(Len(verdicts)))

\* The record of the i-th verdict is of its call; it may be yet to come.
RecordFits(i) ==
    IF RecordOf(i) <= Len(records)
    THEN records[RecordOf(i)].call = verdicts[i].call
    ELSE \A c \in Caller : pc[c] = "judged" => call[c] = verdicts[i].call

\* Records and verdicts agree, but for the last verdict of a judged call.
Matched ==
    /\ Count = IF Judged THEN Len(records) + 1 ELSE Len(records)
    /\ \A i \in 1..Len(verdicts) : RecordOf(i) # 0 => RecordFits(i)

Verdict == [call : Int, allowed : BOOLEAN]

Entry == [call : Int, executed : BOOLEAN]

Pairing ==
    /\ DOMAIN pc = Caller
    /\ call \in [Caller -> Int]
    /\ verdicts \in Seq(Verdict)
    /\ records \in Seq(Entry)
    /\ Alone
    /\ Matched

\* A sequence after an append.
LEMMA AppendMembers ==
    ASSUME NEW S, NEW s \in Seq(S), NEW e \in S
    PROVE  /\ Append(s, e) \in Seq(S)
           /\ Len(s) \in Nat
           /\ Len(Append(s, e)) = Len(s) + 1
           /\ Append(s, e)[Len(s) + 1] = e
           /\ \A k \in 1..Len(s) : Append(s, e)[k] = s[k]
OBVIOUS

\* What is recorded of the first verdicts is counted, and no more than of all.
LEMMA RecordedCounts ==
    ASSUME verdicts \in Seq(Verdict), NEW i \in 0..Len(verdicts)
    PROVE  /\ IsFiniteSet(Recorded(i))
           /\ Cardinality(Recorded(i)) \in Nat
           /\ Count \in Nat
           /\ Cardinality(Recorded(i)) <= Count
           /\ RecordOf(i) \in Nat
           /\ RecordOf(i) <= Count
           /\ i \in Recorded(i) => RecordOf(i) >= 1
<1>1. Len(verdicts) \in Nat /\ i \in Nat /\ i <= Len(verdicts)
  OBVIOUS
<1>2. IsFiniteSet(1..Len(verdicts))
  BY <1>1, FS_Interval
<1>3. /\ Recorded(i) \subseteq Recorded(Len(verdicts))
      /\ Recorded(Len(verdicts)) \subseteq 1..Len(verdicts)
  BY <1>1 DEF Recorded
<1>4. IsFiniteSet(Recorded(Len(verdicts)))
  BY <1>2, <1>3, FS_Subset
<1>5. /\ IsFiniteSet(Recorded(i))
      /\ Cardinality(Recorded(i)) <= Cardinality(Recorded(Len(verdicts)))
  BY <1>3, <1>4, FS_Subset
<1>6. Cardinality(Recorded(i)) \in Nat /\ Count \in Nat
  BY <1>4, <1>5, FS_CardinalityType DEF Count
<1>7. ASSUME i \in Recorded(i) PROVE Cardinality(Recorded(i)) >= 1
  <2>1. Cardinality(Recorded(i)) # 0
    BY <1>5, <1>7, FS_EmptySet
  <2> QED
    BY <1>6, <2>1
<1> QED
  BY <1>5, <1>6, <1>7 DEF Count, RecordOf

\* One more verdict: those before it keep their records.
LEMMA OneMoreVerdict ==
    ASSUME verdicts \in Seq(Verdict), NEW e \in Verdict,
           verdicts' = Append(verdicts, e), UNCHANGED setting,
           NEW n, n = Len(verdicts) + 1
    PROVE  /\ \A i \in 1..Len(verdicts) :
                 verdicts'[i] = verdicts[i] /\ RecordOf(i)' = RecordOf(i)
           /\ IF setting.every_intent \/ e.allowed
              THEN Count' = Count + 1 /\ RecordOf(n)' = Count + 1
              ELSE Count' = Count /\ RecordOf(n)' = 0
<1>1. /\ Len(verdicts) \in Nat /\ Len(verdicts') = Len(verdicts) + 1
      /\ verdicts'[n] = e /\ n = Len(verdicts') /\ n \in Nat
      /\ \A i \in 1..Len(verdicts) : verdicts'[i] = verdicts[i]
  BY AppendMembers
<1>2. ASSUME NEW i \in 0..Len(verdicts) PROVE Recorded(i)' = Recorded(i)
  <2>1. \A j \in 1..i : verdicts'[j] = verdicts[j]
    BY <1>1
  <2> QED
    BY <2>1 DEF Recorded
<1>3. \A i \in 1..Len(verdicts) : RecordOf(i)' = RecordOf(i)
  BY <1>1, <1>2 DEF RecordOf
<1>4. IsFiniteSet(Recorded(Len(verdicts))) /\ Count \in Nat
  BY <1>1, RecordedCounts
<1>5. n \notin Recorded(Len(verdicts))
  BY <1>1 DEF Recorded
<1>6. CASE setting.every_intent \/ e.allowed
  <2>1. Recorded(n)' = Recorded(n - 1)' \cup {n}
    BY <1>1, <1>6 DEF Recorded
  <2>2. Recorded(n)' = Recorded(Len(verdicts)) \cup {n}
    BY <1>1, <1>2, <2>1
  <2>3. Cardinality(Recorded(n)') = Count + 1
    BY <1>4, <1>5, <2>2, FS_AddElement DEF Count
  <2> QED
    BY <1>1, <1>3, <1>6, <2>2, <2>3 DEF Count, RecordOf
<1>7. CASE ~(setting.every_intent \/ e.allowed)
  <2>1. Recorded(n)' = Recorded(n - 1)'
    BY <1>1, <1>7 DEF Recorded
  <2>2. Recorded(n)' = Recorded(Len(verdicts))
    BY <1>1, <1>2, <2>1
  <2> QED
    BY <1>1, <1>3, <1>5, <1>7, <2>2 DEF Count, RecordOf
<1> QED
  BY <1>6, <1>7

\* The verdicts stand: so do their counts.
LEMMA SameVerdicts ==
    ASSUME UNCHANGED <<setting, verdicts>>
    PROVE  Count' = Count /\ \A i : RecordOf(i)' = RecordOf(i)
<1>1. \A i : Recorded(i)' = Recorded(i)
  BY DEF Recorded
<1> QED
  BY <1>1 DEF Count, RecordOf

\* A step of a call that gets no verdict and makes no record.
LEMMA QuietPairing ==
    ASSUME Pairing, NEW c \in Caller, NEW to, Moves(c, to), to # "judged",
           pc[c] # "judged", UNCHANGED <<setting, verdicts, records>>,
           call' \in [Caller -> Int], \A d \in Caller \ {c} : call'[d] = call[d]
    PROVE  Pairing'
<1>1. /\ DOMAIN pc' = Caller /\ pc'[c] = to
      /\ \A d \in Caller \ {c} : pc'[d] = pc[d]
  BY OneCallMoves DEF Pairing
<1>2. \A d \in Caller : pc'[d] = "judged" <=> pc[d] = "judged"
  BY <1>1
<1>3. Alone' /\ (Judged' <=> Judged)
  BY <1>2 DEF Pairing, Alone, Judged
<1>4. \A d \in Caller : pc'[d] = "judged" => call'[d] = call[d]
  BY <1>2
<1>5. Count' = Count /\ \A i : RecordOf(i)' = RecordOf(i)
  BY SameVerdicts
<1>6. \A i : RecordFits(i) => RecordFits(i)'
  BY <1>2, <1>4, <1>5 DEF RecordFits
<1>7. Matched'
  BY <1>3, <1>5, <1>6 DEF Pairing, Matched
<1> QED
  BY <1>1, <1>3, <1>7 DEF Pairing

\* The kernel gives a verdict while no call waits for its record: to a call
\* that will have one, or to what never has.
LEMMA VerdictPairs ==
    ASSUME Pairing, ~Judged, NEW e \in Verdict,
           verdicts' = Append(verdicts, e), UNCHANGED <<setting, call, records>>,
           DOMAIN pc' = Caller,
           IF setting.every_intent \/ e.allowed
           THEN \E c \in Caller : /\ pc'[c] = "judged" /\ call[c] = e.call
                                  /\ \A d \in Caller \ {c} : pc'[d] # "judged"
           ELSE \A d \in Caller : pc'[d] # "judged"
    PROVE  Pairing'
<1>1. /\ verdicts \in Seq(Verdict) /\ verdicts' \in Seq(Verdict)
      /\ Len(verdicts) \in Nat /\ Len(verdicts') = Len(verdicts) + 1
      /\ verdicts'[Len(verdicts) + 1] = e
      /\ \A i \in 1..Len(verdicts) : verdicts'[i] = verdicts[i]
      /\ Len(records) \in Nat
  BY AppendMembers DEF Pairing
<1>9. PICK n : n = Len(verdicts) + 1
  OBVIOUS
<1>2. Count = Len(records)
  BY DEF Pairing, Matched
<1>3. \A i \in 1..Len(verdicts) : RecordOf(i) <= Len(records)
  BY <1>1, <1>2, RecordedCounts
<1>4. \A i \in 1..Len(verdicts) : RecordOf(i)' = RecordOf(i)
  BY <1>1, OneMoreVerdict
<1>5. ASSUME NEW i \in 1..Len(verdicts), RecordOf(i)' # 0 PROVE RecordFits(i)'
  <2>1. RecordOf(i) # 0 /\ RecordOf(i) <= Len(records) /\ RecordFits(i)
    BY <1>3, <1>4, <1>5 DEF Pairing, Matched
  <2> QED
    BY <1>1, <1>4, <2>1 DEF RecordFits
<1>6. CASE setting.every_intent \/ e.allowed
  <2>1. PICK c \in Caller : /\ pc'[c] = "judged" /\ call[c] = e.call
                            /\ \A d \in Caller \ {c} : pc'[d] # "judged"
    BY <1>6
  <2>2. Judged' /\ Alone'
    BY <2>1 DEF Judged, Alone
  <2>3. Count' = Count + 1 /\ RecordOf(n)' = Count + 1
    BY <1>1, <1>6, <1>9, OneMoreVerdict
  <2>4. \A d \in Caller : pc'[d] = "judged" => call'[d] = e.call
    BY <2>1
  <2>5. RecordFits(n)'
    BY <1>1, <1>2, <1>9, <2>3, <2>4 DEF RecordFits
  <2>6. \A i \in 1..Len(verdicts') : i \in 1..Len(verdicts) \/ i = n
    BY <1>1, <1>9
  <2>7. Matched'
    BY <1>2, <1>5, <2>2, <2>3, <2>5, <2>6 DEF Matched
  <2> QED
    BY <1>1, <2>2, <2>7 DEF Pairing
<1>7. CASE ~(setting.every_intent \/ e.allowed)
  <2>1. ~Judged' /\ Alone'
    BY <1>7 DEF Judged, Alone
  <2>2. Count' = Count /\ RecordOf(n)' = 0
    BY <1>1, <1>7, <1>9, OneMoreVerdict
  <2>3. \A i \in 1..Len(verdicts') : i \in 1..Len(verdicts) \/ i = n
    BY <1>1, <1>9
  <2>4. Matched'
    BY <1>2, <1>5, <2>1, <2>2, <2>3 DEF Matched
  <2> QED
    BY <1>1, <2>1, <2>4 DEF Pairing
<1> QED
  BY <1>6, <1>7

\* The kernel judges a call while no other waits for its record.
LEMMA EvaluatePairs ==
    ASSUME Pairing, OneThread, NEW c \in Caller, HasTurn(c), Evaluate(c)
    PROVE  Pairing'
<1>1. \A d \in Caller : pc[d] # "judged"
  BY DEF HasTurn, OneThread, Evaluate
<1>2. ~Judged
  BY <1>1 DEF Judged
<1>3. PICK v \in BOOLEAN :
        /\ verdicts' = Append(verdicts, [call |-> call[c], allowed |-> v])
        /\ IF setting.every_intent \/ v THEN Moves(c, "judged") ELSE Ends(c)
  BY DEF Evaluate
<1>4. PICK e : e = [call |-> call[c], allowed |-> v]
  OBVIOUS
<1>5. e \in Verdict /\ e.call = call[c] /\ e.allowed = v
  BY <1>4 DEF Verdict, Pairing
<1>6. verdicts' = Append(verdicts, e) /\ UNCHANGED <<setting, call, records>>
  BY <1>3, <1>4 DEF Evaluate
<1>7. CASE setting.every_intent \/ e.allowed
  <2>1. /\ DOMAIN pc' = Caller /\ pc'[c] = "judged"
        /\ \A d \in Caller \ {c} : pc'[d] = pc[d]
    BY <1>3, <1>5, <1>7, OneCallMoves DEF Pairing
  <2> QED
    BY <1>1, <1>2, <1>5, <1>6, <1>7, <2>1, VerdictPairs
<1>8. CASE ~(setting.every_intent \/ e.allowed)
  <2>1. /\ DOMAIN pc' = Caller /\ pc'[c] = "idle"
        /\ \A d \in Caller \ {c} : pc'[d] = pc[d]
    BY <1>3, <1>5, <1>8, OneCallMoves DEF Pairing, Ends
  <2>2. \A d \in Caller : pc'[d] # "judged"
    BY <1>1, <2>1
  <2> QED
    BY <1>2, <1>5, <1>6, <1>8, <2>1, <2>2, VerdictPairs
<1> QED
  BY <1>7, <1>8

\* The kernel refuses what is no tool call.
LEMMA RefuseOtherPairs ==
    ASSUME Pairing, RefuseOther
    PROVE  Pairing'
<1>1. PICK e : e = [call |-> 0, allowed |-> FALSE]
  OBVIOUS
<1>2. e \in Verdict /\ e.allowed = FALSE
  BY <1>1 DEF Verdict
<1>3. /\ verdicts' = Append(verdicts, e) /\ UNCHANGED <<setting, call, records, pc>>
      /\ setting.every_intent = FALSE \/ ~setting.every_intent
      /\ \A d \in Caller : pc[d] # "judged"
  BY <1>1 DEF RefuseOther
<1>4. ~Judged /\ DOMAIN pc' = Caller /\ \A d \in Caller : pc'[d] # "judged"
  BY <1>3 DEF Judged, Pairing
<1>5. ~(setting.every_intent \/ e.allowed)
  BY <1>2 DEF RefuseOther
<1> QED
  BY <1>2, <1>3, <1>4, <1>5, VerdictPairs

\* The record of the judged call comes to stand against its verdict.
LEMMA RecordPairs ==
    ASSUME Pairing, NEW c \in Caller, Record(c)
    PROVE  Pairing'
<1>0. pc[c] = "judged" /\ Judged
  BY DEF Record, Judged
<1>1. /\ DOMAIN pc' = Caller /\ pc'[c] = "recorded"
      /\ \A d \in Caller \ {c} : pc'[d] = pc[d]
  BY OneCallMoves DEF Pairing, Record
<1>2. \A d \in Caller : pc'[d] # "judged"
  BY <1>0, <1>1 DEF Pairing, Alone
<1>3. /\ records' \in Seq(Entry)
      /\ Len(records) \in Nat /\ Len(records') = Len(records) + 1
      /\ records'[Len(records) + 1].call = call[c]
      /\ \A i \in 1..Len(records) : records'[i] = records[i]
  <2>1. PICK e : e = [call |-> call[c], executed |-> FALSE]
    OBVIOUS
  <2>2. e \in Entry /\ e.call = call[c]
    BY <2>1 DEF Entry, Pairing
  <2>3. records \in Seq(Entry) /\ records' = Append(records, e)
    BY <2>1 DEF Pairing, Record
  <2> QED
    BY <2>2, <2>3, AppendMembers
<1>4. UNCHANGED <<setting, call, verdicts>>
  BY DEF Record
<1>5. Count' = Count /\ \A i : RecordOf(i)' = RecordOf(i)
  BY <1>4, SameVerdicts
<1>6. ~Judged' /\ Alone' /\ Count = Len(records) + 1
  BY <1>0, <1>2 DEF Judged, Alone, Pairing, Matched
<1>7. ASSUME NEW i \in 1..Len(verdicts), RecordOf(i) # 0 PROVE RecordFits(i)'
  <2>1. RecordFits(i) /\ RecordOf(i) \in Nat /\ RecordOf(i) <= Len(records) + 1
    BY <1>6, <1>7, RecordedCounts DEF Pairing, Matched
  <2>2. CASE RecordOf(i) <= Len(records)
    <3>1. RecordOf(i) \in 1..Len(records)
      BY <1>3, <1>7, <2>1, <2>2
    <3> QED
      BY <1>3, <1>4, <1>5, <2>1, <2>2, <3>1 DEF RecordFits
  <2>3. CASE ~(RecordOf(i) <= Len(records))
    <3>1. RecordOf(i) = Len(records) + 1 /\ call[c] = verdicts[i].call
      BY <1>0, <1>3, <2>1, <2>3 DEF RecordFits
    <3> QED
      BY <1>3, <1>4, <1>5, <3>1 DEF RecordFits
  <2> QED
    BY <2>2, <2>3
<1>8. Matched'
  BY <1>3, <1>4, <1>5, <1>6, <1>7 DEF Matched
<1> QED
  BY <1>1, <1>3, <1>4, <1>6, <1>8 DEF Pairing

\* Marking a record as executed leaves every record its call.
LEMMA MarkedRecords ==
    ASSUME records \in Seq(Entry), NEW c \in Caller, Mark(c)
    PROVE  /\ records' \in Seq(Entry) /\ Len(records') = Len(records)
           /\ \A i \in 1..Len(records) :
                 /\ records'[i].call = records[i].call
                 /\ records'[i].executed <=>
                       (records[i].executed \/ records[i].call = call[c])
<1>1. /\ Len(records) \in Nat /\ DOMAIN records = 1..Len(records)
      /\ \A i \in 1..Len(records) : records[i] \in Entry
  OBVIOUS
<1>2. \A r \in Entry :
          /\ [r EXCEPT !.executed = TRUE] \in Entry
          /\ [r EXCEPT !.executed = TRUE].call = r.call
          /\ [r EXCEPT !.executed = TRUE].executed = TRUE
          /\ r.executed \in BOOLEAN
  BY DEF Entry
<1>3. records' = [i \in 1..Len(records) |->
                     IF records[i].call = call[c]
                     THEN [records[i] EXCEPT !.executed = TRUE] ELSE records[i]]
  BY <1>1 DEF Mark
<1>4. ASSUME NEW i \in 1..Len(records)
      PROVE  /\ records'[i] \in Entry /\ records'[i].call = records[i].call
             /\ records'[i].executed <=> (records[i].executed \/ records[i].call = call[c])
  <2>1. PICK r : r = records[i]
    OBVIOUS
  <2>2. r \in Entry
    BY <1>1, <2>1
  <2>3. CASE r.call = call[c]
    <3>1. records'[i] = [r EXCEPT !.executed = TRUE]
      BY <1>3, <2>1, <2>3
    <3> QED
      BY <1>2, <2>1, <2>2, <2>3, <3>1
  <2>4. CASE r.call # call[c]
    <3>1. records'[i] = r
      BY <1>3, <2>1, <2>4
    <3> QED
      BY <1>2, <2>1, <2>2, <2>4, <3>1
  <2> QED
    BY <2>3, <2>4
<1>5. records' \in Seq(Entry) /\ Len(records') = Len(records)
  <2>1. DOMAIN records' = 1..Len(records) /\ records' = [i \in 1..Len(records) |-> records'[i]]
    BY <1>3
  <2> HIDE DEF Entry
  <2> QED
    BY <1>1, <1>4, <2>1
<1> QED
  BY <1>4, <1>5

LEMMA MarkPairs ==
    ASSUME Pairing, NEW c \in Caller, Mark(c)
    PROVE  Pairing'
<1>0. pc[c] # "judged" /\ UNCHANGED <<setting, call, verdicts>>
  BY DEF Mark
<1>1. /\ DOMAIN pc' = Caller /\ pc'[c] = "idle"
      /\ \A d \in Caller \ {c} : pc'[d] = pc[d]
  BY OneCallMoves DEF Pairing, Mark, Ends
<1>2. \A d \in Caller : pc'[d] = "judged" <=> pc[d] = "judged"
  BY <1>0, <1>1
<1>3. Alone' /\ (Judged' <=> Judged)
  BY <1>2 DEF Pairing, Alone, Judged
<1>4. /\ records' \in Seq(Entry) /\ Len(records') = Len(records)
      /\ \A i \in 1..Len(records) : records'[i].call = records[i].call
  BY MarkedRecords DEF Pairing
<1>5. Count' = Count /\ \A i : RecordOf(i)' = RecordOf(i)
  BY <1>0, SameVerdicts
<1>6. ASSUME NEW i \in 1..Len(verdicts), RecordOf(i) # 0 PROVE RecordFits(i)'
  <2>1. RecordFits(i) /\ RecordOf(i) \in Nat /\ Len(records) \in Nat
    BY <1>6, RecordedCounts DEF Pairing, Matched
  <2>2. CASE RecordOf(i) <= Len(records)
    <3>1. RecordOf(i) \in 1..Len(records)
      BY <1>6, <2>1, <2>2
    <3> QED
      BY <1>0, <1>4, <1>5, <2>1, <2>2, <3>1 DEF RecordFits
  <2>3. CASE ~(RecordOf(i) <= Len(records))
    BY <1>0, <1>2, <1>4, <1>5, <2>1, <2>3 DEF RecordFits
  <2> QED
    BY <2>2, <2>3
<1>7. Matched'
  BY <1>0, <1>3, <1>4, <1>5, <1>6 DEF Pairing, Matched
<1> QED
  BY <1>0, <1>1, <1>3, <1>4, <1>7 DEF Pairing

\* What every state of one thread keeps.
Kept == begun \in Int /\ (OneThread => Pairing)

LEMMA InitKept == Init => Kept
<1> SUFFICES ASSUME Init PROVE begun \in Int /\ Pairing
  BY DEF Kept
<1>1. /\ pc = [c \in Caller |-> "idle"] /\ call = [c \in Caller |-> 0]
      /\ verdicts = <<>> /\ records = <<>>
  BY DEF Init
<1>2. Alone /\ ~Judged
  BY <1>1 DEF Alone, Judged
<1>3. Matched
  <2>1. Recorded(Len(verdicts)) = {} /\ 1..Len(verdicts) = {} /\ Len(records) = 0
    BY <1>1 DEF Recorded
  <2>2. Count = 0
    BY <2>1, FS_EmptySet DEF Count
  <2> QED
    BY <1>2, <2>1, <2>2 DEF Matched
<1> QED
  BY <1>1, <1>2, <1>3 DEF Pairing, Init

LEMMA NextKept == Kept /\ [Next]_vars => Kept'
<1> USE DEF posture, session, Ends
<1>10. [Next]_vars => begun' = begun \/ begun' = begun + 1
  BY DEF Next, ChangePosture, RefuseOther, Begin, Admit, await_admission,
         Evaluate, Record, Run, ToolRaises, Register, Mark, vars
<1> SUFFICES ASSUME Kept, [Next]_vars, OneThread' PROVE Pairing'
  BY <1>10 DEF Kept
<1>0. setting' = setting
  BY DEF Next, ChangePosture, RefuseOther, Begin, Admit, await_admission,
         Evaluate, Record, Run, ToolRaises, Register, Mark, vars
<1>1. OneThread /\ Pairing /\ begun \in Int
  BY <1>0 DEF OneThread, Kept
<1>2. /\ call \in [Caller -> Int] /\ DOMAIN pc = Caller
  BY <1>1 DEF Pairing
<1>3. CASE ChangePosture \/ UNCHANGED vars
  <2>1. UNCHANGED <<setting, pc, call, verdicts, records>>
    BY <1>3 DEF ChangePosture, vars
  <2>2. Count' = Count /\ \A i : RecordOf(i)' = RecordOf(i)
    BY <2>1, SameVerdicts
  <2> QED
    BY <1>1, <2>1, <2>2 DEF Pairing, Alone, Matched, Judged, RecordFits
<1>4. ASSUME RefuseOther PROVE Pairing'
  BY <1>1, <1>4, RefuseOtherPairs
<1>5. ASSUME NEW c \in Caller, Begin(c) PROVE Pairing'
  BY <1>1, <1>2, <1>5, QuietPairing DEF Begin
<1>6. ASSUME NEW c \in Caller,
             Admit(c) \/ await_admission(c) \/ Run(c) \/ ToolRaises(c) \/ Register(c)
      PROVE  Pairing'
  BY <1>1, <1>2, <1>6, QuietPairing
     DEF Admit, await_admission, Run, ToolRaises, Register
<1>8. ASSUME NEW c \in Caller, HasTurn(c), Evaluate(c) PROVE Pairing'
  BY <1>1, <1>8, EvaluatePairs
<1>9. ASSUME NEW c \in Caller, Record(c) \/ Mark(c) PROVE Pairing'
  BY <1>1, <1>9, RecordPairs, MarkPairs
<1> QED
  BY <1>3, <1>4, <1>5, <1>6, <1>8, <1>9 DEF Next

\* Between verdict and record nothing: the i-th verdict's record is of its call.
LEMMA KeptFollow == Kept => RecordsFollowVerdicts
<1> SUFFICES ASSUME Kept, ~setting.threaded, \A c \in Caller : pc[c] # "judged"
             PROVE  /\ ~Refused
                    /\ \A i \in DOMAIN verdicts :
                          RecordOf(i) # 0 => records[RecordOf(i)].call = verdicts[i].call
  BY DEF RecordsFollowVerdicts
<1>1. Pairing /\ ~Judged
  BY DEF OneThread, Judged, Kept
<1>2. Count = Len(records) /\ ~Refused
  BY <1>1 DEF Pairing, Matched, Refused, Count
<1>3. DOMAIN verdicts = 1..Len(verdicts)
  BY <1>1 DEF Pairing
<1>4. ASSUME NEW i \in 1..Len(verdicts), RecordOf(i) # 0
      PROVE  records[RecordOf(i)].call = verdicts[i].call
  <2>1. RecordFits(i) /\ RecordOf(i) <= Len(records)
    BY <1>1, <1>2, <1>4, RecordedCounts DEF Pairing, Matched
  <2> QED
    BY <2>1 DEF RecordFits
<1> QED
  BY <1>2, <1>3, <1>4

\* On one thread the records stay 1:1 and in order with the kernel's verdicts
\* that have one, nested calls included, for the wrapper that asks the kernel
\* itself and for one that is handed what a streaming kernel approved
\* (trace.py:69-71, 332-379).
THEOREM RecordsMatch == Spec => []RecordsFollowVerdicts
BY InitKept, NextKept, KeptFollow, PTL DEF Spec

-----------------------------------------------------------------------------
(***************************************************************************)
(* TraceBuild                                                              *)
(***************************************************************************)
\* The i-th verdict is one a record belongs to.
HasRecord(i) == setting.every_intent \/ verdicts[i].allowed

\* Call n has a verdict that a record belongs to.
Vouched(n) == \E i \in 1..Len(verdicts) : verdicts[i].call = n /\ HasRecord(i)

\* Calls under way have numbers of their own.
Numbers ==
    /\ begun \in 0..MaxCalls
    /\ \A c \in Caller : pc[c] # "idle" => call[c] \in 1..begun
    /\ \A c, d \in Caller :
          pc[c] # "idle" /\ pc[d] # "idle" /\ call[c] = call[d] => c = d

\* A call is judged once, and goes on only with a verdict a record belongs to.
Judgements ==
    /\ \A i \in 1..Len(verdicts) : verdicts[i].call \in 0..begun
    /\ \A i, j \in 1..Len(verdicts) :
          verdicts[i].call = verdicts[j].call => i = j \/ verdicts[i].call = 0
    /\ \A c \in Caller : pc[c] \in {"asked", "admitted"} =>
          \A i \in 1..Len(verdicts) : verdicts[i].call # call[c]
    /\ \A c \in Caller : pc[c] \in {"judged", "recorded", "running", "returned"} =>
          Vouched(call[c])

\* A record says executed exactly if the tool returned, but for the call that
\* has yet to mark it.
RecordTells(r) ==
    /\ records[r].call \in 1..begun
    /\ records[r].executed <=>
          /\ output[records[r].call] # NoOutput
          /\ \A c \in Caller : pc[c] = "returned" => call[c] # records[r].call

\* Outputs are those of calls that went on and returned.
Outputs ==
    /\ output \in [Call -> Output \cup {NoOutput}]
    /\ \A n \in Call : output[n] # NoOutput => Vouched(n)
    /\ \A c \in Caller : pc[c] = "returned" => output[call[c]] # NoOutput
    /\ \A c \in Caller :
          pc[c] \in {"judged", "recorded", "running"} => output[call[c]] = NoOutput
    /\ \A r \in 1..Len(records) : RecordTells(r)

\* Call n is a source of taint that was judged before the i-th verdict.
Source(n, i) ==
    /\ output[n] # NoOutput
    /\ output[n].pattern # "none"
    /\ \E j \in 1..(i - 1) : verdicts[j].call = n

\* An argument derives from outputs of calls judged before its own.
Origins ==
    /\ origin \in [Call -> SUBSET Call]
    /\ \A i \in 1..Len(verdicts) : verdicts[i].call # 0 =>
          \A n \in origin[verdicts[i].call] : Source(n, i)

Session == Numbers /\ Judgements /\ Outputs /\ Origins

-----------------------------------------------------------------------------
(***************************************************************************)
(* Each step keeps Session.                                                *)
(***************************************************************************)
\* What a step that leaves the verdicts leaves of the provenance.
LEMMA NoVerdictNoOrigin == ASSUME Attribute, verdicts' = verdicts PROVE origin' = origin
BY DEF Attribute

\* What a step in which no tool returns leaves of the outputs.
LEMMA NoReturnNoOutput ==
    ASSUME Yield, NEW c \in Caller, \A d \in Caller \ {c} : pc'[d] = pc[d],
           pc'[c] # "returned" \/ pc[c] # "running"
    PROVE  output' = output
<1>1. \A d \in Caller : ~(pc[d] = "running" /\ pc'[d] = "returned")
  OBVIOUS
<1> QED
  BY <1>1 DEF Yield

\* A call moves on without verdict, record or output.
LEMMA MoveKeepsSession ==
    ASSUME Session, Pairing, Attribute, Yield, NEW c \in Caller, NEW to, Moves(c, to),
           UNCHANGED <<setting, call, begun, verdicts, records>>,
           \/ to = "idle" /\ pc[c] \in {"asked", "recorded", "running"}
           \/ to = "admitted" /\ pc[c] = "asked"
           \/ to = "running" /\ pc[c] = "recorded"
    PROVE  Session'
<1>1. /\ DOMAIN pc' = Caller /\ pc'[c] = to
      /\ \A d \in Caller \ {c} : pc'[d] = pc[d]
  BY OneCallMoves DEF Pairing
<1>2. origin' = origin /\ output' = output
  BY <1>1, NoVerdictNoOrigin, NoReturnNoOutput
<1>3. Numbers'
  BY <1>1 DEF Session, Numbers
<1>4. \A n : Vouched(n)' = Vouched(n)
  BY DEF Vouched, HasRecord
<1>5. Judgements'
  BY <1>1, <1>4 DEF Session, Judgements
<1>6. \A d \in Caller : pc'[d] = "returned" <=> pc[d] = "returned"
  BY <1>1
<1>7. \A r \in 1..Len(records) : RecordTells(r) => RecordTells(r)'
  BY <1>2, <1>6 DEF RecordTells
<1>8. Outputs'
  BY <1>1, <1>2, <1>4, <1>6, <1>7 DEF Session, Outputs
<1>9. Origins'
  BY <1>2 DEF Session, Origins, Source
<1> QED
  BY <1>3, <1>5, <1>8, <1>9 DEF Session

\* A call begins, under the next number.
LEMMA BeginKeepsSession ==
    ASSUME Session, Pairing, Attribute, Yield, NEW c \in Caller, Begin(c)
    PROVE  Session'
<1>0. MaxCalls \in Nat
  BY RuntimeConfig
<1>1. /\ DOMAIN pc' = Caller /\ pc'[c] = "asked" /\ pc[c] = "idle"
      /\ \A d \in Caller \ {c} : pc'[d] = pc[d]
  BY OneCallMoves DEF Pairing, Begin
<1>2. /\ UNCHANGED <<setting, verdicts, records>> /\ begun' = begun + 1 /\ begun < MaxCalls
      /\ call'[c] = begun + 1 /\ \A d \in Caller \ {c} : call'[d] = call[d]
  BY DEF Begin, session, Pairing
<1>3. origin' = origin /\ output' = output
  BY <1>1, <1>2, NoVerdictNoOrigin, NoReturnNoOutput
<1>4. begun \in Nat /\ begun' \in 0..MaxCalls
  BY <1>0, <1>2 DEF Session, Numbers
<1>5. Numbers'
  BY <1>1, <1>2, <1>4 DEF Session, Numbers
<1>6. \A n : Vouched(n)' = Vouched(n)
  BY <1>2 DEF Vouched, HasRecord
<1>7. Judgements'
  BY <1>1, <1>2, <1>4, <1>6 DEF Session, Judgements
<1>8. \A d \in Caller : pc'[d] = "returned" => pc[d] = "returned" /\ call'[d] = call[d]
  BY <1>1, <1>2
<1>9. \A d \in Caller : pc[d] = "returned" => pc'[d] = "returned" /\ call'[d] = call[d]
  BY <1>1, <1>2
<1>10. \A r \in 1..Len(records) : RecordTells(r) => RecordTells(r)'
  BY <1>2, <1>3, <1>4, <1>8, <1>9 DEF RecordTells
<1>11. Outputs'
  BY <1>1, <1>2, <1>3, <1>6, <1>8, <1>10 DEF Session, Outputs
<1>12. Origins'
  BY <1>2, <1>3 DEF Session, Origins, Source
<1> QED
  BY <1>5, <1>7, <1>11, <1>12 DEF Session

\* The verdicts after one more.
LEMMA VouchedMore ==
    ASSUME Pairing, NEW e \in Verdict, verdicts' = Append(verdicts, e), UNCHANGED setting
    PROVE  /\ Len(verdicts) \in Nat /\ Len(verdicts') = Len(verdicts) + 1
           /\ verdicts'[Len(verdicts')] = e
           /\ \A i \in 1..Len(verdicts) :
                 verdicts'[i] = verdicts[i] /\ (HasRecord(i)' <=> HasRecord(i))
           /\ \A i \in 1..Len(verdicts') : i \in 1..Len(verdicts) \/ i = Len(verdicts')
           /\ \A n : Vouched(n) => Vouched(n)'
<1>1. /\ Len(verdicts) \in Nat /\ Len(verdicts') = Len(verdicts) + 1
      /\ verdicts'[Len(verdicts) + 1] = e
      /\ \A i \in 1..Len(verdicts) : verdicts'[i] = verdicts[i]
  BY AppendMembers DEF Pairing
<1>2. \A i \in 1..Len(verdicts) : HasRecord(i)' <=> HasRecord(i)
  BY <1>1 DEF HasRecord
<1>3. ASSUME NEW n, Vouched(n) PROVE Vouched(n)'
  <2>1. PICK i \in 1..Len(verdicts) : verdicts[i].call = n /\ HasRecord(i)
    BY <1>3 DEF Vouched
  <2>2. i \in 1..Len(verdicts')
    BY <1>1, <2>1
  <2> QED
    BY <1>1, <1>2, <2>1, <2>2 DEF Vouched
<1> QED
  BY <1>1, <1>2, <1>3

\* Sources stay sources.
LEMMA SourcesStay ==
    ASSUME NEW i, NEW n, Source(n, i), output'[n] = output[n],
           \A j \in 1..(i - 1) : verdicts'[j] = verdicts[j]
    PROVE  Source(n, i)'
BY DEF Source

\* The kernel refuses what is no tool call.
LEMMA RefuseOtherKeepsSession ==
    ASSUME Session, Pairing, Attribute, Yield, RefuseOther
    PROVE  Session'
<1>0. MaxCalls \in Nat
  BY RuntimeConfig
<1>1. PICK e : e = [call |-> 0, allowed |-> FALSE]
  OBVIOUS
<1>2. e \in Verdict /\ e.call = 0
  BY <1>1 DEF Verdict
<1>3. /\ verdicts' = Append(verdicts, e)
      /\ UNCHANGED <<setting, call, records, pc>>
      /\ begun' = begun + 1 /\ begun < MaxCalls
  BY <1>1 DEF RefuseOther
<1>4. /\ Len(verdicts) \in Nat /\ Len(verdicts') = Len(verdicts) + 1
      /\ verdicts'[Len(verdicts')] = e
      /\ \A i \in 1..Len(verdicts) : verdicts'[i] = verdicts[i]
      /\ \A i \in 1..Len(verdicts') : i \in 1..Len(verdicts) \/ i = Len(verdicts')
      /\ \A n : Vouched(n) => Vouched(n)'
  BY <1>2, <1>3, VouchedMore
<1>5. origin' = origin /\ output' = output
  <2>1. {c \in Caller : pc[c] = "running" /\ pc'[c] = "returned"} = {}
    BY <1>3
  <2> QED
    BY <1>2, <1>4, <2>1 DEF Attribute, Yield
<1>6. begun \in Nat /\ begun' \in 0..MaxCalls
  BY <1>0, <1>3 DEF Session, Numbers
<1>7. Numbers'
  BY <1>3, <1>6 DEF Session, Numbers
<1>8. \A c \in Caller : pc[c] # "idle" => call[c] # 0
  BY <1>6 DEF Session, Numbers
<1>9. Judgements'
  BY <1>2, <1>3, <1>4, <1>6, <1>8 DEF Session, Judgements
<1>10. \A r \in 1..Len(records) : RecordTells(r) => RecordTells(r)'
  BY <1>3, <1>5, <1>6 DEF RecordTells
<1>11. Outputs'
  BY <1>3, <1>4, <1>5, <1>10 DEF Session, Outputs
<1>12. Origins'
  <2>1. ASSUME NEW i \in 1..Len(verdicts'), verdicts'[i].call # 0,
               NEW n \in origin'[verdicts'[i].call]
        PROVE  Source(n, i)'
    <3>1. i \in 1..Len(verdicts) /\ verdicts'[i] = verdicts[i]
      BY <1>2, <1>4, <2>1
    <3>2. Source(n, i)
      BY <1>5, <2>1, <3>1 DEF Session, Origins
    <3>3. \A j \in 1..(i - 1) : verdicts'[j] = verdicts[j]
      BY <1>4, <3>1
    <3> QED
      BY <1>5, <3>2, <3>3, SourcesStay
  <2> QED
    BY <1>5, <2>1 DEF Session, Origins
<1> QED
  BY <1>7, <1>9, <1>11, <1>12 DEF Session

\* The kernel judges a call, and says what its argument derives from.
LEMMA EvaluateKeepsSession ==
    ASSUME Session, Pairing, Attribute, Yield, NEW c \in Caller, Evaluate(c)
    PROVE  Session'
<1>1. PICK v \in BOOLEAN :
        /\ verdicts' = Append(verdicts, [call |-> call[c], allowed |-> v])
        /\ IF setting.every_intent \/ v THEN Moves(c, "judged") ELSE Ends(c)
  BY DEF Evaluate
<1>2. PICK e : e = [call |-> call[c], allowed |-> v]
  OBVIOUS
<1>3. e \in Verdict /\ e.call = call[c] /\ e.allowed = v
  BY <1>2 DEF Verdict, Pairing
<1>4. PICK to : to = IF setting.every_intent \/ v THEN "judged" ELSE "idle"
  OBVIOUS
<1>5. /\ DOMAIN pc' = Caller /\ pc'[c] = to /\ pc[c] = "admitted"
      /\ \A d \in Caller \ {c} : pc'[d] = pc[d]
  <2>1. Moves(c, to)
    BY <1>1, <1>4 DEF Ends
  <2> QED
    BY <2>1, OneCallMoves DEF Pairing, Evaluate
<1>6. verdicts' = Append(verdicts, e) /\ UNCHANGED <<setting, call, begun, records>>
  BY <1>1, <1>2 DEF Evaluate
<1>7. PICK k : k = Len(verdicts')
  OBVIOUS
<1>8. /\ Len(verdicts) \in Nat /\ k = Len(verdicts) + 1 /\ Len(verdicts') = k
      /\ verdicts'[k] = e
      /\ \A i \in 1..Len(verdicts) :
            verdicts'[i] = verdicts[i] /\ (HasRecord(i)' <=> HasRecord(i))
      /\ \A i \in 1..Len(verdicts') : i \in 1..Len(verdicts) \/ i = k
      /\ \A n : Vouched(n) => Vouched(n)'
  BY <1>3, <1>6, <1>7, VouchedMore
<1>9. to = "judged" => Vouched(call[c])'
  <2> SUFFICES ASSUME to = "judged" PROVE Vouched(call[c])'
    OBVIOUS
  <2>1. HasRecord(k)'
    BY <1>3, <1>4, <1>6, <1>8 DEF HasRecord
  <2>2. k \in 1..Len(verdicts') /\ verdicts'[k].call = call'[c]
    BY <1>3, <1>6, <1>8
  <2> QED
    BY <2>1, <2>2 DEF Vouched
<1>10. output' = output
  BY <1>4, <1>5, NoReturnNoOutput
<1>11. /\ begun \in Nat /\ begun <= MaxCalls /\ MaxCalls \in Nat
       /\ call[c] \in 1..begun /\ call[c] \in Call
       /\ \A i \in 1..Len(verdicts) : verdicts[i].call # call[c]
  BY <1>5, RuntimeConfig DEF Session, Numbers, Judgements, Call
<1>12. output[call[c]] = NoOutput
  BY <1>11 DEF Session, Outputs, Vouched
<1>13. Numbers'
  BY <1>4, <1>5, <1>6 DEF Session, Numbers
<1>14. Judgements'
  <2>1. \A i \in 1..Len(verdicts') : verdicts'[i].call \in 0..begun'
    BY <1>3, <1>6, <1>8, <1>11 DEF Session, Judgements
  <2>2. \A i, j \in 1..Len(verdicts') :
          verdicts'[i].call = verdicts'[j].call => i = j \/ verdicts'[i].call = 0
    BY <1>3, <1>8, <1>11 DEF Session, Judgements
  <2>3. ASSUME NEW d \in Caller, pc'[d] \in {"asked", "admitted"}
        PROVE  \A i \in 1..Len(verdicts') : verdicts'[i].call # call'[d]
    <3>1. d # c /\ pc[d] \in {"asked", "admitted"} /\ call[d] # call[c]
      BY <1>4, <1>5, <2>3 DEF Session, Numbers
    <3> QED
      BY <1>3, <1>6, <1>8, <3>1 DEF Session, Judgements
  <2>4. ASSUME NEW d \in Caller, pc'[d] \in {"judged", "recorded", "running", "returned"}
        PROVE  Vouched(call[d])'
    <3>1. CASE d = c
      BY <1>4, <1>5, <1>9, <2>4, <3>1
    <3>2. CASE d # c
      <4>1. PICK n : n = call[d]
        OBVIOUS
      <4>2. Vouched(n)
        BY <1>5, <2>4, <3>2, <4>1 DEF Session, Judgements
      <4>3. Vouched(n)' /\ n = call'[d]
        BY <1>6, <1>8, <4>1, <4>2
      <4> QED
        BY <4>3 DEF Vouched
    <3> QED
      BY <3>1, <3>2
  <2> QED
    BY <2>1, <2>2, <2>3, <2>4 DEF Judgements
<1>15. \A d \in Caller : pc'[d] = "returned" <=> pc[d] = "returned"
  BY <1>4, <1>5
<1>16. \A r \in 1..Len(records) : RecordTells(r) => RecordTells(r)'
  BY <1>6, <1>10, <1>15 DEF RecordTells
<1>17. Outputs'
  BY <1>4, <1>5, <1>6, <1>8, <1>10, <1>12, <1>15, <1>16 DEF Session, Outputs
<1>18. PICK sources \in SUBSET Untrusted :
         origin' = [origin EXCEPT ![call[c]] = sources]
  BY <1>3, <1>8, <1>11 DEF Attribute
<1>19. /\ origin' \in [Call -> SUBSET Call]
       /\ origin'[call[c]] = sources
       /\ \A n \in Call \ {call[c]} : origin'[n] = origin[n]
  BY <1>11, <1>18 DEF Session, Origins, Untrusted
<1>20. ASSUME NEW n \in sources PROVE Source(n, k)'
  <2>1. n \in Call /\ output[n] # NoOutput /\ output[n].pattern # "none"
    BY <1>20 DEF Untrusted
  <2>2. PICK j \in 1..Len(verdicts) : verdicts[j].call = n
    BY <2>1 DEF Session, Outputs, Vouched
  <2>3. j \in 1..(k - 1) /\ verdicts'[j].call = n
    BY <1>8, <2>2
  <2> QED
    BY <1>10, <2>1, <2>3 DEF Source
<1>21. ASSUME NEW i \in 1..Len(verdicts), verdicts[i].call # 0,
              NEW n \in origin'[verdicts[i].call]
       PROVE  Source(n, i)'
  <2>1. verdicts[i].call \in Call \ {call[c]}
    BY <1>11, <1>21 DEF Session, Judgements, Call
  <2>2. Source(n, i)
    BY <1>19, <1>21, <2>1 DEF Session, Origins
  <2>3. \A j \in 1..(i - 1) : verdicts'[j] = verdicts[j]
    BY <1>8
  <2> QED
    BY <1>10, <2>2, <2>3, SourcesStay
<1>22. Origins'
  <2>1. ASSUME NEW i \in 1..Len(verdicts'), verdicts'[i].call # 0,
               NEW n \in origin'[verdicts'[i].call]
        PROVE  Source(n, i)'
    <3>1. CASE i = k
      BY <1>3, <1>8, <1>19, <1>20, <2>1, <3>1
    <3>2. CASE i \in 1..Len(verdicts)
      BY <1>8, <1>21, <2>1, <3>2
    <3> QED
      BY <1>8, <3>1, <3>2
  <2> QED
    BY <1>19, <2>1 DEF Origins
<1> QED
  BY <1>13, <1>14, <1>17, <1>22 DEF Session

\* The judged call's record.
LEMMA RecordKeepsSession ==
    ASSUME Session, Pairing, Attribute, Yield, NEW c \in Caller, Record(c)
    PROVE  Session'
<1>1. /\ DOMAIN pc' = Caller /\ pc'[c] = "recorded" /\ pc[c] = "judged"
      /\ \A d \in Caller \ {c} : pc'[d] = pc[d]
  BY OneCallMoves DEF Pairing, Record
<1>2. PICK e : e = [call |-> call[c], executed |-> FALSE]
  OBVIOUS
<1>3. e \in Entry /\ e.call = call[c] /\ e.executed = FALSE
  BY <1>2 DEF Entry, Pairing
<1>4. /\ records' = Append(records, e)
      /\ UNCHANGED <<setting, call, begun, verdicts>>
  BY <1>2 DEF Record
<1>5. /\ Len(records) \in Nat /\ Len(records') = Len(records) + 1
      /\ records'[Len(records) + 1] = e
      /\ \A r \in 1..Len(records) : records'[r] = records[r]
  BY <1>3, <1>4, AppendMembers DEF Pairing
<1>6. origin' = origin /\ output' = output
  BY <1>1, <1>4, NoVerdictNoOrigin, NoReturnNoOutput
<1>7. Numbers'
  BY <1>1, <1>4 DEF Session, Numbers
<1>8. \A n : Vouched(n)' = Vouched(n)
  BY <1>4 DEF Vouched, HasRecord
<1>9. Judgements'
  BY <1>1, <1>4, <1>8 DEF Session, Judgements
<1>10. \A d \in Caller : pc'[d] = "returned" <=> pc[d] = "returned"
  BY <1>1
<1>11. call[c] \in 1..begun /\ output[call[c]] = NoOutput
  BY <1>1 DEF Session, Numbers, Outputs
<1>12. ASSUME NEW r \in 1..Len(records') PROVE RecordTells(r)'
  <2>1. CASE r = Len(records) + 1
    <3>1. records'[r].call = call[c] /\ records'[r].executed = FALSE
      BY <1>3, <1>5, <2>1
    <3> QED
      BY <1>4, <1>6, <1>11, <3>1 DEF RecordTells
  <2>2. CASE r \in 1..Len(records)
    BY <1>4, <1>5, <1>6, <1>10, <2>2 DEF Session, Outputs, RecordTells
  <2> QED
    BY <1>5, <2>1, <2>2
<1>13. Outputs'
  BY <1>1, <1>4, <1>6, <1>8, <1>10, <1>11, <1>12 DEF Session, Outputs
<1>14. Origins'
  BY <1>4, <1>6 DEF Session, Origins, Source
<1> QED
  BY <1>7, <1>9, <1>13, <1>14 DEF Session

\* A tool returns its output.
LEMMA RegisterKeepsSession ==
    ASSUME Session, Pairing, Attribute, Yield, NEW c \in Caller, Register(c)
    PROVE  Session'
<1>1. /\ DOMAIN pc' = Caller /\ pc'[c] = "returned" /\ pc[c] = "running"
      /\ \A d \in Caller \ {c} : pc'[d] = pc[d]
  BY OneCallMoves DEF Pairing, Register
<1>2. UNCHANGED <<setting, call, begun, verdicts, records>>
  BY DEF Register
<1>3. origin' = origin
  BY <1>2, NoVerdictNoOrigin
<1>4. PICK out \in Output : output' = [output EXCEPT ![call[c]] = out]
  <2>1. c \in {d \in Caller : pc[d] = "running" /\ pc'[d] = "returned"}
    BY <1>1
  <2>2. \A d \in {b \in Caller : pc[b] = "running" /\ pc'[b] = "returned"} : d = c
    BY <1>1
  <2> QED
    BY <2>1, <2>2 DEF Yield
<1>5. /\ call[c] \in 1..begun /\ call[c] \in Call /\ output[call[c]] = NoOutput
      /\ Vouched(call[c])
  BY <1>1, RuntimeConfig DEF Session, Numbers, Outputs, Judgements, Call
<1>6. /\ output' \in [Call -> Output \cup {NoOutput}]
      /\ output'[call[c]] = out /\ out # NoOutput
      /\ \A n \in Call \ {call[c]} : output'[n] = output[n]
  BY <1>4, <1>5, OutputConfig DEF Session, Outputs
<1>7. Numbers'
  BY <1>1, <1>2 DEF Session, Numbers
<1>8. \A n : Vouched(n)' = Vouched(n)
  BY <1>2 DEF Vouched, HasRecord
<1>9. Judgements'
  BY <1>1, <1>2, <1>8 DEF Session, Judgements
<1>10. ASSUME NEW d \in Caller \ {c}, pc[d] # "idle"
       PROVE  call[d] \in Call \ {call[c]}
  BY <1>1, <1>10, RuntimeConfig DEF Session, Numbers, Call
<1>11. ASSUME NEW r \in 1..Len(records) PROVE RecordTells(r)'
  <2>1. RecordTells(r) /\ records[r].call \in Call
    BY RuntimeConfig DEF Session, Outputs, RecordTells, Numbers, Call
  <2>2. CASE records[r].call = call[c]
    <3>1. ~records[r].executed
      BY <1>5, <2>1, <2>2 DEF RecordTells
    <3> QED
      BY <1>1, <1>2, <2>1, <2>2, <3>1 DEF RecordTells
  <2>3. CASE records[r].call # call[c]
    <3>1. output'[records[r].call] = output[records[r].call]
      BY <1>6, <2>1, <2>3
    <3>2. \A d \in Caller : pc'[d] = "returned" => d = c \/ pc[d] = "returned"
      BY <1>1
    <3>3. \A d \in Caller : pc[d] = "returned" => pc'[d] = "returned"
      BY <1>1
    <3> QED
      BY <1>2, <2>1, <2>3, <3>1, <3>2, <3>3 DEF RecordTells
  <2> QED
    BY <2>2, <2>3
<1>12. Outputs'
  <2>1. \A n \in Call : output'[n] # NoOutput => Vouched(n)
    BY <1>5, <1>6 DEF Session, Outputs
  <2>2. ASSUME NEW d \in Caller, pc'[d] = "returned" PROVE output'[call[d]] # NoOutput
    BY <1>1, <1>6, <1>10, <2>2 DEF Session, Outputs
  <2>3. ASSUME NEW d \in Caller, pc'[d] \in {"judged", "recorded", "running"}
        PROVE  output'[call[d]] = NoOutput
    BY <1>1, <1>6, <1>10, <2>3 DEF Session, Outputs
  <2> QED
    BY <1>2, <1>6, <1>8, <1>11, <2>1, <2>2, <2>3 DEF Outputs
<1>13. Origins'
  <2>1. ASSUME NEW i \in 1..Len(verdicts), verdicts[i].call # 0,
               NEW n \in origin[verdicts[i].call]
        PROVE  Source(n, i)'
    <3>1. Source(n, i) /\ n \in Call
      <4>1. verdicts[i].call \in Call
        BY <2>1, RuntimeConfig DEF Session, Judgements, Numbers, Call
      <4> QED
        BY <2>1, <4>1 DEF Session, Origins
    <3>2. n # call[c]
      BY <1>5, <3>1 DEF Source
    <3> QED
      BY <1>2, <1>6, <3>1, <3>2, SourcesStay
  <2> QED
    BY <1>2, <1>3, <2>1 DEF Session, Origins
<1> QED
  BY <1>7, <1>9, <1>12, <1>13 DEF Session

\* The call marks its record and returns.
LEMMA MarkKeepsSession ==
    ASSUME Session, Pairing, Attribute, Yield, NEW c \in Caller, Mark(c)
    PROVE  Session'
<1>1. /\ DOMAIN pc' = Caller /\ pc'[c] = "idle" /\ pc[c] = "returned"
      /\ \A d \in Caller \ {c} : pc'[d] = pc[d]
  BY OneCallMoves DEF Pairing, Mark, Ends
<1>2. UNCHANGED <<setting, call, begun, verdicts>>
  BY DEF Mark
<1>3. origin' = origin /\ output' = output
  BY <1>1, <1>2, NoVerdictNoOrigin, NoReturnNoOutput
<1>4. /\ Len(records') = Len(records)
      /\ \A r \in 1..Len(records) :
            /\ records'[r].call = records[r].call
            /\ records'[r].executed <=> (records[r].executed \/ records[r].call = call[c])
  BY MarkedRecords DEF Pairing
<1>5. Numbers'
  BY <1>1, <1>2 DEF Session, Numbers
<1>6. \A n : Vouched(n)' = Vouched(n)
  BY <1>2 DEF Vouched, HasRecord
<1>7. Judgements'
  BY <1>1, <1>2, <1>6 DEF Session, Judgements
<1>8. output[call[c]] # NoOutput
  BY <1>1 DEF Session, Outputs
<1>9. \A d \in Caller : pc'[d] = "returned" => pc[d] = "returned" /\ call[d] # call[c]
  BY <1>1 DEF Session, Numbers
<1>10. \A d \in Caller : pc[d] = "returned" => d = c \/ pc'[d] = "returned"
  BY <1>1
<1>11. ASSUME NEW r \in 1..Len(records) PROVE RecordTells(r)'
  <2>1. RecordTells(r)
    BY DEF Session, Outputs
  <2>2. CASE records[r].call = call[c]
    BY <1>2, <1>3, <1>4, <1>8, <1>9, <2>1, <2>2 DEF RecordTells
  <2>3. CASE records[r].call # call[c]
    BY <1>2, <1>3, <1>4, <1>9, <1>10, <2>1, <2>3 DEF RecordTells
  <2> QED
    BY <2>2, <2>3
<1>12. Outputs'
  BY <1>1, <1>2, <1>3, <1>4, <1>6, <1>11 DEF Session, Outputs
<1>13. Origins'
  BY <1>2, <1>3 DEF Session, Origins, Source
<1> QED
  BY <1>5, <1>7, <1>12, <1>13 DEF Session

\* What every state of a session on one thread keeps.
SessionKept == Kept /\ (OneThread => Session)

LEMMA InitSessionKept == TraceInit => SessionKept
<1> SUFFICES ASSUME TraceInit PROVE Session
  BY InitKept DEF SessionKept, TraceInit
<1>1. /\ pc = [c \in Caller |-> "idle"] /\ begun = 0 /\ verdicts = <<>> /\ records = <<>>
      /\ output = [n \in Call |-> NoOutput] /\ origin = [n \in Call |-> {}]
  BY DEF TraceInit, Init
<1>2. Len(verdicts) = 0 /\ Len(records) = 0 /\ MaxCalls \in Nat
  BY <1>1, RuntimeConfig
<1> QED
  BY <1>1, <1>2 DEF Session, Numbers, Judgements, Outputs, Origins

LEMMA NextSessionKept == SessionKept /\ [TraceNext]_traceVars => SessionKept'
<1> USE DEF posture, session, Ends
<1> SUFFICES ASSUME SessionKept, [TraceNext]_traceVars PROVE SessionKept'
  OBVIOUS
<1>1. Kept'
  BY NextKept DEF SessionKept, TraceNext, traceVars
<1>2. setting' = setting
  BY DEF TraceNext, traceVars, Next, ChangePosture, RefuseOther, Begin, Admit, await_admission,
         Evaluate, Record, Run, ToolRaises, Register, Mark, vars
<1> SUFFICES ASSUME OneThread' PROVE Session'
  BY <1>1 DEF SessionKept
<1>3. Session /\ Pairing
  BY <1>2 DEF SessionKept, Kept, OneThread
<1>4. ASSUME TraceNext, ChangePosture PROVE Session'
  <2>1. UNCHANGED <<setting, pc, call, begun, verdicts, records>>
    BY <1>4 DEF ChangePosture
  <2>2. UNCHANGED <<output, origin>>
    BY <1>4, <2>1 DEF TraceNext, Attribute, Yield
  <2> QED
    BY <1>3, <2>1, <2>2 DEF Session, Numbers, Judgements, Outputs, Origins, RecordTells,
                            Vouched, HasRecord, Source
<1>5. CASE UNCHANGED traceVars
  <2>1. UNCHANGED <<setting, pc, call, begun, verdicts, records, output, origin>>
    BY <1>5 DEF traceVars, vars
  <2> QED
    BY <1>3, <2>1 DEF Session, Numbers, Judgements, Outputs, Origins, RecordTells,
                      Vouched, HasRecord, Source
<1>6. ASSUME TraceNext, RefuseOther PROVE Session'
  BY <1>3, <1>6, RefuseOtherKeepsSession DEF TraceNext
<1>7. ASSUME TraceNext, NEW c \in Caller, Begin(c) PROVE Session'
  BY <1>3, <1>7, BeginKeepsSession DEF TraceNext
<1>8. ASSUME TraceNext, NEW c \in Caller,
             Admit(c) \/ await_admission(c) \/ Run(c) \/ ToolRaises(c)
      PROVE  Session'
  BY <1>3, <1>8, MoveKeepsSession DEF TraceNext, Admit, await_admission, Run, ToolRaises
<1>9. ASSUME TraceNext, NEW c \in Caller, Evaluate(c) PROVE Session'
  BY <1>3, <1>9, EvaluateKeepsSession DEF TraceNext
<1>10. ASSUME TraceNext, NEW c \in Caller, Record(c) PROVE Session'
  BY <1>3, <1>10, RecordKeepsSession DEF TraceNext
<1>11. ASSUME TraceNext, NEW c \in Caller, Register(c) PROVE Session'
  BY <1>3, <1>11, RegisterKeepsSession DEF TraceNext
<1>12. ASSUME TraceNext, NEW c \in Caller, Mark(c) PROVE Session'
  BY <1>3, <1>12, MarkKeepsSession DEF TraceNext
<1> QED
  BY <1>4, <1>5, <1>6, <1>7, <1>8, <1>9, <1>10, <1>11, <1>12 DEF TraceNext, Next

-----------------------------------------------------------------------------
(***************************************************************************)
(* The loop of build_trace, when the trace can be read.                    *)
(***************************************************************************)
Value == [of : Call, untrusted : BOOLEAN, derived_from : SUBSET Nat]

Decision == [allowed : BOOLEAN, driving_value_id : Nat, has_result : BOOLEAN,
             produces_value_ids : SUBSET Nat]

Built == [values : Seq(Value), calls : Seq(Decision)]

\* What the loop finds at its i-th turn: the record of the verdict's own call,
\* executed exactly if the tool returned.
Legible(i) ==
    /\ verdicts[i] \in Verdict
    /\ IF RecordOf(i) = 0 THEN verdicts[i].call = 0 \/ output[verdicts[i].call] = NoOutput
       ELSE /\ records[RecordOf(i)].call = verdicts[i].call
            /\ verdicts[i].call \in Call
            /\ records[RecordOf(i)].executed \in BOOLEAN
            /\ records[RecordOf(i)].executed <=> output[verdicts[i].call] # NoOutput

LEMMA ReadableIsLegible ==
    ASSUME SessionKept, Readable
    PROVE  /\ OneThread /\ Session /\ Pairing /\ ~Refused
           /\ Len(verdicts) \in Nat /\ DOMAIN verdicts = 1..Len(verdicts)
           /\ \A i \in 1..Len(verdicts) : Legible(i)
<1>1. OneThread /\ Session /\ Pairing /\ \A c \in Caller : pc[c] \notin {"judged", "returned"}
  BY DEF SessionKept, Kept, Readable, OneThread
<1>2. /\ verdicts \in Seq(Verdict) /\ Len(verdicts) \in Nat /\ DOMAIN verdicts = 1..Len(verdicts)
      /\ records \in Seq(Entry) /\ Len(records) \in Nat
  BY <1>1 DEF Pairing
<1>3. ~Refused /\ \A i \in 1..Len(verdicts) :
                      RecordOf(i) # 0 => records[RecordOf(i)].call = verdicts[i].call
  BY <1>1, <1>2, KeptFollow DEF SessionKept, RecordsFollowVerdicts, OneThread
<1>4. Count = Len(records)
  BY <1>3 DEF Refused, Count
<1>5. ASSUME NEW i \in 1..Len(verdicts) PROVE Legible(i)
  <2>1. /\ RecordOf(i) \in Nat /\ RecordOf(i) <= Len(records)
        /\ i \in Recorded(i) => RecordOf(i) # 0
    BY <1>2, <1>4, RecordedCounts
  <2>2. verdicts[i] \in Verdict
    BY <1>2
  <2>3. CASE RecordOf(i) = 0
    <3>1. ~HasRecord(i)
      BY <2>1, <2>3 DEF HasRecord, Recorded
    <3>2. ASSUME verdicts[i].call # 0, output[verdicts[i].call] # NoOutput PROVE FALSE
      <4>1. verdicts[i].call \in Call
        BY <1>1, <3>2, RuntimeConfig DEF Session, Judgements, Numbers, Call
      <4>2. PICK j \in 1..Len(verdicts) : verdicts[j].call = verdicts[i].call /\ HasRecord(j)
        BY <1>1, <3>2, <4>1 DEF Session, Outputs, Vouched
      <4> QED
        BY <1>1, <3>1, <3>2, <4>2 DEF Session, Judgements
    <3> QED
      BY <2>2, <2>3, <3>2 DEF Legible
  <2>4. CASE RecordOf(i) # 0
    <3>1. RecordOf(i) \in 1..Len(records)
      BY <2>1, <2>4
    <3>2. PICK r \in 1..Len(records) : r = RecordOf(i)
      BY <3>1
    <3>3. RecordTells(r) /\ records[r] \in Entry /\ records[r].call = verdicts[i].call
      BY <1>1, <1>2, <1>3, <2>4, <3>2 DEF Session, Outputs
    <3>4. records[r].call \in Call /\ records[r].executed \in BOOLEAN
      BY <1>1, <3>3, RuntimeConfig DEF RecordTells, Session, Numbers, Call, Entry
    <3>5. records[r].executed <=> output[records[r].call] # NoOutput
      BY <1>1, <3>3 DEF RecordTells
    <3> QED
      BY <2>2, <2>4, <3>2, <3>3, <3>4, <3>5 DEF Legible
  <2> QED
    BY <2>3, <2>4
<1> QED
  BY <1>1, <1>2, <1>3, <1>5

\* The trace u goes on from the trace t.
Extends(t, u) ==
    /\ Len(t.values) <= Len(u.values)
    /\ \A q \in 1..Len(t.values) : u.values[q] = t.values[q]
    /\ Len(t.calls) <= Len(u.calls)
    /\ \A j \in 1..Len(t.calls) : u.calls[j] = t.calls[j]

\* The i-th decision, e, that takes the trace from t to u.
Decides(t, u, i, e) ==
    /\ e.allowed = verdicts[i].allowed
    /\ e.has_result <=> RecordOf(i) # 0 /\ output[verdicts[i].call] # NoOutput
    /\ \A q \in e.produces_value_ids :
          /\ q \in (Len(t.values) + 1)..Len(u.values)
          /\ u.values[q].of = verdicts[i].call
          /\ u.values[q].untrusted
    /\ RecordOf(i) = 0 => e.driving_value_id = 0
    /\ RecordOf(i) # 0 =>
          /\ e.driving_value_id = Len(t.values) + 1
          /\ e.driving_value_id \in 1..Len(u.values)
          /\ origin[verdicts[i].call] # {} =>
                u.values[e.driving_value_id].derived_from = untrusted_ids(t.values)
          /\ output[verdicts[i].call] # NoOutput /\ Found(output[verdicts[i].call]) > 0 =>
                e.produces_value_ids # {}

\* Two sequences in a row.
LEMMA Concatenation ==
    ASSUME NEW S, NEW s \in Seq(S), NEW w \in Seq(S)
    PROVE  /\ s \o w \in Seq(S)
           /\ Len(s) \in Nat /\ Len(w) \in Nat /\ Len(s \o w) = Len(s) + Len(w)
           /\ \A q \in 1..Len(s) : (s \o w)[q] = s[q]
           /\ \A q \in (Len(s) + 1)..Len(s \o w) : (s \o w)[q] = w[q - Len(s)]
OBVIOUS

\* An argument is a value, linked to all untrusted ones before it if it is one.
LEMMA ArgumentIsValue ==
    ASSUME NEW n \in Call, NEW sources, NEW values \in Seq(Value)
    PROVE  /\ Argument(n, sources, values) \in Value
           /\ sources # {} =>
                 Argument(n, sources, values).derived_from = untrusted_ids(values)
<1>1. PICK d : d = IF sources = {} THEN {} ELSE untrusted_ids(values)
  OBVIOUS
<1>2. d \in SUBSET Nat
  BY <1>1 DEF untrusted_ids
<1>3. PICK b \in BOOLEAN : b = (sources # {})
  OBVIOUS
<1>4. Argument(n, sources, values) = [of |-> n, untrusted |-> b, derived_from |-> d]
  BY <1>1, <1>3 DEF Argument
<1> QED
  BY <1>1, <1>2, <1>4 DEF Value

\* The values an output holds at the declared place.
LEMMA ReadsAreValues ==
    ASSUME NEW n \in Call, output[n] \in Output
    PROVE  /\ Reads(n) \in Seq(Value) /\ Found(output[n]) \in Nat
           /\ Len(Reads(n)) = Found(output[n])
           /\ \A k \in 1..Len(Reads(n)) : Reads(n)[k].of = n /\ Reads(n)[k].untrusted
<1>1. PICK m : m = Found(output[n])
  OBVIOUS
<1>2. m \in Nat
  BY <1>1, OutputConfig DEF Found
<1>3. PICK v : v = [of |-> n, untrusted |-> TRUE, derived_from |-> {}]
  OBVIOUS
<1>4. v \in Value /\ v.of = n /\ v.untrusted
  BY <1>3 DEF Value
<1>5. PICK s : s = [k \in 1..m |-> v]
  OBVIOUS
<1>6. s \in Seq(Value) /\ Len(s) = m /\ \A k \in 1..m : s[k] = v
  <2> HIDE DEF Value
  <2>1. s \in [1..m -> Value]
    BY <1>4, <1>5
  <2> QED
    BY <1>2, <1>5, <2>1
<1>7. Reads(n) = s
  BY <1>1, <1>3, <1>5 DEF Reads
<1> QED
  BY <1>1, <1>2, <1>4, <1>6, <1>7

\* One turn of the loop.
LEMMA TurnDecides ==
    ASSUME Session, Len(verdicts) \in Nat, NEW i \in 1..Len(verdicts), Legible(i),
           NEW t \in Built
    PROVE  /\ AddCall(t, i) \in Built
           /\ Extends(t, AddCall(t, i))
           /\ Len(AddCall(t, i).calls) = Len(t.calls) + 1
           /\ Decides(t, AddCall(t, i), i, AddCall(t, i).calls[Len(t.calls) + 1])
<1>1. PICK r, n : r = RecordOf(i) /\ n = verdicts[i].call
  OBVIOUS
<1>2. t.values \in Seq(Value) /\ t.calls \in Seq(Decision)
  BY DEF Built
<1>3. verdicts[i].allowed \in BOOLEAN
  BY DEF Legible, Verdict
<1>4. r # 0 => /\ records[r].call = n /\ n \in Call
               /\ (Executed(r) <=> output[n] # NoOutput)
               /\ (output[n] # NoOutput => output[n] \in Output)
  BY <1>1 DEF Legible, Executed, Session, Outputs
<1>5. PICK argument : argument = IF r = 0 THEN <<>> ELSE <<Argument(n, origin[n], t.values)>>
  OBVIOUS
<1>6. /\ argument \in Seq(Value) /\ Len(argument) = IF r = 0 THEN 0 ELSE 1
      /\ r # 0 /\ origin[n] # {} => argument[1].derived_from = untrusted_ids(t.values)
  <2>1. CASE r = 0
    BY <1>5, <2>1
  <2>2. CASE r # 0
    <3>1. PICK a : a = Argument(n, origin[n], t.values)
      OBVIOUS
    <3>2. a \in Value /\ (origin[n] # {} => a.derived_from = untrusted_ids(t.values))
      BY <1>2, <1>4, <2>2, <3>1, ArgumentIsValue
    <3>3. argument = <<a>>
      BY <1>5, <2>2, <3>1
    <3> HIDE DEF Value
    <3> QED
      BY <2>2, <3>2, <3>3
  <2> QED
    BY <2>1, <2>2
<1>7. PICK bound : bound = t.values \o argument
  OBVIOUS
<1>8. /\ bound \in Seq(Value) /\ Len(t.values) \in Nat
      /\ Len(bound) \in Nat /\ Len(t.values) <= Len(bound)
      /\ Len(bound) = Len(t.values) + IF r = 0 THEN 0 ELSE 1
      /\ \A q \in 1..Len(t.values) : bound[q] = t.values[q]
      /\ r # 0 => bound[Len(t.values) + 1] = argument[1]
  <2>1. /\ bound \in Seq(Value) /\ Len(t.values) \in Nat /\ Len(argument) \in Nat
        /\ Len(bound) = Len(t.values) + Len(argument)
        /\ \A q \in 1..Len(t.values) : bound[q] = t.values[q]
        /\ \A q \in (Len(t.values) + 1)..Len(bound) : bound[q] = argument[q - Len(t.values)]
    BY <1>2, <1>6, <1>7, Concatenation
  <2>2. ASSUME r # 0 PROVE bound[Len(t.values) + 1] = argument[1]
    <3>1. Len(t.values) + 1 \in (Len(t.values) + 1)..Len(bound)
      BY <1>6, <2>1, <2>2
    <3>2. (Len(t.values) + 1) - Len(t.values) = 1
      BY <2>1
    <3> QED
      BY <2>1, <3>1, <3>2
  <2>3. Len(bound) \in Nat /\ Len(t.values) <= Len(bound)
    <3>1. PICK m \in Nat, k \in Nat : m = Len(t.values) /\ k = Len(argument)
      BY <2>1
    <3>2. m + k \in Nat /\ m <= m + k
      OBVIOUS
    <3> QED
      BY <2>1, <3>1, <3>2
  <2> QED
    BY <1>6, <2>1, <2>2, <2>3
<1>9. PICK reads : reads = IF Executed(r) THEN Reads(n) ELSE <<>>
  OBVIOUS
<1>10. /\ reads \in Seq(Value) /\ Len(reads) \in Nat
       /\ \A k \in 1..Len(reads) : reads[k].of = n /\ reads[k].untrusted
       /\ r # 0 /\ output[n] # NoOutput => Len(reads) = Found(output[n])
  <2>1. CASE Executed(r)
    <3>1. r # 0
      BY <2>1 DEF Executed
    <3> QED
      BY <1>4, <1>9, <2>1, <3>1, ReadsAreValues
  <2>2. CASE ~Executed(r)
    BY <1>4, <1>9, <2>2
  <2> QED
    BY <2>1, <2>2
<1>11. PICK values : values = bound \o reads
  OBVIOUS
<1>12. /\ values \in Seq(Value) /\ Len(values) = Len(bound) + Len(reads)
       /\ \A q \in 1..Len(bound) : values[q] = bound[q]
       /\ \A q \in (Len(bound) + 1)..Len(values) : values[q].of = n /\ values[q].untrusted
  <2>1. /\ values \in Seq(Value) /\ Len(values) = Len(bound) + Len(reads)
        /\ Len(bound) \in Nat
        /\ \A q \in 1..Len(bound) : values[q] = bound[q]
        /\ \A q \in (Len(bound) + 1)..Len(values) : values[q] = reads[q - Len(bound)]
    <3>1. bound \in Seq(Value) /\ reads \in Seq(Value)
      BY <1>8, <1>10
    <3> QED
      BY <1>11, <3>1, Concatenation
  <2>2. \A q \in (Len(bound) + 1)..Len(values) : q - Len(bound) \in 1..Len(reads)
    BY <1>10, <2>1
  <2> QED
    BY <1>10, <2>1, <2>2
<1>27. /\ Len(values) \in Nat /\ Len(bound) <= Len(values) /\ Len(t.values) <= Len(values)
       /\ (Len(bound) + 1)..Len(values) \subseteq (Len(t.values) + 1)..Len(values)
       /\ (Len(bound) + 1)..Len(values) \subseteq Nat
       /\ 1..Len(t.values) \subseteq 1..Len(bound)
  <2>1. PICK m \in Nat, k \in Nat, l \in Nat :
           m = Len(t.values) /\ k = Len(bound) /\ l = Len(reads)
    BY <1>8, <1>10
  <2>2. Len(values) = k + l /\ m <= k
    BY <1>8, <1>12, <2>1
  <2>3. /\ k + l \in Nat /\ k <= k + l /\ m <= k + l
        /\ (k + 1)..(k + l) \subseteq (m + 1)..(k + l)
        /\ (k + 1)..(k + l) \subseteq Nat /\ 1..m \subseteq 1..k
    BY <2>2
  <2> QED
    BY <2>1, <2>2, <2>3
<1>13. values = IF Executed(r) THEN bound \o Reads(records[r].call) ELSE bound
  <2>1. CASE Executed(r)
    <3>1. r # 0
      BY <2>1 DEF Executed
    <3> QED
      BY <1>4, <1>9, <1>11, <2>1, <3>1
  <2>2. CASE ~Executed(r)
    <3>1. bound \o <<>> = bound
      <4> HIDE DEF Value
      <4> QED
        BY <1>8
    <3> QED
      BY <1>9, <1>11, <2>2, <3>1
  <2> QED
    BY <2>1, <2>2
<1>14. argument = IF r = 0 THEN <<>>
                  ELSE <<Argument(records[r].call, origin[verdicts[i].call], t.values)>>
  BY <1>1, <1>4, <1>5
<1>15. PICK b \in BOOLEAN : b = Executed(r)
  BY DEF Executed
<1>16. PICK v \in Nat : v = driving_value_id(r, bound)
  BY <1>8 DEF driving_value_id
<1>17. PICK p \in SUBSET Nat : p = (Len(bound) + 1)..Len(values)
  <2>1. (Len(bound) + 1)..Len(values) \in SUBSET Nat
    BY <1>27
  <2> QED
    BY <2>1
<1>18. PICK e : e = [allowed |-> verdicts[i].allowed, driving_value_id |-> v,
                     has_result |-> b, produces_value_ids |-> p]
  OBVIOUS
<1>19. /\ e \in Decision /\ e.allowed = verdicts[i].allowed /\ e.driving_value_id = v /\ e.has_result = b
       /\ e.produces_value_ids = p
  BY <1>3, <1>18 DEF Decision
<1>20. PICK u : u = AddCall(t, i)
  OBVIOUS
<1>21. u = [values |-> values, calls |-> Append(t.calls, e)]
  BY <1>1, <1>7, <1>13, <1>14, <1>15, <1>16, <1>17, <1>18, <1>20 DEF AddCall
<1>22. PICK calls : calls = Append(t.calls, e)
  OBVIOUS
<1>23. /\ calls \in Seq(Decision) /\ Len(t.calls) \in Nat /\ Len(calls) = Len(t.calls) + 1
       /\ calls[Len(t.calls) + 1] = e
       /\ \A j \in 1..Len(t.calls) : calls[j] = t.calls[j]
  BY <1>2, <1>19, <1>22, AppendMembers
<1>24. u.values = values /\ u.calls = calls /\ u \in Built
  BY <1>12, <1>21, <1>22, <1>23 DEF Built
<1>25. Extends(t, u)
  <2>1. \A q \in 1..Len(t.values) : values[q] = t.values[q]
    BY <1>8, <1>12, <1>27
  <2> QED
    BY <1>23, <1>24, <1>27, <2>1 DEF Extends
<1>26. Decides(t, u, i, e)
  <2>1. e.has_result <=> RecordOf(i) # 0 /\ output[verdicts[i].call] # NoOutput
    <3>1. r = 0 => ~Executed(r)
      BY DEF Executed
    <3>2. Executed(r) <=> r # 0 /\ output[n] # NoOutput
      BY <1>4, <3>1
    <3>3. e.has_result <=> Executed(r)
      BY <1>15, <1>19
    <3> QED
      BY <1>1, <3>2, <3>3
  <2>2. \A q \in e.produces_value_ids :
          /\ q \in (Len(t.values) + 1)..Len(u.values)
          /\ u.values[q].of = verdicts[i].call
          /\ u.values[q].untrusted
    <3>1. \A q \in p : q \in (Len(bound) + 1)..Len(values) /\ q \in (Len(t.values) + 1)..Len(values)
      BY <1>17, <1>27
    <3> QED
      BY <1>1, <1>12, <1>19, <1>24, <3>1
  <2>3. RecordOf(i) = 0 => e.driving_value_id = 0
    BY <1>1, <1>16, <1>19 DEF driving_value_id
  <2>4. ASSUME RecordOf(i) # 0
        PROVE  /\ e.driving_value_id = Len(t.values) + 1
               /\ e.driving_value_id \in 1..Len(u.values)
    BY <1>1, <1>8, <1>10, <1>12, <1>16, <1>19, <1>24, <2>4 DEF driving_value_id
  <2>5. ASSUME RecordOf(i) # 0, origin[verdicts[i].call] # {}
        PROVE  u.values[e.driving_value_id].derived_from = untrusted_ids(t.values)
    <3>1. Len(t.values) + 1 \in 1..Len(bound)
      BY <1>1, <1>8, <2>5
    <3>2. u.values[e.driving_value_id] = argument[1]
      BY <1>1, <1>8, <1>12, <1>24, <2>4, <2>5, <3>1
    <3> QED
      BY <1>1, <1>6, <2>5, <3>2
  <2>6. ASSUME RecordOf(i) # 0, output[verdicts[i].call] # NoOutput,
               Found(output[verdicts[i].call]) > 0
        PROVE  e.produces_value_ids # {}
    <3>1. Len(reads) > 0
      BY <1>1, <1>10, <2>6
    <3>2. Len(bound) + 1 \in p
      BY <1>8, <1>10, <1>12, <1>17, <3>1
    <3> QED
      BY <1>19, <3>2
  <2> QED
    BY <1>19, <2>1, <2>2, <2>3, <2>4, <2>5, <2>6 DEF Decides
<1> QED
  BY <1>20, <1>23, <1>24, <1>25, <1>26

\* The trace before the first turn.
Blank == [values |-> <<>>, calls |-> <<>>]

\* The trace turn by turn.
LEMMA TurnsSteps ==
    ASSUME SessionKept, Readable
    PROVE  /\ Turns[0] = Blank
           /\ \A i \in 1..Len(verdicts) : Turns[i] = AddCall(Turns[i - 1], i)
<1> DEFINE L == Len(verdicts)
<1>1. Session /\ L \in Nat /\ \A i \in 1..L : Legible(i)
  BY ReadableIsLegible
<1> DEFINE step == [x \in Nat \X Built |->
                      IF x[1] + 1 <= L THEN AddCall(x[2], x[1] + 1) ELSE x[2]]
<1>2. step \in [Nat \X Built -> Built]
  <2>1. ASSUME NEW x \in Nat \X Built
        PROVE  (IF x[1] + 1 <= L THEN AddCall(x[2], x[1] + 1) ELSE x[2]) \in Built
    <3>1. PICK k, t : k = x[1] + 1 /\ t = x[2]
      OBVIOUS
    <3>2. k \in Nat /\ k >= 1 /\ t \in Built
      BY <3>1
    <3>3. ASSUME k <= L PROVE AddCall(t, k) \in Built
      <4>1. k \in 1..L
        BY <1>1, <3>2, <3>3
      <4> QED
        BY <1>1, <3>2, <4>1, TurnDecides
    <3> QED
      BY <3>1, <3>2, <3>3
  <2> QED
    BY <2>1
<1>3. \A n \in Nat, t \in Built :
        step[<<n, t>>] = IF n + 1 <= L THEN AddCall(t, n + 1) ELSE t
  OBVIOUS
<1>4. Blank \in Built
  <2>1. <<>> \in Seq(Value) /\ <<>> \in Seq(Decision)
    OBVIOUS
  <2> QED
    BY <2>1 DEF Blank, Built
<1> HIDE DEF step
<1>5. PICK g : Recurs(g, Built, Blank, step)
  BY <1>2, <1>4, Recursion
<1> DEFINE Follows(f) == f = [i \in 0..L |-> IF i = 0 THEN Blank ELSE AddCall(f[i - 1], i)]
<1> DEFINE h == [i \in 0..L |-> g[i]]
<1>6. Follows(h)
  <2>1. ASSUME NEW i \in 0..L
        PROVE  h[i] = IF i = 0 THEN Blank ELSE AddCall(h[i - 1], i)
    <3>1. CASE i = 0
      BY <1>5, <3>1 DEF Recurs
    <3>2. CASE i # 0
      <4>1. PICK n \in Nat : i = n + 1 /\ i - 1 = n
        BY <1>1, <3>2
      <4>2. g[n] \in Built /\ g[n + 1] = step[<<n, g[n]>>]
        BY <1>5, <4>1 DEF Recurs
      <4>3. n + 1 <= L /\ n \in 0..L
        BY <1>1, <4>1
      <4>4. g[n + 1] = AddCall(g[n], n + 1)
        BY <1>3, <4>1, <4>2, <4>3
      <4>5. h[n] = g[n] /\ h[i] = g[n + 1]
        BY <4>1, <4>3
      <4> QED
        BY <3>2, <4>1, <4>4, <4>5
    <3> QED
      BY <3>1, <3>2
  <2>2. h = [i \in 0..L |-> h[i]]
    OBVIOUS
  <2> HIDE DEF h
  <2> QED
    BY <2>1, <2>2
<1>7. Turns = CHOOSE f : Follows(f)
  BY DEF Turns, Blank
<1> HIDE DEF h
<1>8. Follows(Turns)
  <2> HIDE DEF Follows
  <2> QED
    BY <1>6, <1>7
<1>9. \A i \in 0..L : Turns[i] = IF i = 0 THEN Blank ELSE AddCall(Turns[i - 1], i)
  BY <1>8
<1> QED
  BY <1>1, <1>9

\* After k turns: so many decisions, and all the earlier traces in it.
Grown(k) ==
    /\ Turns[k] \in Built
    /\ Len(Turns[k].calls) = k
    /\ \A i \in 0..k : Extends(Turns[i], Turns[k])

LEMMA ExtendsOn ==
    ASSUME NEW s \in Built, NEW t \in Built, NEW u \in Built, Extends(s, t), Extends(t, u)
    PROVE  Extends(s, u)
<1>1. PICK a \in Nat, b \in Nat, c \in Nat :
        a = Len(s.values) /\ b = Len(t.values) /\ c = Len(u.values)
  BY DEF Built
<1>2. PICK k \in Nat, l \in Nat, m \in Nat :
        k = Len(s.calls) /\ l = Len(t.calls) /\ m = Len(u.calls)
  BY DEF Built
<1> QED
  BY <1>1, <1>2 DEF Extends

LEMMA ExtendsSelf ==
    ASSUME NEW t \in Built
    PROVE  Extends(t, t)
<1>1. Len(t.values) \in Nat /\ Len(t.calls) \in Nat
  BY DEF Built
<1> QED
  BY <1>1 DEF Extends

LEMMA TurnsGrow ==
    ASSUME SessionKept, Readable
    PROVE  /\ \A k \in 0..Len(verdicts) : Grown(k)
           /\ \A i \in 1..Len(verdicts) :
                 Decides(Turns[i - 1], Turns[i], i, Turns[i].calls[i])
<1> DEFINE L == Len(verdicts)
<1>1. Session /\ L \in Nat /\ \A i \in 1..L : Legible(i)
  BY ReadableIsLegible
<1>2. Turns[0] = Blank /\ \A i \in 1..L : Turns[i] = AddCall(Turns[i - 1], i)
  BY TurnsSteps
<1>3. ASSUME NEW i \in 1..L, \A j \in 0..(i - 1) : Grown(j)
      PROVE  Grown(i) /\ Decides(Turns[i - 1], Turns[i], i, Turns[i].calls[i])
  <2>1. PICK t, u, k : t = Turns[i - 1] /\ u = Turns[i] /\ k = i - 1
    OBVIOUS
  <2>2. /\ t \in Built /\ Len(t.calls) = k /\ u = AddCall(t, i) /\ k \in Nat /\ k + 1 = i
        /\ \A j \in 0..k : Turns[j] \in Built /\ Extends(Turns[j], t)
    BY <1>1, <1>2, <1>3, <2>1 DEF Grown
  <2>3. /\ u \in Built /\ Extends(t, u) /\ Len(u.calls) = i
        /\ Decides(t, u, i, u.calls[i])
    BY <1>1, <2>2, TurnDecides
  <2>4. ASSUME NEW j \in 0..i PROVE Extends(Turns[j], u)
    <3>1. CASE j = i
      BY <2>1, <2>3, <3>1, ExtendsSelf
    <3>2. CASE j # i
      <4>1. j \in 0..k
        BY <2>2, <3>2
      <4>2. PICK s : s = Turns[j]
        OBVIOUS
      <4>3. s \in Built
        BY <2>2, <4>1, <4>2
      <4> QED
        BY <2>2, <2>3, <4>1, <4>2, <4>3, ExtendsOn
    <3> QED
      BY <3>1, <3>2
  <2> QED
    BY <2>1, <2>3, <2>4 DEF Grown
<1> DEFINE T == {k \in Nat : k <= L => \A j \in 0..k : Grown(j)}
<1>4. Nat \subseteq T
  <2>1. 0 \in T
    <3>1. Blank \in Built
      <4>1. <<>> \in Seq(Value) /\ <<>> \in Seq(Decision)
        OBVIOUS
      <4> QED
        BY <4>1 DEF Blank, Built
    <3>2. Grown(0)
      <4>1. Len(Blank.calls) = 0
        BY DEF Blank
      <4>2. \A i \in 0..0 : i = 0
        OBVIOUS
      <4> QED
        BY <1>2, <3>1, <4>1, <4>2, ExtendsSelf DEF Grown
    <3> QED
      BY <3>2
  <2>2. ASSUME NEW n \in Nat, n \in T PROVE n + 1 \in T
    <3> SUFFICES ASSUME n + 1 <= L PROVE \A j \in 0..(n + 1) : Grown(j)
      OBVIOUS
    <3>1. \A j \in 0..n : Grown(j)
      BY <1>1, <2>2
    <3>2. PICK i \in 1..L : i = n + 1 /\ i - 1 = n
      BY <1>1
    <3>3. Grown(i)
      BY <1>3, <3>1, <3>2
    <3> QED
      BY <3>1, <3>2, <3>3
  <2> HIDE DEF T
  <2> QED
    BY <2>1, <2>2, Induction
<1>5. ASSUME NEW k \in 0..L PROVE Grown(k)
  BY <1>1, <1>4
<1>6. ASSUME NEW i \in 1..L PROVE Decides(Turns[i - 1], Turns[i], i, Turns[i].calls[i])
  <2>1. 0..(i - 1) \subseteq 0..L
    BY <1>1
  <2> QED
    BY <1>3, <1>5, <2>1
<1> QED
  BY <1>5, <1>6

\* What can be read is the trace of all turns, each decision as its turn left it.
LEMMA TraceDecides ==
    ASSUME SessionKept, Readable
    PROVE  /\ Trace \in Built /\ Len(Trace.calls) = Len(verdicts)
           /\ \A i \in 1..Len(verdicts) :
                 /\ Turns[i - 1] \in Built /\ Turns[i] \in Built
                 /\ Extends(Turns[i], Trace)
                 /\ Decides(Turns[i - 1], Turns[i], i, Trace.calls[i])
                 /\ \A j \in 1..(i - 1) : Extends(Turns[j], Turns[i - 1])
<1>1. Len(verdicts) \in Nat
  BY ReadableIsLegible
<1>2. Trace = Turns[Len(verdicts)] /\ Grown(Len(verdicts))
  BY <1>1, TurnsGrow DEF Trace
<1>3. ASSUME NEW i \in 1..Len(verdicts)
      PROVE  /\ Turns[i - 1] \in Built /\ Turns[i] \in Built
             /\ Extends(Turns[i], Trace)
             /\ Decides(Turns[i - 1], Turns[i], i, Trace.calls[i])
             /\ \A j \in 1..(i - 1) : Extends(Turns[j], Turns[i - 1])
  <2>1. i \in 0..Len(verdicts) /\ i - 1 \in 0..Len(verdicts)
    BY <1>1
  <2>2. Grown(i) /\ Grown(i - 1) /\ Extends(Turns[i], Trace)
    BY <1>2, <2>1, TurnsGrow DEF Grown
  <2>3. Len(Turns[i].calls) = i
    BY <2>2 DEF Grown
  <2>4. Trace.calls[i] = Turns[i].calls[i]
    <3>1. i \in 1..Len(Turns[i].calls)
      BY <1>1, <2>3
    <3> QED
      BY <2>2, <3>1 DEF Extends
  <2>5. Decides(Turns[i - 1], Turns[i], i, Turns[i].calls[i])
    BY TurnsGrow
  <2>6. \A j \in 1..(i - 1) : Extends(Turns[j], Turns[i - 1])
    BY <2>1, <2>2 DEF Grown
  <2> QED
    BY <2>2, <2>4, <2>5, <2>6 DEF Grown
<1> QED
  BY <1>2, <1>3 DEF Grown

-----------------------------------------------------------------------------
(***************************************************************************)
(* The theorems                                                            *)
(***************************************************************************)
LEMMA KeptResult == SessionKept => ResultMeansReturned
<1> SUFFICES ASSUME SessionKept, Readable
             PROVE  /\ ~Refused
                    /\ \A i \in DOMAIN verdicts :
                          Trace.calls[i].has_result <=>
                             verdicts[i].call # 0 /\ output[verdicts[i].call] # NoOutput
  BY DEF ResultMeansReturned
<1>1. ~Refused /\ DOMAIN verdicts = 1..Len(verdicts) /\ \A i \in 1..Len(verdicts) : Legible(i)
  BY ReadableIsLegible
<1>2. ASSUME NEW i \in 1..Len(verdicts)
      PROVE  Trace.calls[i].has_result <=>
                verdicts[i].call # 0 /\ output[verdicts[i].call] # NoOutput
  <2>1. Trace.calls[i].has_result <=> RecordOf(i) # 0 /\ output[verdicts[i].call] # NoOutput
    BY TraceDecides DEF Decides
  <2>2. RecordOf(i) = 0 => verdicts[i].call = 0 \/ output[verdicts[i].call] = NoOutput
    BY <1>1 DEF Legible
  <2>3. RecordOf(i) # 0 => verdicts[i].call # 0
    BY <1>1 DEF Legible, Call
  <2> QED
    BY <2>1, <2>2, <2>3
<1> QED
  BY <1>1, <1>2

\* The outputs the loop finds all of what their manifest declares: no tool
\* declares its bare return, which _strip_result loses (trace.py:240).
NoneWhole == \A out \in Output : out.pattern # "result"

LEMMA KeptLineage == NoneWhole /\ SessionKept => LineageIsComplete
<1> SUFFICES ASSUME NoneWhole, SessionKept, Readable,
                    NEW i \in DOMAIN verdicts, Trace.calls[i].driving_value_id # 0,
                    NEW n \in origin[verdicts[i].call], HoldsDeclared(output[n])
             PROVE  /\ ReadsOf(n) # {}
                    /\ ReadsOf(n) \subseteq
                          Trace.values[Trace.calls[i].driving_value_id].derived_from
  BY DEF LineageIsComplete
<1>1. /\ Session /\ Len(verdicts) \in Nat /\ i \in 1..Len(verdicts)
      /\ \A j \in 1..Len(verdicts) : Legible(j)
  BY ReadableIsLegible
<1>2. PICK e, t, u : e = Trace.calls[i] /\ t = Turns[i - 1] /\ u = Turns[i]
  OBVIOUS
<1>3. /\ t \in Built /\ u \in Built /\ Trace \in Built /\ Len(Trace.calls) = Len(verdicts)
      /\ Extends(u, Trace) /\ Decides(t, u, i, e)
      /\ \A j \in 1..(i - 1) : Extends(Turns[j], t)
  BY <1>1, <1>2, TraceDecides
<1>4. RecordOf(i) # 0 /\ verdicts[i].call \in Call /\ origin[verdicts[i].call] # {}
  BY <1>1, <1>2, <1>3 DEF Decides, Legible
<1>5. Trace.values[e.driving_value_id].derived_from = untrusted_ids(t.values)
  BY <1>3, <1>4 DEF Decides, Extends
<1>6. n \in Call /\ Source(n, i)
  BY <1>1, <1>4, RuntimeConfig DEF Session, Origins, Call
<1>7. PICK j \in 1..(i - 1) : verdicts[j].call = n
  BY <1>6 DEF Source
<1>8. j \in 1..Len(verdicts) /\ RecordOf(j) # 0
  BY <1>1, <1>6, <1>7, RuntimeConfig DEF Legible, Source, Call
<1>9. PICK s, w, d : s = Turns[j] /\ w = Turns[j - 1] /\ d = Trace.calls[j]
  OBVIOUS
<1>10. /\ s \in Built /\ Extends(s, Trace) /\ Extends(s, t) /\ w \in Built
       /\ Decides(w, s, j, d)
  BY <1>3, <1>7, <1>8, <1>9, TraceDecides
<1>11. Found(output[n]) > 0
  <2>1. output[n] \in Output
    BY <1>1, <1>6 DEF Session, Outputs, Source
  <2> QED
    BY <1>6, <2>1 DEF HoldsDeclared, NoneWhole, Found, Source
<1>12. DOMAIN Trace.values = 1..Len(Trace.values) /\ DOMAIN Trace.calls = 1..Len(verdicts)
  BY <1>3 DEF Built
<1>13. PICK a \in Nat, b \in Nat, c \in Nat, z \in Nat :
         a = Len(w.values) /\ b = Len(s.values) /\ c = Len(t.values) /\ z = Len(Trace.values)
  BY <1>3, <1>10 DEF Built
<1>14. b <= c /\ b <= z
  BY <1>10, <1>13 DEF Extends
<1>15. ReadsOf(n) # {}
  <2>1. PICK q \in d.produces_value_ids : q \in (a + 1)..b /\ s.values[q].of = n
    BY <1>6, <1>7, <1>8, <1>10, <1>11, <1>13 DEF Decides, Source
  <2>2. q \in 1..b /\ q \in 1..z
    BY <1>14, <2>1
  <2>3. Trace.values[q].of = n
    BY <1>10, <1>13, <2>1, <2>2 DEF Extends
  <2>4. q \in ReadsOf(n)
    BY <1>8, <1>9, <1>12, <1>13, <2>1, <2>2, <2>3 DEF ReadsOf
  <2> QED
    BY <2>4
<1>16. ASSUME NEW q \in ReadsOf(n) PROVE q \in untrusted_ids(t.values)
  <2>1. PICK m \in 1..Len(verdicts) : q \in Trace.calls[m].produces_value_ids
    BY <1>12, <1>16 DEF ReadsOf
  <2>2. Trace.values[q].of = n
    BY <1>16 DEF ReadsOf
  <2>3. PICK x, y, f : x = Turns[m - 1] /\ y = Turns[m] /\ f = Trace.calls[m]
    OBVIOUS
  <2>4. x \in Built /\ y \in Built /\ Extends(y, Trace) /\ Decides(x, y, m, f)
    BY <2>1, <2>3, TraceDecides
  <2>5. PICK k \in Nat, l \in Nat : k = Len(x.values) /\ l = Len(y.values)
    BY <2>4 DEF Built
  <2>6. q \in 1..l /\ y.values[q].of = verdicts[m].call /\ y.values[q].untrusted
    BY <2>1, <2>3, <2>4, <2>5 DEF Decides
  <2>7. Trace.values[q] = y.values[q]
    BY <2>4, <2>5, <2>6 DEF Extends
  <2>8. m = j
    <3>1. verdicts[m].call = verdicts[j].call /\ verdicts[m].call # 0
      BY <1>6, <1>7, <2>2, <2>6, <2>7, RuntimeConfig DEF Call
    <3> QED
      BY <1>1, <1>8, <2>1, <3>1 DEF Session, Judgements
  <2>9. l = b /\ y = s
    BY <1>9, <1>13, <2>3, <2>5, <2>8
  <2>10. q \in 1..c /\ t.values[q] = s.values[q]
    BY <1>10, <1>13, <1>14, <2>6, <2>9 DEF Extends
  <2>11. DOMAIN t.values = 1..c
    BY <1>3, <1>13 DEF Built
  <2> QED
    BY <2>6, <2>9, <2>10, <2>11 DEF untrusted_ids
<1> QED
  BY <1>2, <1>5, <1>15, <1>16

\* On one thread the trace gives a decision a result exactly if its own call's
\* tool returned, for nested, denied and streamed calls alike, at any moment the
\* trace can be read (tests/test_trace_v1.py:151-155, trace.py:336-438).
THEOREM ResultsAreReturned == TraceSpec => []ResultMeansReturned
BY InitSessionKept, NextSessionKept, KeptResult, PTL DEF TraceSpec

\* A tainted argument is linked to the values of every output it derives from
\* and that held any declared field, whatever order the calls came back in
\* (trace.py:218-221, 411-438).
THEOREM LineageMissesNothing == NoneWhole => (TraceSpec => []LineageIsComplete)
<1>1. SUFFICES ASSUME NoneWhole PROVE TraceSpec => []LineageIsComplete
  OBVIOUS
<1>2. SessionKept => LineageIsComplete
  BY <1>1, KeptLineage
<1> QED
  BY <1>2, InitSessionKept, NextSessionKept, PTL DEF TraceSpec

-----------------------------------------------------------------------------
(***************************************************************************)
(* The feed and its two consumers                                          *)
(***************************************************************************)
VerdictKind == {"INTENT_APPROVED", "INTENT_TRANSFORMED", "INTENT_DENIED"}

FeedKind == VerdictKind \cup {"TAINT_PROPAGATED"} \cup {h.kind : h \in Happening}

FeedItem == [kind : FeedKind, marked : BOOLEAN, call : Int]

\* The j-th event says that call n returned something untrusted.
Taints(j, n) == feed[j].kind = "TAINT_PROPAGATED" /\ feed[j].call = n

\* The i-th event is the verdict of its number.
Reports(i) == feed[i] = VerdictEvent(verdicts[Number(i)])

\* Each source of the i-th event's argument is in the feed before it.
Sourced(i) ==
    feed[i].call # 0 =>
        \A n \in origin[feed[i].call] : \E j \in 1..(i - 1) : Taints(j, n)

\* The feed holds the verdicts in order, and each untrusted output before any
\* verdict whose argument derives from it.
Feeds ==
    /\ feed \in Seq(FeedItem)
    /\ Cardinality(verdict_events(feed)) = Len(verdicts)
    /\ \A i \in verdict_events(feed) : Reports(i) /\ Sourced(i)
    /\ \A i \in 1..Len(verdicts) : verdicts[i].call = 0 => ~verdicts[i].allowed
    /\ \A n \in Call : output[n] # NoOutput /\ output[n].pattern # "none" =>
          \E j \in 1..Len(feed) : Taints(j, n)

\* Verdict events are counted in order.
LEMMA NumberCounts ==
    ASSUME feed \in Seq(FeedItem)
    PROVE  /\ IsFiniteSet(verdict_events(feed))
           /\ verdict_events(feed) \subseteq 1..Len(feed)
           /\ Cardinality(verdict_events(feed)) \in Nat
           /\ \A i \in verdict_events(feed) :
                 Number(i) \in 1..Cardinality(verdict_events(feed))
<1>1. Len(feed) \in Nat /\ verdict_events(feed) \subseteq 1..Len(feed)
  BY DEF verdict_events
<1>2. IsFiniteSet(verdict_events(feed))
  <2>1. IsFiniteSet(1..Len(feed))
    BY <1>1, FS_Interval
  <2> QED
    BY <1>1, <2>1, FS_Subset
<1>3. ASSUME NEW i \in verdict_events(feed)
      PROVE  Number(i) \in 1..Cardinality(verdict_events(feed))
  <2>1. PICK S : S = {j \in verdict_events(feed) : j <= i}
    OBVIOUS
  <2>2. S \subseteq verdict_events(feed) /\ i \in S
    BY <1>1, <2>1
  <2>3. /\ IsFiniteSet(S) /\ Cardinality(S) \in Nat
        /\ Cardinality(S) <= Cardinality(verdict_events(feed))
        /\ Cardinality(S) # 0
    BY <1>2, <2>2, FS_Subset, FS_CardinalityType, FS_EmptySet
  <2>4. Cardinality(verdict_events(feed)) \in Nat
    BY <1>2, FS_CardinalityType
  <2> QED
    BY <2>1, <2>3, <2>4 DEF Number
<1> QED
  BY <1>1, <1>2, <1>3, FS_CardinalityType

\* One more event.
LEMMA OneMoreEvent ==
    ASSUME feed \in Seq(FeedItem), NEW x \in FeedItem, feed' = Append(feed, x),
           NEW k, k = Len(feed) + 1
    PROVE  /\ feed' \in Seq(FeedItem) /\ Len(feed) \in Nat /\ Len(feed') = k
           /\ feed'[k] = x /\ \A i \in 1..Len(feed) : feed'[i] = feed[i]
           /\ \A i \in verdict_events(feed) : Number(i)' = Number(i)
           /\ IF x.kind \in VerdictKind
              THEN /\ verdict_events(feed') = verdict_events(feed) \cup {k}
                   /\ Cardinality(verdict_events(feed')) = Cardinality(verdict_events(feed)) + 1
                   /\ Number(k)' = Cardinality(verdict_events(feed)) + 1
              ELSE verdict_events(feed') = verdict_events(feed)
<1>1. /\ feed' \in Seq(FeedItem) /\ Len(feed) \in Nat /\ Len(feed') = k
      /\ feed'[k] = x /\ \A i \in 1..Len(feed) : feed'[i] = feed[i]
  BY AppendMembers
<1>2. DOMAIN feed = 1..Len(feed) /\ DOMAIN feed' = 1..k /\ k \in Nat
  BY <1>1
<1>3. \A i \in 1..k : i \in 1..Len(feed) \/ i = k
  BY <1>1
<1>4. verdict_events(feed') =
         verdict_events(feed) \cup (IF x.kind \in VerdictKind THEN {k} ELSE {})
  BY <1>1, <1>2, <1>3 DEF verdict_events, VerdictKind
<1>5. verdict_events(feed) \subseteq 1..Len(feed) /\ IsFiniteSet(verdict_events(feed))
  BY NumberCounts
<1>6. ASSUME NEW i \in verdict_events(feed) PROVE Number(i)' = Number(i)
  <2>1. i \in 1..Len(feed) /\ ~(k <= i)
    BY <1>1, <1>5
  <2>2. {j \in verdict_events(feed') : j <= i} = {j \in verdict_events(feed) : j <= i}
    BY <1>4, <2>1
  <2> QED
    BY <2>2 DEF Number
<1>7. CASE x.kind \in VerdictKind
  <2>1. k \notin verdict_events(feed)
    BY <1>1, <1>5
  <2>2. Cardinality(verdict_events(feed')) = Cardinality(verdict_events(feed)) + 1
    BY <1>4, <1>5, <1>7, <2>1, FS_AddElement
  <2>3. {j \in verdict_events(feed') : j <= k} = verdict_events(feed')
    BY <1>1, <1>4, <1>5, <1>7
  <2>4. Number(k)' = Cardinality(verdict_events(feed'))
    BY <2>3 DEF Number
  <2> QED
    BY <1>1, <1>4, <1>6, <1>7, <2>2, <2>4
<1>8. CASE x.kind \notin VerdictKind
  BY <1>1, <1>4, <1>6, <1>8
<1> QED
  BY <1>7, <1>8

\* An event that is no verdict.
LEMMA OtherEventFeeds ==
    ASSUME Feeds, NEW x \in FeedItem, feed' = Append(feed, x), x.kind \notin VerdictKind,
           UNCHANGED <<verdicts, origin>>,
           \A n \in Call : 
               output'[n] = output[n] \/ (x.kind = "TAINT_PROPAGATED" /\ x.call = n)
    PROVE  Feeds'
<1>1. PICK k : k = Len(feed) + 1
  OBVIOUS
<1>2. /\ feed' \in Seq(FeedItem) /\ Len(feed) \in Nat /\ Len(feed') = k
      /\ feed'[k] = x /\ \A i \in 1..Len(feed) : feed'[i] = feed[i]
      /\ \A i \in verdict_events(feed) : Number(i)' = Number(i)
      /\ verdict_events(feed') = verdict_events(feed)
      /\ verdict_events(feed) \subseteq 1..Len(feed)
  BY <1>1, OneMoreEvent, NumberCounts DEF Feeds
<1>3. ASSUME NEW i \in verdict_events(feed) PROVE Reports(i)' /\ Sourced(i)'
  <2>1. Reports(i) /\ Sourced(i) /\ i \in 1..Len(feed)
    BY <1>2 DEF Feeds
  <2>2. Reports(i)'
    BY <1>2, <2>1 DEF Reports, VerdictEvent, FeedEvent
  <2>3. \A j \in 1..(i - 1) : \A n : Taints(j, n) => Taints(j, n)'
    BY <1>2, <2>1 DEF Taints
  <2> QED
    BY <1>2, <2>1, <2>2, <2>3 DEF Sourced
<1>4. ASSUME NEW n \in Call, output'[n] # NoOutput, output'[n].pattern # "none"
      PROVE  \E j \in 1..Len(feed') : Taints(j, n)'
  <2>1. CASE output'[n] = output[n]
    <3>1. PICK j \in 1..Len(feed) : Taints(j, n)
      BY <1>4, <2>1 DEF Feeds
    <3>2. j \in 1..Len(feed') /\ Taints(j, n)'
      BY <1>1, <1>2, <3>1 DEF Taints
    <3> QED
      BY <3>2
  <2>2. CASE x.kind = "TAINT_PROPAGATED" /\ x.call = n
    BY <1>1, <1>2, <2>2 DEF Taints
  <2> QED
    BY <2>1, <2>2, <1>4
<1> QED
  BY <1>2, <1>3, <1>4 DEF Feeds

\* The event of a verdict.
LEMMA VerdictEventIsItem ==
    ASSUME NEW e \in Verdict
    PROVE  /\ VerdictEvent(e) \in FeedItem
           /\ VerdictEvent(e).kind \in VerdictKind
           /\ VerdictEvent(e).call = e.call
<1>1. PICK t, b :
        /\ t = IF ~e.allowed THEN "INTENT_DENIED"
               ELSE IF e.call \in Rewritten THEN "INTENT_TRANSFORMED" ELSE "INTENT_APPROVED"
        /\ b = IF ~e.allowed THEN e.call # 0 ELSE TRUE
  OBVIOUS
<1>2. VerdictEvent(e) = [kind |-> t, marked |-> b, call |-> e.call]
  BY <1>1 DEF VerdictEvent, FeedEvent
<1>3. t \in FeedKind /\ t \in VerdictKind
  BY <1>1 DEF FeedKind, VerdictKind
<1>4. b \in BOOLEAN
  BY <1>1
<1>5. e.call \in Int
  BY DEF Verdict
<1> QED
  BY <1>2, <1>3, <1>4, <1>5 DEF FeedItem

\* The event of a verdict whose argument derives from outputs of the feed.
LEMMA VerdictEventFeeds ==
    ASSUME Feeds, verdicts \in Seq(Verdict), NEW e \in Verdict,
           verdicts' = Append(verdicts, e), feed' = Append(feed, VerdictEvent(e)),
           UNCHANGED output, e.call = 0 => ~e.allowed,
           \A i \in 1..Len(verdicts) : verdicts[i].call # 0 =>
               origin'[verdicts[i].call] = origin[verdicts[i].call],
           e.call # 0 => origin'[e.call] \subseteq Untrusted
    PROVE  Feeds'
<1>1. PICK k, x, m : k = Len(feed) + 1 /\ x = VerdictEvent(e) /\ m = Len(verdicts) + 1
  OBVIOUS
<1>2. x \in FeedItem /\ x.kind \in VerdictKind /\ x.call = e.call
  BY <1>1, VerdictEventIsItem
<1>3. /\ Len(verdicts) \in Nat /\ Len(verdicts') = m /\ verdicts'[m] = e
      /\ \A i \in 1..Len(verdicts) : verdicts'[i] = verdicts[i]
      /\ \A i \in 1..m : i \in 1..Len(verdicts) \/ i = m
  BY <1>1, AppendMembers
<1>4. /\ feed' \in Seq(FeedItem) /\ Len(feed) \in Nat /\ Len(feed') = k
      /\ feed'[k] = x /\ \A i \in 1..Len(feed) : feed'[i] = feed[i]
      /\ \A i \in verdict_events(feed) : Number(i)' = Number(i)
      /\ verdict_events(feed') = verdict_events(feed) \cup {k}
      /\ Cardinality(verdict_events(feed')) = m
      /\ Number(k)' = m
      /\ verdict_events(feed) \subseteq 1..Len(feed)
  BY <1>1, <1>2, OneMoreEvent, NumberCounts DEF Feeds
<1>5. \A i \in verdict_events(feed) : Number(i) \in 1..Len(verdicts)
  BY NumberCounts DEF Feeds
<1>6. \A j \in 1..Len(feed) : \A n : Taints(j, n) => Taints(j, n)'
  BY <1>4 DEF Taints
<1>7. ASSUME NEW i \in verdict_events(feed) PROVE Reports(i)' /\ Sourced(i)'
  <2>1. Reports(i) /\ Sourced(i) /\ i \in 1..Len(feed) /\ Number(i) \in 1..Len(verdicts)
    BY <1>4, <1>5 DEF Feeds
  <2>2. Reports(i)'
    BY <1>3, <1>4, <2>1 DEF Reports, VerdictEvent, FeedEvent
  <2>3. feed[i].call = verdicts[Number(i)].call
    BY <2>1 DEF Reports, VerdictEvent, FeedEvent
  <2>4. feed[i].call # 0 => origin'[feed[i].call] = origin[feed[i].call]
    BY <2>1, <2>3
  <2>5. \A j \in 1..(i - 1) : j \in 1..Len(feed)
    BY <1>4, <2>1
  <2>6. Sourced(i)'
    BY <1>4, <1>6, <2>1, <2>4, <2>5 DEF Sourced
  <2> QED
    BY <2>2, <2>6
<1>8. Reports(k)'
  BY <1>1, <1>3, <1>4 DEF Reports, VerdictEvent, FeedEvent
<1>9. Sourced(k)'
  <2>1. ASSUME x.call # 0, NEW n \in origin'[x.call]
        PROVE  \E j \in 1..(k - 1) : Taints(j, n)'
    <3>1. n \in Call /\ output[n] # NoOutput /\ output[n].pattern # "none"
      BY <1>2, <2>1 DEF Untrusted
    <3>2. PICK j \in 1..Len(feed) : Taints(j, n)
      BY <3>1 DEF Feeds
    <3>3. j \in 1..(k - 1) /\ Taints(j, n)'
      BY <1>1, <1>4, <1>6, <3>2
    <3> QED
      BY <3>3
  <2> QED
    BY <1>4, <2>1 DEF Sourced
<1>10. ASSUME NEW n \in Call, output'[n] # NoOutput, output'[n].pattern # "none"
       PROVE  \E j \in 1..Len(feed') : Taints(j, n)'
  <2>1. PICK j \in 1..Len(feed) : Taints(j, n)
    BY <1>10 DEF Feeds
  <2>2. j \in 1..Len(feed') /\ Taints(j, n)'
    BY <1>1, <1>4, <1>6, <2>1
  <2> QED
    BY <2>2
<1>11. \A i \in 1..Len(verdicts') : verdicts'[i].call = 0 => ~verdicts'[i].allowed
  BY <1>3 DEF Feeds
<1> QED
  BY <1>3, <1>4, <1>7, <1>8, <1>9, <1>10, <1>11 DEF Feeds

\* A step that adds no verdict and no output adds no event.
LEMMA EmitNothing ==
    ASSUME Emit, feed \in Seq(FeedItem), verdicts \in Seq(Verdict),
           UNCHANGED <<verdicts, output>>
    PROVE  feed' = feed
<1>1. PICK D, S :
        /\ D = SubSeq(verdicts', Len(verdicts) + 1, Len(verdicts'))
        /\ S = {n \in Call : output[n] = NoOutput /\ output'[n] # NoOutput
                                                  /\ output'[n].pattern # "none"}
  OBVIOUS
<1>2. PICK v, r, Z :
        /\ v = [i \in DOMAIN D |-> VerdictEvent(D[i])]
        /\ r = FeedEvent("TAINT_PROPAGATED", TRUE, CHOOSE n \in S : TRUE)
        /\ Z = 1..Cardinality(S)
  OBVIOUS
<1>0. PICK w : w = [i \in Z |-> r]
  OBVIOUS
<1>3. feed' = feed \o v \o w
  <2>1. w = [i \in 1..Cardinality(S) |->
                FeedEvent("TAINT_PROPAGATED", TRUE, CHOOSE n \in S : TRUE)]
    BY <1>2, <1>0
  <2> QED
    BY <1>1, <1>2, <2>1 DEF Emit
<1>4. v = <<>>
  <2>1. Len(verdicts) \in Nat
    OBVIOUS
  <2>2. D = <<>>
    BY <1>1, <2>1
  <2>3. DOMAIN D = {}
    BY <2>2
  <2> QED
    BY <1>2, <2>3
<1>5. w = <<>>
  <2>1. S = {}
    BY <1>1
  <2>2. Cardinality(S) = 0
    BY <2>1, FS_EmptySet
  <2>3. Z = {}
    BY <1>2, <2>2
  <2> QED
    BY <1>0, <2>3
<1>6. feed \o <<>> = feed
  OBVIOUS
<1> QED
  BY <1>3, <1>4, <1>5, <1>6

\* A step that adds a verdict adds its event.
LEMMA EmitVerdict ==
    ASSUME Emit, feed \in Seq(FeedItem), verdicts \in Seq(Verdict), NEW e \in Verdict,
           verdicts' = Append(verdicts, e), UNCHANGED output,
           NEW x \in FeedItem, x = VerdictEvent(e)
    PROVE  feed' = Append(feed, x)
<1>1. PICK D, S :
        /\ D = SubSeq(verdicts', Len(verdicts) + 1, Len(verdicts'))
        /\ S = {n \in Call : output[n] = NoOutput /\ output'[n] # NoOutput
                                                  /\ output'[n].pattern # "none"}
  OBVIOUS
<1>2. PICK v, r, Z :
        /\ v = [i \in DOMAIN D |-> VerdictEvent(D[i])]
        /\ r = FeedEvent("TAINT_PROPAGATED", TRUE, CHOOSE n \in S : TRUE)
        /\ Z = 1..Cardinality(S)
  OBVIOUS
<1>0. PICK w : w = [i \in Z |-> r]
  OBVIOUS
<1>3. feed' = feed \o v \o w
  <2>1. w = [i \in 1..Cardinality(S) |->
                FeedEvent("TAINT_PROPAGATED", TRUE, CHOOSE n \in S : TRUE)]
    BY <1>2, <1>0
  <2> QED
    BY <1>1, <1>2, <2>1 DEF Emit
<1>4. DOMAIN D = 1..1 /\ D[1] = e
  <2>1. PICK m \in Nat : m = Len(verdicts)
    OBVIOUS
  <2>2. Len(verdicts') = m + 1 /\ verdicts'[m + 1] = e
    BY <2>1
  <2>3. D = SubSeq(verdicts', m + 1, m + 1)
    BY <1>1, <2>1, <2>2
  <2> QED
    BY <2>1, <2>2, <2>3
<1>5. v = [i \in 1..1 |-> x]
  BY <1>2, <1>4
<1>6. w = <<>>
  <2>1. S = {}
    BY <1>1
  <2>2. Cardinality(S) = 0
    BY <2>1, FS_EmptySet
  <2>3. Z = {}
    BY <1>2, <2>2
  <2> QED
    BY <1>0, <2>3
<1>7. feed \o v = Append(feed, x) /\ feed \o v \in Seq(FeedItem)
  BY <1>5
<1>8. (feed \o v) \o <<>> = feed \o v
  BY <1>7
<1> QED
  BY <1>3, <1>6, <1>7, <1>8

\* A sequence of one in a row with another.
LEMMA OneItem ==
    ASSUME NEW S, NEW s \in Seq(S), NEW x \in S, NEW w, w = [i \in 1..1 |-> x]
    PROVE  s \o w = Append(s, x)
OBVIOUS

\* A step in which a tool returns adds an event if the output is untrusted.
LEMMA EmitSource ==
    ASSUME Emit, feed \in Seq(FeedItem), verdicts \in Seq(Verdict), UNCHANGED verdicts,
           NEW n \in Call, output[n] = NoOutput, output'[n] # NoOutput,
           \A m \in Call \ {n} : output'[m] = output[m],
           NEW x \in FeedItem, x = FeedEvent("TAINT_PROPAGATED", TRUE, n)
    PROVE  feed' = IF output'[n].pattern = "none" THEN feed ELSE Append(feed, x)
<1>1. PICK D, S :
        /\ D = SubSeq(verdicts', Len(verdicts) + 1, Len(verdicts'))
        /\ S = {m \in Call : output[m] = NoOutput /\ output'[m] # NoOutput
                                                  /\ output'[m].pattern # "none"}
  OBVIOUS
<1>2. PICK v, r, Z :
        /\ v = [i \in DOMAIN D |-> VerdictEvent(D[i])]
        /\ r = FeedEvent("TAINT_PROPAGATED", TRUE, CHOOSE m \in S : TRUE)
        /\ Z = 1..Cardinality(S)
  OBVIOUS
<1>0. PICK w : w = [i \in Z |-> r]
  OBVIOUS
<1>3. feed' = feed \o v \o w
  <2>1. w = [i \in 1..Cardinality(S) |->
                FeedEvent("TAINT_PROPAGATED", TRUE, CHOOSE m \in S : TRUE)]
    BY <1>2, <1>0
  <2> QED
    BY <1>1, <1>2, <2>1 DEF Emit
<1>4. v = <<>>
  <2>1. Len(verdicts) \in Nat
    OBVIOUS
  <2>2. D = <<>>
    BY <1>1, <2>1
  <2>3. DOMAIN D = {}
    BY <2>2
  <2> QED
    BY <1>2, <2>3
<1>5. feed \o <<>> = feed
  OBVIOUS
<1>6. CASE output'[n].pattern = "none"
  <2>1. S = {}
    BY <1>1, <1>6
  <2>2. Cardinality(S) = 0
    BY <2>1, FS_EmptySet
  <2>3. Z = {}
    BY <1>2, <2>2
  <2>4. w = <<>>
    BY <1>0, <2>3
  <2> QED
    BY <1>3, <1>4, <1>5, <1>6, <2>4
<1>7. CASE output'[n].pattern # "none"
  <2>1. S = {n}
    BY <1>1, <1>7
  <2>2. Cardinality(S) = 1
    BY <2>1, FS_Singleton
  <2>3. (CHOOSE m \in S : TRUE) = n
    BY <2>1
  <2>4. r = x
    BY <1>2, <2>3
  <2>5. w = [i \in 1..1 |-> x]
    <3>1. Z = 1..1
      BY <1>2, <2>2
    <3> QED
      BY <1>0, <2>4, <3>1
  <2>6. feed \o w = Append(feed, x)
    BY <2>5, OneItem
  <2> QED
    BY <1>3, <1>4, <1>5, <1>7, <2>6
<1> QED
  BY <1>6, <1>7

\* No event, and no output it should have told of.
LEMMA SameFeed ==
    ASSUME Feeds, UNCHANGED <<feed, verdicts, origin>>,
           \A n \in Call : output'[n] # NoOutput /\ output'[n].pattern # "none" =>
                               output'[n] = output[n]
    PROVE  Feeds'
<1>1. verdict_events(feed') = verdict_events(feed)
  OBVIOUS
<1>2. \A i : Number(i)' = Number(i)
  BY <1>1 DEF Number
<1>3. \A i : Reports(i)' <=> Reports(i)
  BY <1>2 DEF Reports, VerdictEvent, FeedEvent
<1>4. \A j, n : Taints(j, n)' <=> Taints(j, n)
  BY DEF Taints
<1>5. \A i : Sourced(i)' <=> Sourced(i)
  BY <1>4 DEF Sourced
<1> QED
  BY <1>1, <1>3, <1>4, <1>5 DEF Feeds

\* The session as it is, with its feed.
FeedKept == SessionKept /\ (OneThread => Feeds)

\* A step of the session that adds neither verdict nor output.
LEMMA QuietFeeds ==
    ASSUME Feeds, verdicts \in Seq(Verdict), Emit, UNCHANGED <<verdicts, output, origin>>
    PROVE  Feeds'
BY EmitNothing, SameFeed DEF Feeds

\* A step of the session in which the kernel judges a call.
LEMMA EvaluateFeeds ==
    ASSUME Feeds, Session, Pairing, Attribute, Yield, Emit, NEW c \in Caller, Evaluate(c)
    PROVE  Feeds'
<1>1. PICK v \in BOOLEAN :
        /\ verdicts' = Append(verdicts, [call |-> call[c], allowed |-> v])
        /\ IF setting.every_intent \/ v THEN Moves(c, "judged") ELSE Ends(c)
  BY DEF Evaluate
<1>2. PICK e : e = [call |-> call[c], allowed |-> v]
  OBVIOUS
<1>3. e \in Verdict /\ e.call = call[c]
  BY <1>2 DEF Verdict, Pairing
<1>4. verdicts \in Seq(Verdict) /\ verdicts' = Append(verdicts, e)
  BY <1>1, <1>2 DEF Pairing
<1>5. PICK to : to = IF setting.every_intent \/ v THEN "judged" ELSE "idle"
  OBVIOUS
<1>6. /\ pc'[c] = to /\ pc[c] = "admitted" /\ \A d \in Caller \ {c} : pc'[d] = pc[d]
  <2>1. Moves(c, to)
    BY <1>1, <1>5 DEF Ends
  <2> QED
    BY <2>1, OneCallMoves DEF Pairing, Evaluate
<1>7. output' = output
  BY <1>5, <1>6, NoReturnNoOutput
<1>8. /\ call[c] # 0 /\ call[c] \in Call
      /\ \A i \in 1..Len(verdicts) : verdicts[i].call # call[c]
  BY <1>6, RuntimeConfig DEF Session, Numbers, Judgements, Call
<1>9. Len(verdicts) \in Nat /\ Len(verdicts') = Len(verdicts) + 1 /\ verdicts'[Len(verdicts')] = e
  BY <1>3, <1>4, AppendMembers
<1>10. PICK sources \in SUBSET Untrusted :
         origin' = [origin EXCEPT ![call[c]] = sources]
  <2>1. Len(verdicts') # Len(verdicts) /\ verdicts'[Len(verdicts')].call = call[c]
    BY <1>3, <1>9
  <2> QED
    BY <1>8, <2>1 DEF Attribute
<1>11. /\ origin'[call[c]] \subseteq Untrusted
       /\ \A i \in 1..Len(verdicts) : origin'[verdicts[i].call] = origin[verdicts[i].call]
  BY <1>8, <1>10 DEF Session, Origins
<1>12. PICK x : x = VerdictEvent(e)
  OBVIOUS
<1>13. x \in FeedItem
  BY <1>3, <1>12, VerdictEventIsItem
<1>14. feed' = Append(feed, x)
  BY <1>3, <1>4, <1>7, <1>12, <1>13, EmitVerdict DEF Feeds
<1> QED
  BY <1>3, <1>4, <1>7, <1>8, <1>11, <1>12, <1>14, VerdictEventFeeds

\* A step of the session in which the kernel refuses what is no tool call.
LEMMA RefuseOtherFeeds ==
    ASSUME Feeds, Session, Pairing, Attribute, Yield, Emit, RefuseOther
    PROVE  Feeds'
<1>1. PICK e : e = [call |-> 0, allowed |-> FALSE]
  OBVIOUS
<1>2. e \in Verdict /\ e.call = 0 /\ ~e.allowed
  BY <1>1 DEF Verdict
<1>3. verdicts \in Seq(Verdict) /\ verdicts' = Append(verdicts, e) /\ UNCHANGED pc
  BY <1>1 DEF RefuseOther, Pairing
<1>4. Len(verdicts) \in Nat /\ Len(verdicts') = Len(verdicts) + 1 /\ verdicts'[Len(verdicts')] = e
  BY <1>2, <1>3, AppendMembers
<1>5. origin' = origin
  BY <1>2, <1>4 DEF Attribute
<1>6. output' = output
  <2>1. {c \in Caller : pc[c] = "running" /\ pc'[c] = "returned"} = {}
    BY <1>3
  <2> QED
    BY <2>1 DEF Yield
<1>7. PICK x : x = VerdictEvent(e)
  OBVIOUS
<1>8. x \in FeedItem
  BY <1>2, <1>7, VerdictEventIsItem
<1>9. feed' = Append(feed, x)
  BY <1>2, <1>3, <1>6, <1>7, <1>8, EmitVerdict DEF Feeds
<1> QED
  BY <1>2, <1>3, <1>5, <1>6, <1>7, <1>9, VerdictEventFeeds

\* A step of the session in which a tool returns.
LEMMA RegisterFeeds ==
    ASSUME Feeds, Session, Pairing, Attribute, Yield, Emit, NEW c \in Caller, Register(c)
    PROVE  Feeds'
<1>1. /\ pc'[c] = "returned" /\ pc[c] = "running"
      /\ \A d \in Caller \ {c} : pc'[d] = pc[d]
  BY OneCallMoves DEF Pairing, Register
<1>2. UNCHANGED verdicts /\ verdicts \in Seq(Verdict)
  BY DEF Register, Pairing
<1>3. origin' = origin
  BY <1>2, NoVerdictNoOrigin
<1>4. PICK out \in Output : output' = [output EXCEPT ![call[c]] = out]
  <2>1. c \in {d \in Caller : pc[d] = "running" /\ pc'[d] = "returned"}
    BY <1>1
  <2>2. \A d \in {b \in Caller : pc[b] = "running" /\ pc'[b] = "returned"} : d = c
    BY <1>1
  <2> QED
    BY <2>1, <2>2 DEF Yield
<1>5. PICK n : n = call[c]
  OBVIOUS
<1>6. n \in Call /\ n \in Int /\ output[n] = NoOutput
  BY <1>1, <1>5, RuntimeConfig DEF Session, Numbers, Outputs, Call
<1>7. output'[n] = out /\ out # NoOutput /\ \A m \in Call \ {n} : output'[m] = output[m]
  BY <1>4, <1>5, <1>6, OutputConfig DEF Session, Outputs
<1>8. PICK x : x = FeedEvent("TAINT_PROPAGATED", TRUE, n)
  OBVIOUS
<1>9. x \in FeedItem /\ x.kind = "TAINT_PROPAGATED" /\ x.call = n
  BY <1>6, <1>8 DEF FeedItem, FeedEvent, FeedKind
<1>10. feed' = IF output'[n].pattern = "none" THEN feed ELSE Append(feed, x)
  BY <1>2, <1>6, <1>7, <1>8, <1>9, EmitSource DEF Feeds
<1>11. CASE output'[n].pattern = "none"
  <2>1. feed' = feed
    BY <1>10, <1>11
  <2>2. \A m \in Call : output'[m] # NoOutput /\ output'[m].pattern # "none" =>
                           output'[m] = output[m]
    BY <1>7, <1>11
  <2> QED
    BY <1>2, <1>3, <2>1, <2>2, SameFeed
<1>12. CASE output'[n].pattern # "none"
  <2>1. feed' = Append(feed, x)
    BY <1>10, <1>12
  <2>2. x.kind \notin VerdictKind
    BY <1>9 DEF VerdictKind
  <2>3. \A m \in Call :
          output'[m] = output[m] \/ (x.kind = "TAINT_PROPAGATED" /\ x.call = m)
    BY <1>7, <1>9
  <2> QED
    BY <1>2, <1>3, <1>9, <2>1, <2>2, <2>3, OtherEventFeeds
<1> QED
  BY <1>11, <1>12

LEMMA InitFeedKept == FeedInit => FeedKept
<1> SUFFICES ASSUME FeedInit PROVE Feeds
  BY InitSessionKept DEF FeedKept, FeedInit
<1>1. /\ feed = <<>> /\ verdicts = <<>> /\ output = [n \in Call |-> NoOutput]
  BY DEF FeedInit, TraceInit, Init
<1>2. Len(verdicts) = 0 /\ Len(feed) = 0 /\ verdict_events(feed) = {}
  BY <1>1 DEF verdict_events
<1> QED
  BY <1>1, <1>2, FS_EmptySet DEF Feeds

LEMMA NextFeedKept == FeedKept /\ [FeedNext]_feedVars => FeedKept'
<1> SUFFICES ASSUME FeedKept, [FeedNext]_feedVars PROVE FeedKept'
  OBVIOUS
<1>1. [TraceNext]_traceVars
  BY DEF FeedNext, feedVars, Happens
<1>2. SessionKept'
  BY <1>1, NextSessionKept DEF FeedKept
<1>3. setting' = setting
  BY <1>1 DEF TraceNext, traceVars, Next, ChangePosture, RefuseOther, Begin, Admit,
         await_admission, Evaluate, Record, Run, ToolRaises, Register, Mark, vars
<1> SUFFICES ASSUME OneThread' PROVE Feeds'
  BY <1>2 DEF FeedKept
<1>4. Feeds /\ Session /\ Pairing /\ verdicts \in Seq(Verdict)
  BY <1>3 DEF FeedKept, SessionKept, Kept, OneThread, Pairing
<1>5. CASE UNCHANGED feedVars
  <2>1. UNCHANGED <<feed, verdicts, output, origin>>
    BY <1>5 DEF feedVars, traceVars, vars, session
  <2> QED
    BY <1>4, <2>1, SameFeed
<1>6. CASE Happens
  <2>1. PICK h \in Happening : feed' = Append(feed, FeedEvent(h.kind, h.marked, 0))
    BY <1>6 DEF Happens
  <2>2. PICK x : x = FeedEvent(h.kind, h.marked, 0)
    OBVIOUS
  <2>3. x \in FeedItem /\ x.kind \notin VerdictKind /\ x.kind # "TAINT_PROPAGATED"
    BY <2>2, FeedConfig DEF FeedItem, FeedEvent, FeedKind, VerdictKind
  <2>4. UNCHANGED <<verdicts, output, origin>>
    BY <1>6 DEF Happens, traceVars, vars, session
  <2> QED
    BY <1>4, <2>1, <2>2, <2>3, <2>4, OtherEventFeeds
<1>7. ASSUME TraceNext, Emit PROVE Feeds'
  <2> USE DEF posture, session, Ends
  <2>1. Attribute /\ Yield
    BY <1>7 DEF TraceNext
  <2>2. ASSUME UNCHANGED <<pc, verdicts>> PROVE Feeds'
    <3>1. origin' = origin
      BY <2>1, <2>2, NoVerdictNoOrigin
    <3>2. output' = output
      BY <2>1, <2>2 DEF Yield
    <3> QED
      BY <1>4, <1>7, <2>2, <3>1, <3>2, QuietFeeds
  <2>3. ASSUME NEW c \in Caller, NEW to, Moves(c, to), UNCHANGED verdicts,
               to # "returned" \/ pc[c] # "running"
        PROVE  Feeds'
    <3>1. origin' = origin
      BY <2>1, <2>3, NoVerdictNoOrigin
    <3>2. pc'[c] = to /\ \A d \in Caller \ {c} : pc'[d] = pc[d]
      BY <1>4, <2>3, OneCallMoves DEF Pairing
    <3>3. output' = output
      BY <2>1, <2>3, <3>2, NoReturnNoOutput
    <3> QED
      BY <1>4, <1>7, <2>3, <3>1, <3>3, QuietFeeds
  <2>4. CASE ChangePosture
    BY <2>2, <2>4 DEF ChangePosture
  <2>5. CASE RefuseOther
    BY <1>4, <1>7, <2>1, <2>5, RefuseOtherFeeds
  <2>6. ASSUME NEW c \in Caller, Evaluate(c) PROVE Feeds'
    BY <1>4, <1>7, <2>1, <2>6, EvaluateFeeds
  <2>7. ASSUME NEW c \in Caller, Register(c) PROVE Feeds'
    BY <1>4, <1>7, <2>1, <2>7, RegisterFeeds
  <2>8. ASSUME NEW c \in Caller,
               Begin(c) \/ Admit(c) \/ await_admission(c) \/ Record(c) \/ Run(c)
                  \/ ToolRaises(c) \/ Mark(c)
        PROVE  Feeds'
    <3>1. UNCHANGED verdicts
      BY <2>8 DEF Begin, Admit, await_admission, Record, Run, ToolRaises, Mark
    <3>2. \E to \in {"idle", "asked", "admitted", "recorded", "running"} : Moves(c, to)
      BY <2>8 DEF Begin, Admit, await_admission, Record, Run, ToolRaises, Mark
    <3> QED
      BY <2>3, <3>1, <3>2
  <2> QED
    BY <1>7, <2>4, <2>5, <2>6, <2>7, <2>8 DEF TraceNext, Next
<1> QED
  BY <1>5, <1>6, <1>7 DEF FeedNext

\* How bridge.py translates an event.
LEMMA Translation ==
    ASSUME NEW i, NEW e \in FeedItem
    PROVE  /\ e.kind \in {"INTENT_APPROVED", "INTENT_TRANSFORMED"} =>
                 trace_event_to_kernel(i, e) = Translated(i, e, "TOOL_CALL", "PASS")
           /\ e.kind = "INTENT_DENIED" =>
                 trace_event_to_kernel(i, e) =
                    Translated(i, e, IF e.marked THEN "TOOL_CALL" ELSE "DENIAL", "DENY")
           /\ e.kind = "TAINT_PROPAGATED" =>
                 trace_event_to_kernel(i, e) = Translated(i, e, "TOOL_RESULT", "none")
           /\ \A k \in trace_event_to_kernel(i, e) : k.seq = i /\ k.call = e.call
           /\ e.kind \notin VerdictKind =>
                 \A k \in trace_event_to_kernel(i, e) : k.kind # "TOOL_CALL"
           /\ (\E k \in trace_event_to_kernel(i, e) : k.verdict = "DENY") <=> Refuses(e)
<1>1. CASE e.kind = "INTENT_DENIED"
  <2>1. CASE e.marked
    <3>1. PICK k : k = [seq |-> i, kind |-> "TOOL_CALL", verdict |-> "DENY", call |-> e.call]
      OBVIOUS
    <3>2. trace_event_to_kernel(i, e) = {k}
      BY <1>1, <2>1, <3>1 DEF trace_event_to_kernel, Translated
    <3>3. k.seq = i /\ k.call = e.call /\ k.kind = "TOOL_CALL" /\ k.verdict = "DENY"
      BY <3>1
    <3>4. trace_event_to_kernel(i, e) =
             Translated(i, e, IF e.marked THEN "TOOL_CALL" ELSE "DENIAL", "DENY")
      BY <1>1 DEF trace_event_to_kernel
    <3> QED
      BY <1>1, <2>1, <3>2, <3>3, <3>4 DEF VerdictKind, Refuses
  <2>2. CASE ~e.marked
    <3>1. PICK k : k = [seq |-> i, kind |-> "DENIAL", verdict |-> "DENY", call |-> e.call]
      OBVIOUS
    <3>2. trace_event_to_kernel(i, e) = {k}
      BY <1>1, <2>2, <3>1 DEF trace_event_to_kernel, Translated
    <3>3. k.seq = i /\ k.call = e.call /\ k.kind = "DENIAL" /\ k.verdict = "DENY"
      BY <3>1
    <3>4. trace_event_to_kernel(i, e) =
             Translated(i, e, IF e.marked THEN "TOOL_CALL" ELSE "DENIAL", "DENY")
      BY <1>1 DEF trace_event_to_kernel
    <3> QED
      BY <1>1, <2>2, <3>2, <3>3, <3>4 DEF VerdictKind, Refuses
  <2> QED
    BY <2>1, <2>2
<1>2. CASE e.kind = "TAINT_PROPAGATED"
  BY <1>2 DEF trace_event_to_kernel, Translated, VerdictKind, Refuses
<1>3. CASE e.kind \in {"INTENT_APPROVED", "INTENT_TRANSFORMED"}
  BY <1>3 DEF trace_event_to_kernel, Translated, VerdictKind, Refuses
<1>4. CASE e.kind \in {"DEGRADATION_TRANSITION", "SOURCE_QUARANTINED", "CHILD_STALE"}
  BY <1>4 DEF trace_event_to_kernel, Translated, VerdictKind, Refuses
<1>5. CASE e.kind = "SUSPICIOUS_INTENT"
  <2>1. CASE e.marked
    <3>1. PICK k : k = [seq |-> i, kind |-> "DENIAL", verdict |-> "DENY", call |-> e.call]
      OBVIOUS
    <3>2. trace_event_to_kernel(i, e) = {k}
      BY <1>5, <2>1, <3>1 DEF trace_event_to_kernel, Translated
    <3>3. k.seq = i /\ k.call = e.call /\ k.kind = "DENIAL" /\ k.verdict = "DENY"
      BY <3>1
    <3> QED
      BY <1>5, <2>1, <3>2, <3>3 DEF VerdictKind, Refuses
  <2>2. CASE ~e.marked
    BY <1>5, <2>2 DEF trace_event_to_kernel, Translated, VerdictKind, Refuses
  <2> QED
    BY <2>1, <2>2
<1>6. CASE e.kind = "CHILD_SPAWNED"
  BY <1>6 DEF trace_event_to_kernel, Translated, VerdictKind, Refuses
<1>7. CASE e.kind = "CHILD_COMPLETED"
  BY <1>7 DEF trace_event_to_kernel, Translated, VerdictKind, Refuses
<1>8. CASE e.kind = "CANCELLED"
  BY <1>8 DEF trace_event_to_kernel, Translated, VerdictKind, Refuses
<1>9. CASE e.kind \notin {"INTENT_DENIED", "TAINT_PROPAGATED", "INTENT_APPROVED",
                         "INTENT_TRANSFORMED", "DEGRADATION_TRANSITION",
                         "SOURCE_QUARANTINED", "CHILD_STALE", "SUSPICIOUS_INTENT",
                         "CHILD_SPAWNED", "CHILD_COMPLETED", "CANCELLED"}
  BY <1>9 DEF trace_event_to_kernel, Translated, VerdictKind, Refuses
<1> QED
  BY <1>1, <1>2, <1>3, <1>4, <1>5, <1>6, <1>7, <1>8, <1>9

\* The call the plane folds for the verdict of number m at place i.
Folded(i, m) ==
    [seq |-> i, kind |-> "TOOL_CALL",
     verdict |-> IF verdicts[m].allowed THEN "PASS" ELSE "DENY",
     call |-> verdicts[m].call]

\* The plane folds a verdict event as a call exactly if it is one's.
LEMMA CallOfVerdict ==
    ASSUME Feeds, verdicts \in Seq(Verdict), NEW i \in verdict_events(feed),
           NEW m, m = Number(i)
    PROVE  /\ m \in 1..Len(verdicts) /\ feed[i] \in FeedItem
           /\ feed[i].call = verdicts[m].call
           /\ {k \in trace_event_to_kernel(i, feed[i]) : k.kind = "TOOL_CALL"} =
                 IF verdicts[m].call # 0 THEN {Folded(i, m)} ELSE {}
<1>1. i \in 1..Len(feed) /\ m \in 1..Len(verdicts) /\ feed[i] \in FeedItem
  BY NumberCounts DEF Feeds
<1>2. PICK e, x : e = verdicts[m] /\ x = feed[i]
  OBVIOUS
<1>3. e \in Verdict /\ x \in FeedItem /\ x = VerdictEvent(e) /\ (e.call = 0 => ~e.allowed)
  BY <1>1, <1>2 DEF Feeds, Reports
<1>4. e.allowed \in BOOLEAN /\ x.call = e.call
  BY <1>3, VerdictEventIsItem DEF Verdict
<1>5. CASE ~e.allowed
  <2>1. x.kind = "INTENT_DENIED" /\ (x.marked <=> e.call # 0)
    BY <1>3, <1>5 DEF VerdictEvent, FeedEvent
  <2>2. trace_event_to_kernel(i, x) =
           Translated(i, x, IF x.marked THEN "TOOL_CALL" ELSE "DENIAL", "DENY")
    BY <1>3, <2>1, Translation
  <2>3. CASE e.call # 0
    <3>1. trace_event_to_kernel(i, x) = {Folded(i, m)}
      BY <1>2, <1>4, <1>5, <2>1, <2>2, <2>3 DEF Translated, Folded
    <3>2. Folded(i, m).kind = "TOOL_CALL"
      BY DEF Folded
    <3> QED
      BY <1>1, <1>2, <1>4, <2>3, <3>1, <3>2
  <2>4. CASE e.call = 0
    <3>1. \A k \in trace_event_to_kernel(i, x) : k.kind = "DENIAL"
      BY <2>1, <2>2, <2>4 DEF Translated
    <3> QED
      BY <1>1, <1>2, <1>4, <2>4, <3>1
  <2> QED
    BY <2>3, <2>4
<1>6. CASE e.allowed
  <2>1. x.kind \in {"INTENT_APPROVED", "INTENT_TRANSFORMED"} /\ e.call # 0
    BY <1>3, <1>6 DEF VerdictEvent, FeedEvent
  <2>2. trace_event_to_kernel(i, x) = Translated(i, x, "TOOL_CALL", "PASS")
    BY <1>3, <2>1, Translation
  <2>3. trace_event_to_kernel(i, x) = {Folded(i, m)}
    BY <1>2, <1>4, <1>6, <2>2 DEF Translated, Folded
  <2>4. Folded(i, m).kind = "TOOL_CALL"
    BY DEF Folded
  <2> QED
    BY <1>1, <1>2, <1>4, <2>1, <2>3, <2>4
<1> QED
  BY <1>4, <1>5, <1>6

\* The two consumers agree on a feed that can be read.
LEMMA KeptAgree == FeedKept => ConsumersAgree
<1>1. SUFFICES ASSUME FeedKept, Readable
      PROVE  /\ Cardinality(verdict_events(feed)) = Len(Trace.calls)
             /\ {k \in trace_to_kernel(feed) : k.kind = "TOOL_CALL"} =
                    {[seq |-> i, kind |-> "TOOL_CALL",
                      verdict |-> IF Trace.calls[Number(i)].allowed THEN "PASS" ELSE "DENY",
                      call |-> verdicts[Number(i)].call] :
                         i \in {j \in verdict_events(feed) : verdicts[Number(j)].call # 0}}
             /\ {k.seq : k \in {f \in trace_to_kernel(feed) : f.verdict = "DENY"}} =
                    {i \in DOMAIN feed : Refuses(feed[i])}
             /\ \A k \in trace_to_kernel(feed) : k.kind = "TOOL_CALL" =>
                    \A n \in origin[k.call] :
                        \E s \in trace_to_kernel(feed) :
                            s.kind = "TOOL_RESULT" /\ s.call = n /\ s.seq < k.seq
  BY DEF ConsumersAgree
<1>2. Feeds /\ SessionKept /\ verdicts \in Seq(Verdict)
  BY <1>1, ReadableIsLegible DEF FeedKept, Pairing
<1>3. /\ Len(Trace.calls) = Len(verdicts) /\ Len(verdicts) \in Nat
      /\ \A m \in 1..Len(verdicts) : Trace.calls[m].allowed = verdicts[m].allowed
  BY <1>1, <1>2, TraceDecides, ReadableIsLegible DEF Decides
<1>4. /\ Cardinality(verdict_events(feed)) = Len(verdicts)
      /\ feed \in Seq(FeedItem) /\ DOMAIN feed = 1..Len(feed)
      /\ verdict_events(feed) \subseteq 1..Len(feed)
      /\ \A i \in 1..Len(feed) : feed[i] \in FeedItem
  BY <1>2, NumberCounts DEF Feeds
<1>5. \A k : k \in trace_to_kernel(feed) <=>
                \E i \in 1..Len(feed) : k \in trace_event_to_kernel(i, feed[i])
  BY <1>4 DEF trace_to_kernel
<1>6. ASSUME NEW k \in trace_to_kernel(feed), k.kind = "TOOL_CALL"
      PROVE  \E i \in verdict_events(feed) :
                verdicts[Number(i)].call # 0 /\ k = Folded(i, Number(i))
  <2>1. PICK i \in 1..Len(feed) : k \in trace_event_to_kernel(i, feed[i])
    BY <1>5, <1>6
  <2>2. feed[i].kind \in VerdictKind
    BY <1>4, <1>6, <2>1, Translation
  <2>3. i \in verdict_events(feed)
    BY <1>4, <2>1, <2>2 DEF verdict_events, VerdictKind
  <2>4. PICK m : m = Number(i)
    OBVIOUS
  <2>5. verdicts[m].call # 0 /\ k = Folded(i, m)
    BY <1>2, <1>6, <2>1, <2>3, <2>4, CallOfVerdict
  <2> QED
    BY <2>3, <2>4, <2>5
<1>7. ASSUME NEW i \in verdict_events(feed), verdicts[Number(i)].call # 0
      PROVE  Folded(i, Number(i)) \in trace_to_kernel(feed)
  <2>1. PICK m : m = Number(i)
    OBVIOUS
  <2>2. Folded(i, m) \in trace_event_to_kernel(i, feed[i])
    BY <1>2, <1>7, <2>1, CallOfVerdict
  <2> QED
    BY <1>4, <1>5, <2>1, <2>2
<1>8. ASSUME NEW i \in verdict_events(feed)
      PROVE  Folded(i, Number(i)) =
                [seq |-> i, kind |-> "TOOL_CALL",
                 verdict |-> IF Trace.calls[Number(i)].allowed THEN "PASS" ELSE "DENY",
                 call |-> verdicts[Number(i)].call]
  <2>1. PICK m : m = Number(i)
    OBVIOUS
  <2>2. m \in 1..Len(verdicts)
    BY <1>2, <2>1, CallOfVerdict
  <2> QED
    BY <1>3, <2>1, <2>2 DEF Folded
<1>9. {k \in trace_to_kernel(feed) : k.kind = "TOOL_CALL"} =
         {Folded(i, Number(i)) :
             i \in {j \in verdict_events(feed) : verdicts[Number(j)].call # 0}}
  <2>1. \A i : Folded(i, Number(i)).kind = "TOOL_CALL"
    BY DEF Folded
  <2> QED
    BY <1>6, <1>7, <2>1
<1>10. {k \in trace_to_kernel(feed) : k.kind = "TOOL_CALL"} =
          {[seq |-> i, kind |-> "TOOL_CALL",
            verdict |-> IF Trace.calls[Number(i)].allowed THEN "PASS" ELSE "DENY",
            call |-> verdicts[Number(i)].call] :
               i \in {j \in verdict_events(feed) : verdicts[Number(j)].call # 0}}
  BY <1>8, <1>9
<1>11. {k.seq : k \in {f \in trace_to_kernel(feed) : f.verdict = "DENY"}} =
          {i \in DOMAIN feed : Refuses(feed[i])}
  <2>1. ASSUME NEW k \in trace_to_kernel(feed), k.verdict = "DENY"
        PROVE  k.seq \in 1..Len(feed) /\ Refuses(feed[k.seq])
    <3>1. PICK i \in 1..Len(feed) : k \in trace_event_to_kernel(i, feed[i])
      BY <1>5, <2>1
    <3>2. k.seq = i /\ Refuses(feed[i])
      BY <1>4, <2>1, <3>1, Translation
    <3> QED
      BY <3>1, <3>2
  <2>2. ASSUME NEW i \in 1..Len(feed), Refuses(feed[i])
        PROVE  \E k \in trace_to_kernel(feed) : k.verdict = "DENY" /\ k.seq = i
    <3>1. PICK k \in trace_event_to_kernel(i, feed[i]) : k.verdict = "DENY"
      BY <1>4, <2>2, Translation
    <3>2. k.seq = i /\ k \in trace_to_kernel(feed)
      BY <1>4, <1>5, <3>1, Translation
    <3> QED
      BY <3>1, <3>2
  <2> QED
    BY <1>4, <2>1, <2>2
<1>12. ASSUME NEW k \in trace_to_kernel(feed), k.kind = "TOOL_CALL", NEW n \in origin[k.call]
       PROVE  \E s \in trace_to_kernel(feed) :
                 s.kind = "TOOL_RESULT" /\ s.call = n /\ s.seq < k.seq
  <2>1. PICK i \in verdict_events(feed) :
          verdicts[Number(i)].call # 0 /\ k = Folded(i, Number(i))
    BY <1>6, <1>12
  <2>2. PICK m : m = Number(i)
    OBVIOUS
  <2>3. feed[i].call = verdicts[m].call
    BY <1>2, <2>2, CallOfVerdict
  <2>4. k.seq = i /\ k.call = feed[i].call /\ k.call # 0
    BY <2>1, <2>2, <2>3 DEF Folded
  <2>5. PICK j \in 1..(i - 1) : Taints(j, n)
    BY <1>2, <1>12, <2>1, <2>4 DEF Feeds, Sourced
  <2>6. i \in 1..Len(feed) /\ j \in 1..Len(feed) /\ j < i
    BY <1>4, <2>1, <2>5
  <2>7. PICK s : s = [seq |-> j, kind |-> "TOOL_RESULT", verdict |-> "none",
                      call |-> feed[j].call]
    OBVIOUS
  <2>8. s \in trace_event_to_kernel(j, feed[j])
    <3>1. trace_event_to_kernel(j, feed[j]) = Translated(j, feed[j], "TOOL_RESULT", "none")
      BY <1>4, <2>5, <2>6, Translation DEF Taints
    <3> QED
      BY <2>7, <3>1 DEF Translated
  <2>9. s \in trace_to_kernel(feed)
    BY <1>5, <2>6, <2>8
  <2>10. s.kind = "TOOL_RESULT" /\ s.call = n /\ s.seq = j
    BY <2>5, <2>7 DEF Taints
  <2> QED
    BY <2>4, <2>6, <2>9, <2>10
<1> QED
  BY <1>3, <1>4, <1>10, <1>11, <1>12

\* One trace, two consumers: whenever the trace can be read, the plane folds the
\* calls trace/v1 decides, in order and with the same verdicts, each after the
\* sources of its taint, and no refusal is lost (bridge.py:1-8, 75-215).
THEOREM PlaneFoldsWhatTraceDecides == FeedSpec => []ConsumersAgree
BY InitFeedKept, NextFeedKept, KeptAgree, PTL DEF FeedSpec

-----------------------------------------------------------------------------
(***************************************************************************)
(* The layers                                                              *)
(***************************************************************************)
\* Reading a session as a trace or as the plane's events interferes with it in
\* nothing: what holds of the wrapper's calls, and of the trace built over them,
\* holds of every session with a feed (trace.py:379-464, bridge.py).
THEOREM FeedIsASession == FeedSpec => TraceSpec /\ Spec
<1>1. FeedInit => TraceInit /\ Init
  BY DEF FeedInit, TraceInit
<1>2. [FeedNext]_feedVars => [TraceNext]_traceVars
  BY DEF FeedNext, Happens, feedVars
<1>3. [TraceNext]_traceVars => [Next]_vars
  BY DEF TraceNext, traceVars
<1> QED
  BY <1>1, <1>2, <1>3, PTL DEF FeedSpec, TraceSpec, Spec
=============================================================================
