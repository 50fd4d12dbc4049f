------------------------- MODULE PlaneSessionProofs -------------------------
(***************************************************************************)
(* TLAPS proofs about PlaneSession, for every set of command bodies,       *)
(* versions and ids, keyed or open.                                        *)
(***************************************************************************)
EXTENDS PlaneSession, TLAPS

\* The part of TypeOK that _apply touches.
NodeTypeOK ==
    /\ applied \in Nat
    /\ stopped \in BOOLEAN
    /\ paused \in BOOLEAN
    /\ cap \in Int \cup {None}
    /\ injection \in Id \cup {None}
    /\ excision \in Excision \cup {None}
    /\ replan \in Id \cup {None}
    /\ consumed \in SUBSET Id
    /\ outbox \in Seq(Event)
    /\ taken \in SUBSET Command

\* A report of a state change is an event (session.py:377-383).
LEMMA ReportType ==
    ASSUME NEW v \in Version, outbox \in Seq(Event),
           NEW result \in {"noop_absorbed", "rejected_widening", "sig_invalid"},
           Report(v, result)
    PROVE  outbox' \in Seq(Event)
BY DEF Report, Event, StateApplied

\* An acknowledgement of a one-shot is an event.
LEMMA AckType ==
    ASSUME NEW id \in Id, outbox \in Seq(Event),
           NEW kind \in FireKind \cup RefuseKind,
           Ack(kind, id)
    PROVE  outbox' \in Seq(Event)
BY DEF Ack, Event, OneShotEvent

\* _apply keeps the node's types (session.py:208-269).
LEMMA ApplyType ==
    ASSUME NEW v \in Version, NEW d \in Delta, NodeTypeOK, Apply(v, d)
    PROVE  NodeTypeOK'
<1> USE DEF NodeTypeOK
<1>0. v \in Nat
  BY VersionType
<1>1. CASE Stale(v) /\ UNCHANGED <<nodeVars, taken>>
  BY <1>1 DEF nodeVars, posture, slots
<1>2. CASE Absorb(v)
  BY <1>0, <1>2, ReportType DEF Absorb, posture, slots
<1>3. ASSUME SetFlags(v, d)
      PROVE  /\ applied' \in Nat
             /\ stopped' \in BOOLEAN
             /\ paused' \in BOOLEAN
             /\ taken' \in SUBSET Command
  BY <1>0, <1>3, DeltaType DEF SetFlags, Command
<1>4. CASE RejectWidening(v, d)
  BY <1>3, <1>4, ReportType DEF RejectWidening, slots
<1>5. CASE Accept(v, d)
  BY <1>3, <1>5, DeltaType DEF Accept, Arm, Names
<1> QED
  BY <1>1, <1>2, <1>4, <1>5 DEF Apply

\* Every variable keeps its type: the module's type invariant.
THEOREM TypeCorrect == Spec => []TypeOK
<1>1. Init => TypeOK
  <2> SUFFICES ASSUME Init PROVE TypeOK
    OBVIOUS
  <2>1. cap \in Int \cup {None}
    BY ConfigType DEF Init
  <2>2. outbox \in Seq(Event)
    BY DEF Init
  <2> QED
    BY <2>1, <2>2 DEF Init, TypeOK
<1>2. TypeOK /\ [Next]_vars => TypeOK'
  <2> SUFFICES ASSUME TypeOK, [Next]_vars PROVE TypeOK'
    OBVIOUS
  <2> USE DEF TypeOK, posture, slots
  <2>0. NodeTypeOK
    BY DEF NodeTypeOK
  <2>1. ASSUME NEW v \in Version, NEW d \in SignedDelta, Issue(v, d)
        PROVE  TypeOK'
    BY <2>1, CommandType DEF Issue, nodeVars, Command
  <2>2. ASSUME NEW c \in Wire, ApplyDelta(c) PROVE TypeOK'
    <3>1. c \in Command /\ c.version \in Version /\ c.delta \in Delta
      BY CommandType DEF Wire, Command
    <3>2. CASE Apply(c.version, c.delta)
      BY <2>0, <2>2, <3>1, <3>2, ApplyType DEF ApplyDelta, NodeTypeOK
    <3>3. CASE RefuseSignature(c.version)
      BY <2>2, <3>1, <3>3, ReportType DEF ApplyDelta, RefuseSignature
    <3> QED
      BY <2>2, <3>2, <3>3 DEF ApplyDelta
  <2>3. ASSUME NEW v \in Version, NEW d \in Delta, ApplyOpenSnapshot(v, d)
        PROVE  TypeOK'
    BY <2>0, <2>3, ApplyType DEF ApplyOpenSnapshot, NodeTypeOK
  <2>4. ASSUME NEW v \in Version, NEW state, NEW commands,
               RefuseSnapshot(v, state, commands)
        PROVE  TypeOK'
    BY <2>4, ReportType DEF RefuseSnapshot, RefuseSignature
  <2>5. ASSUME NEW v \in Version, NEW state, NEW commands,
               StartReplay(v, state, commands)
        PROVE  TypeOK'
    BY <2>5 DEF StartReplay, nodeVars, Verified
  <2>6. ASSUME NEW c \in rest, ReplayOne(c) PROVE TypeOK'
    <3>1. c.version \in Version /\ c.delta \in Delta
      BY DEF Command
    <3> QED
      BY <2>0, <2>6, <3>1, ApplyType DEF ReplayOne, NodeTypeOK
  <2>7. ASSUME FinishReplay PROVE TypeOK'
    BY <2>7, VersionType DEF FinishReplay
  <2>8. ASSUME take_pending_injection PROVE TypeOK'
    BY <2>8, AckType, NoneIsNoValue
       DEF take_pending_injection, boundaryFrame, DropDuplicate, Fire, Refuse,
           FireKind, RefuseKind
  <2>9. ASSUME NEW config, take_pending_excision(config) PROVE TypeOK'
    <3>1. excision.id \in Id
      BY <2>9 DEF take_pending_excision, Excision
    <3> QED
      BY <2>9, <3>1, AckType
         DEF take_pending_excision, boundaryFrame, DropDuplicate, Fire, Refuse,
             FireKind, RefuseKind
  <2>10. ASSUME take_pending_replan PROVE TypeOK'
    BY <2>10, AckType
       DEF take_pending_replan, boundaryFrame, DropDuplicate, Fire, Refuse,
           FireKind, RefuseKind
  <2>11. CASE UNCHANGED vars
    BY <2>11 DEF vars, nodeVars
  <2> QED
    BY <2>1, <2>2, <2>3, <2>4, <2>5, <2>6, <2>7, <2>8, <2>9, <2>10, <2>11
       DEF Next
<1> QED
  BY <1>1, <1>2, PTL DEF Spec

-----------------------------------------------------------------------------
(***************************************************************************)
(* The steps of a session.  What follows asks nothing of the commands but  *)
(* the types of what they write, so that it holds as well of the states a  *)
(* backend merges from them, and of the versions it counts up.             *)
(***************************************************************************)
Body(d) ==
    /\ Writes(d, "stopped") => d["stopped"] \in BOOLEAN
    /\ Writes(d, "paused") => d["paused"] \in BOOLEAN
    /\ Names(d, "budget_cap_calls") => d["budget_cap_calls"] \in Int
    /\ Names(d, "replan") => d["replan"] \in Id
    /\ Names(d, "pending_injection") => d["pending_injection"] \in Id
    /\ Names(d, "pending_excision") => d["pending_excision"] \in Excision

\* Reports, of whatever version.
Note ==
    [kind : {"state_applied"}, version : Nat,
     result : {"noop_absorbed", "rejected_widening", "sig_invalid"}]
    \cup OneShotEvent

\* The node's types.
NodeOK ==
    /\ applied \in Nat
    /\ stopped \in BOOLEAN
    /\ paused \in BOOLEAN
    /\ cap \in Int \cup {None}
    /\ injection \in Id \cup {None}
    /\ excision \in Excision \cup {None}
    /\ replan \in Id \cup {None}
    /\ consumed \in SUBSET Id
    /\ outbox \in Seq(Note)
    /\ \A c \in taken : c.version \in Nat /\ Body(c.delta)

\* The bodies of Delta are bodies.
LEMMA DeltaIsBody == \A d \in Delta : Body(d)
BY DeltaType DEF Body

\* TypeOK says as much of the session's own commands.
LEMMA TypedIsOK ==
    ASSUME TypeOK
    PROVE  NodeOK
<1>1. \A c \in taken : c.version \in Nat /\ Body(c.delta)
  BY VersionType, DeltaIsBody DEF TypeOK, Command
<1>2. Event \subseteq Note
  BY VersionType DEF Event, Note, StateApplied
<1>3. outbox \in Seq(Note)
  BY <1>2 DEF TypeOK
<1> QED
  BY <1>1, <1>3 DEF TypeOK, NodeOK

\* Nothing of the node moves but its version, upwards, and a refusal it reports.
Idles ==
    /\ UNCHANGED <<posture, slots, consumed, taken>>
    /\ applied' \in Nat
    /\ applied' >= applied
    /\ outbox' = outbox \/ \E v \in Nat : Report(v, "sig_invalid")

\* The host takes a one-shot.
Takes ==
    \/ take_pending_injection
    \/ \E config : take_pending_excision(config)
    \/ take_pending_replan

\* A slot is emptied, the others stay.
Drains ==
    /\ UNCHANGED <<applied, posture, taken>>
    /\ injection' \in {injection, None}
    /\ excision' \in {excision, None}
    /\ replan' \in {replan, None}

\* The case split of the proofs below.
SessionStep ==
    \/ \E v \in Nat : \E d : Body(d) /\ Apply(v, d)
    \/ Idles
    \/ Takes

\* A take drains.
LEMMA TakesDrain ==
    ASSUME Takes
    PROVE  Drains
BY DEF Takes, take_pending_injection, take_pending_excision, take_pending_replan,
       boundaryFrame, Drains

\* Every step of the session is one of these.
LEMMA StepForms ==
    ASSUME TypeOK, [Next]_vars
    PROVE  SessionStep
<1> USE DEF TypeOK, posture, slots
<1>0. \A v \in Version, d \in Delta : v \in Nat /\ Body(d)
  BY VersionType, DeltaIsBody
<1>1. ASSUME NEW v, NEW d, Issue(v, d) PROVE Idles
  BY <1>1 DEF Issue, nodeVars, Idles
<1>2. ASSUME NEW c \in Wire, ApplyDelta(c)
      PROVE  Idles \/ \E v \in Nat : \E d : Body(d) /\ Apply(v, d)
  <2>1. c.version \in Version /\ c.delta \in Delta
    BY CommandType DEF Wire, Command
  <2> QED
    BY <1>0, <1>2, <2>1 DEF ApplyDelta, RefuseSignature, Idles
<1>3. ASSUME NEW v \in Version, NEW state, NEW commands,
             RefuseSnapshot(v, state, commands) \/ StartReplay(v, state, commands)
      PROVE  Idles
  <2>1. CASE RefuseSnapshot(v, state, commands)
    BY <2>1, VersionType DEF RefuseSnapshot, RefuseSignature, Idles
  <2>2. CASE StartReplay(v, state, commands)
    BY <2>2 DEF StartReplay, nodeVars, Idles
  <2> QED
    BY <1>3, <2>1, <2>2
<1>4. ASSUME NEW c \in rest, ReplayOne(c)
      PROVE  \E v \in Nat : \E d : Body(d) /\ Apply(v, d)
  <2>1. c.version \in Version /\ c.delta \in Delta
    BY DEF Command
  <2> QED
    BY <1>0, <1>4, <2>1 DEF ReplayOne
<1>5. ASSUME FinishReplay PROVE Idles
  BY <1>5, VersionType DEF FinishReplay, Idles
<1>6. ASSUME UNCHANGED vars PROVE Idles
  <2>1. applied' = applied /\ outbox' = outbox
    BY <1>6 DEF vars, nodeVars
  <2>2. UNCHANGED <<posture, slots, consumed, taken>>
    BY <1>6 DEF vars, nodeVars
  <2> QED
    BY <2>1, <2>2 DEF Idles
<1>7. ASSUME NEW v \in Version, NEW d \in Delta, ApplyOpenSnapshot(v, d)
      PROVE  \E w \in Nat : \E e : Body(e) /\ Apply(w, e)
  BY <1>0, <1>7 DEF ApplyOpenSnapshot
<1> QED
  BY <1>1, <1>2, <1>3, <1>4, <1>5, <1>6, <1>7 DEF Next, SessionStep, Takes

\* A fresh command taken by a running node: what _apply does to the posture.
LEMMA ApplyForms ==
    ASSUME applied \in Nat, NEW v \in Nat, NEW d, Apply(v, d)
    PROVE  \/ UNCHANGED <<nodeVars, taken>>
           \/ /\ v > applied
              /\ applied' = v
              /\ stopped
              /\ UNCHANGED <<posture, slots, consumed, taken>>
           \/ /\ v > applied
              /\ SetFlags(v, d)
              /\ Widens(d)
              /\ UNCHANGED <<cap, slots, consumed>>
           \/ /\ v > applied
              /\ SetFlags(v, d)
              /\ Accept(v, d)
<1>1. CASE Stale(v) /\ UNCHANGED <<nodeVars, taken>>
  BY <1>1
<1>2. ASSUME ~Stale(v) PROVE v > applied
  BY <1>2 DEF Stale
<1> QED
  BY <1>1, <1>2 DEF Apply, Absorb, RejectWidening, Accept

\* A report is a note.
LEMMA ReportNoted ==
    ASSUME NEW v \in Nat, outbox \in Seq(Note),
           NEW result \in {"noop_absorbed", "rejected_widening", "sig_invalid"},
           Report(v, result)
    PROVE  outbox' \in Seq(Note)
BY DEF Report, Note

\* An acknowledgement is one.
LEMMA AckNoted ==
    ASSUME NEW id \in Id, outbox \in Seq(Note),
           NEW kind \in FireKind \cup RefuseKind,
           Ack(kind, id)
    PROVE  outbox' \in Seq(Note)
BY DEF Ack, Note, OneShotEvent

\* _apply keeps the node's types, whatever body it is given.
LEMMA ApplyKeeps ==
    ASSUME NodeOK, NEW v \in Nat, NEW d, Body(d), Apply(v, d)
    PROVE  NodeOK'
<1> USE DEF NodeOK
<1>1. CASE Stale(v) /\ UNCHANGED <<nodeVars, taken>>
  BY <1>1 DEF nodeVars, posture, slots
<1>2. CASE Absorb(v)
  BY <1>2, ReportNoted DEF Absorb, posture, slots
<1>3. ASSUME SetFlags(v, d)
      PROVE  /\ applied' \in Nat
             /\ stopped' \in BOOLEAN
             /\ paused' \in BOOLEAN
             /\ \A c \in taken' : c.version \in Nat /\ Body(c.delta)
  <2>1. PICK new : new = [version |-> v, delta |-> d]
    OBVIOUS
  <2>2. taken' = taken \cup {new} /\ new.version = v /\ new.delta = d
    BY <1>3, <2>1 DEF SetFlags
  <2> QED
    BY <1>3, <2>2 DEF SetFlags, Body
<1>4. (\A c \in taken' : c.version \in Nat /\ Body(c.delta)) <=>
          (\A c \in taken : c.version \in Nat /\ Body(c.delta))'
  BY DEF Body, Writes, Names
<1>5. CASE RejectWidening(v, d)
  BY <1>3, <1>4, <1>5, ReportNoted DEF RejectWidening, slots
<1>6. CASE Accept(v, d)
  <2>1. /\ cap' \in Int \cup {None}
        /\ injection' \in Id \cup {None}
        /\ excision' \in Excision \cup {None}
        /\ replan' \in Id \cup {None}
    BY <1>6 DEF Accept, Arm, Body
  <2> QED
    BY <1>3, <1>4, <1>6, <2>1 DEF Accept
<1> QED
  BY <1>1, <1>2, <1>5, <1>6 DEF Apply

\* So does every step.
LEMMA NodeKept ==
    ASSUME NodeOK, SessionStep
    PROVE  NodeOK'
<1>1. CASE Idles
  BY <1>1, ReportNoted DEF Idles, NodeOK, posture, slots, Body, Writes, Names
<1>2. ASSUME NEW id \in Id, NEW kind \in FireKind \cup RefuseKind,
             \/ DropDuplicate(id)
             \/ Fire(kind, id)
             \/ Refuse(kind, id)
             \/ Ack(kind, id) /\ UNCHANGED consumed
      PROVE  outbox' \in Seq(Note) /\ consumed' \in SUBSET Id
  BY <1>2, AckNoted DEF NodeOK, DropDuplicate, Fire, Refuse
<1>3. CASE Takes
  <2>1. outbox' \in Seq(Note) /\ consumed' \in SUBSET Id
    <3>1. CASE take_pending_injection
      <4>1. injection \in Id
        BY <3>1 DEF take_pending_injection, NodeOK
      <4> QED
        BY <1>2, <3>1, <4>1 DEF take_pending_injection, FireKind, RefuseKind
    <3>2. ASSUME NEW config, take_pending_excision(config)
          PROVE  outbox' \in Seq(Note) /\ consumed' \in SUBSET Id
      <4>1. excision.id \in Id
        BY <3>2 DEF take_pending_excision, NodeOK, Excision
      <4> QED
        BY <1>2, <3>2, <4>1 DEF take_pending_excision, FireKind, RefuseKind
    <3>3. CASE take_pending_replan
      <4>1. replan \in Id
        BY <3>3 DEF take_pending_replan, NodeOK
      <4> QED
        BY <1>2, <3>3, <4>1 DEF take_pending_replan, FireKind, RefuseKind
    <3> QED
      BY <1>3, <3>1, <3>2, <3>3 DEF Takes
  <2> QED
    BY <1>3, <2>1, TakesDrain DEF Drains, NodeOK, posture, Body, Writes, Names
<1> QED
  BY <1>1, <1>3, ApplyKeeps DEF SessionStep

\* Each step keeps the promises of PlanePosture: it moves by taking a newer
\* command or not at all.
LEMMA PostureStep ==
    ASSUME NodeOK, SessionStep
    PROVE  Posture!Next \/ UNCHANGED Posture!vars
<1> USE DEF NodeOK, posture, Posture!vars, Posture!Next, Posture!Take,
            Posture!Absorb, Posture!Obey, Posture!Narrower
<1>1. ASSUME NEW v \in Nat, NEW d, Body(d), Apply(v, d)
      PROVE  Posture!Next \/ UNCHANGED Posture!vars
  <2>1. CASE UNCHANGED <<nodeVars, taken>>
    BY <2>1 DEF nodeVars
  <2>2. CASE v > applied /\ applied' = v /\ stopped /\ UNCHANGED posture
    BY <2>2
  <2>3. ASSUME v > applied, SetFlags(v, d)
        PROVE  /\ applied' \in Nat /\ applied' > applied /\ ~stopped
               /\ stopped' \in BOOLEAN /\ paused' \in BOOLEAN
    BY <1>1, <2>3 DEF SetFlags, Body
  <2>4. CASE v > applied /\ SetFlags(v, d) /\ UNCHANGED cap
    BY <2>3, <2>4
  <2>5. CASE v > applied /\ SetFlags(v, d) /\ Accept(v, d)
    <3>1. Posture!Narrower(cap', cap)
      BY <1>1, <2>5 DEF Accept, Arm, Widens, Body
    <3> QED
      BY <2>3, <2>5, <3>1
  <2> QED
    BY <1>1, <2>1, <2>2, <2>4, <2>5, ApplyForms
<1>2. CASE Idles
  <2>1. applied' = applied => UNCHANGED Posture!vars
    BY <1>2 DEF Idles
  <2>2. applied' > applied => Posture!Next
    BY <1>2 DEF Idles
  <2> QED
    BY <1>2, <2>1, <2>2 DEF Idles
<1>3. CASE Takes
  BY <1>3, TakesDrain DEF Drains
<1> QED
  BY <1>1, <1>2, <1>3 DEF SessionStep

\* The node implements PlanePosture: it moves only by taking a newer command,
\* a stopped node absorbs it, and the cap only narrows (session.py:11-13).
THEOREM ImplementsPosture == Spec => PostureSpec
<1>1. Init => Posture!Init
  BY DEF Init, Posture!Init
<1>2. TypeOK /\ [Next]_vars => [Posture!Next]_Posture!vars
  BY StepForms, TypedIsOK, PostureStep
<1> QED
  BY <1>1, <1>2, TypeCorrect, PTL DEF Spec, PostureSpec, Posture!Spec

-----------------------------------------------------------------------------
(***************************************************************************)
(* The posture as a function of the commands taken.  A fresh command is    *)
(* newer than all of them, so it is the newest writer of what it writes.   *)
(***************************************************************************)
\* Whatever was taken is no newer than the applied version: commands are taken
\* in version order, the strengthening the history properties rest on.
TakenIsApplied == \A c \in taken : c.version <= applied

LEMMA TakenStep ==
    ASSUME NodeOK, TakenIsApplied, SessionStep
    PROVE  TakenIsApplied'
<1>0. /\ applied \in Nat
      /\ \A c \in taken : c.version \in Nat
  BY DEF NodeOK
<1>1. ASSUME NEW v \in Nat, NEW d, Apply(v, d)
      PROVE  TakenIsApplied'
  <2>1. CASE UNCHANGED <<nodeVars, taken>>
    BY <2>1 DEF nodeVars, TakenIsApplied
  <2>2. CASE v > applied /\ applied' = v /\ UNCHANGED taken
    BY <1>0, <2>2 DEF TakenIsApplied
  <2>3. CASE v > applied /\ SetFlags(v, d)
    BY <1>0, <2>3 DEF TakenIsApplied, SetFlags
  <2> QED
    BY <1>0, <1>1, <2>1, <2>2, <2>3, ApplyForms
<1>2. CASE Idles
  BY <1>0, <1>2 DEF Idles, TakenIsApplied
<1>3. CASE Takes
  BY <1>3, TakesDrain DEF Drains, TakenIsApplied
<1> QED
  BY <1>1, <1>2, <1>3 DEF SessionStep

\* What was taken is older than a command that is not stale.
LEMMA NewerThanTaken ==
    ASSUME NodeOK, TakenIsApplied, NEW v \in Nat, v > applied
    PROVE  /\ applied \in Nat
           /\ \A c \in taken : c.version \in Nat /\ c.version < v
<1>1. applied \in Nat /\ \A c \in taken : c.version \in Nat
  BY DEF NodeOK
<1> QED
  BY <1>1 DEF TakenIsApplied

\* A history that does not move agrees as it did with what does not move.
LEMMA FrameFollows ==
    ASSUME UNCHANGED taken
    PROVE  /\ UNCHANGED <<stopped, cap>> =>
                  /\ StoppedFollowsTaken => StoppedFollowsTaken'
                  /\ CapIsTightest => CapIsTightest'
           /\ PausedFollowsTaken /\ UNCHANGED paused => PausedFollowsTaken'
BY DEF StoppedFollowsTaken, PausedFollowsTaken, CapIsTightest, TakenCaps, Writers

\* The flags after a command newer than all those taken.  What it writes under
\* `paused` holds whatever was there before.
LEMMA FlagsFollow ==
    ASSUME NodeOK, TakenIsApplied,
           NEW v \in Nat, NEW d, Body(d), v > applied, SetFlags(v, d)
    PROVE  /\ StoppedFollowsTaken => StoppedFollowsTaken'
           /\ Writes(d, "paused") \/ PausedFollowsTaken => PausedFollowsTaken'
<1> DEFINE new == [version |-> v, delta |-> d]
<1>0. /\ new.version = v /\ new.delta = d
      /\ taken' = taken \cup {new}
      /\ ~stopped
      /\ stopped' = IF Writes(d, "stopped") THEN d["stopped"] ELSE stopped
      /\ paused' = IF Writes(d, "paused") THEN d["paused"] ELSE paused
  BY DEF SetFlags
<1>1. /\ applied \in Nat
      /\ \A c \in taken : c.version \in Nat /\ c.version < v
  BY NewerThanTaken
<1> HIDE DEF new
<1>2. \A k : Writers(k)' = Writers(k) \cup (IF Writes(d, k) THEN {new} ELSE {})
  BY <1>0 DEF Writers
<1>3. StoppedFollowsTaken => StoppedFollowsTaken'
  BY <1>0, <1>2 DEF StoppedFollowsTaken, Body, NodeOK
<1>4. CASE Writes(d, "paused")
  <2>1. \A e \in Writers("paused")' : e.version <= new.version
    BY <1>0, <1>1, <1>2, <1>4 DEF Writers
  <2>2. PausedFollowsTaken'
    BY <1>0, <1>2, <1>4, <2>1 DEF PausedFollowsTaken
  <2> QED
    BY <1>3, <2>2
<1>5. CASE ~Writes(d, "paused")
  <2>1. PausedFollowsTaken => PausedFollowsTaken'
    BY <1>0, <1>2, <1>5 DEF PausedFollowsTaken
  <2> QED
    BY <1>3, <1>5, <2>1
<1> QED
  BY <1>4, <1>5

\* The caps named so far, after one more command.
LEMMA TakenCapsGrow ==
    ASSUME NEW v, NEW d, SetFlags(v, d)
    PROVE  TakenCaps' = TakenCaps \cup
               (IF Names(d, "budget_cap_calls") THEN {d["budget_cap_calls"]} ELSE {})
<1> DEFINE new == [version |-> v, delta |-> d]
<1>1. taken' = taken \cup {new} /\ new.delta = d
  BY DEF SetFlags
<1> HIDE DEF new
<1> QED
  BY <1>1 DEF TakenCaps

\* Every cap named is an integer.
LEMMA TakenCapsAreInt ==
    ASSUME NodeOK
    PROVE  TakenCaps \subseteq Int
BY ConfigType DEF NodeOK, Body, TakenCaps

\* The cap after a command that is refused as a widening, and after one that
\* is not.
LEMMA CapFollows ==
    ASSUME NodeOK, CapIsTightest, NEW v \in Nat, NEW d, Body(d),
           SetFlags(v, d),
           (Widens(d) /\ UNCHANGED cap) \/ Accept(v, d)
    PROVE  CapIsTightest'
<1>0. TakenCaps \subseteq Int /\ cap \in Int \cup {None} /\ None \notin Int
  BY TakenCapsAreInt, NoneIsNoValue DEF NodeOK
<1>1. Names(d, "budget_cap_calls") => d["budget_cap_calls"] \in Int
  BY DEF Body
<1>2. TakenCaps' = TakenCaps \cup
          (IF Names(d, "budget_cap_calls") THEN {d["budget_cap_calls"]} ELSE {})
  BY TakenCapsGrow
<1>3. CASE ~Names(d, "budget_cap_calls")
  <2>1. cap' = cap /\ TakenCaps' = TakenCaps
    BY <1>2, <1>3 DEF Accept, Arm, Widens
  <2> QED
    BY <2>1 DEF CapIsTightest
<1>4. CASE Names(d, "budget_cap_calls") /\ Widens(d) /\ cap' = cap
  <2>1. cap # None /\ d["budget_cap_calls"] > cap
    BY <1>4 DEF Widens
  <2>2. cap \in TakenCaps /\ \A n \in TakenCaps : cap <= n
    BY <2>1 DEF CapIsTightest
  <2>3. \A n \in TakenCaps' : cap <= n
    BY <1>0, <1>1, <1>2, <2>1, <2>2
  <2> QED
    BY <1>2, <1>4, <2>2, <2>3 DEF CapIsTightest
<1>5. CASE Names(d, "budget_cap_calls") /\ Accept(v, d)
  <2>1. /\ cap' = d["budget_cap_calls"] /\ cap' \in Int
        /\ cap # None => cap' <= cap
    BY <1>0, <1>1, <1>5 DEF Accept, Arm, Widens
  <2>2. \A n \in TakenCaps : cap' <= n
    BY <1>0, <2>1 DEF CapIsTightest
  <2> QED
    BY <1>2, <1>5, <2>1, <2>2 DEF CapIsTightest
<1> QED
  BY <1>3, <1>4, <1>5

\* Stopping and the cap across a step.
LEMMA HistoryStep ==
    ASSUME NodeOK, TakenIsApplied, StoppedFollowsTaken, CapIsTightest, SessionStep
    PROVE  StoppedFollowsTaken' /\ CapIsTightest'
<1>1. ASSUME NEW v \in Nat, NEW d, Body(d), Apply(v, d)
      PROVE  StoppedFollowsTaken' /\ CapIsTightest'
  <2>1. CASE UNCHANGED <<posture, taken>>
    BY <2>1, FrameFollows DEF posture
  <2>2. CASE v > applied /\ SetFlags(v, d)
             /\ ((Widens(d) /\ UNCHANGED cap) \/ Accept(v, d))
    BY <1>1, <2>2, FlagsFollow, CapFollows
  <2> QED
    BY <1>1, <2>1, <2>2, ApplyForms DEF NodeOK, nodeVars
<1>2. CASE Idles \/ Takes
  BY <1>2, FrameFollows, TakesDrain DEF Idles, Drains, posture
<1> QED
  BY <1>1, <1>2 DEF SessionStep

\* Pausing across _apply: a command that is taken and writes `paused` sets it
\* right, any other leaves it as right as it was.
LEMMA PausedApplies ==
    ASSUME NodeOK, TakenIsApplied, NEW v \in Nat, NEW d, Body(d), Apply(v, d)
    PROVE  IF Stale(v) \/ stopped \/ ~Writes(d, "paused")
           THEN paused' = paused /\ (PausedFollowsTaken => PausedFollowsTaken')
           ELSE PausedFollowsTaken'
<1>1. CASE UNCHANGED <<posture, taken>> /\ (Stale(v) \/ stopped)
  BY <1>1, FrameFollows DEF posture
<1>2. CASE v > applied /\ ~stopped /\ SetFlags(v, d)
  <2>1. ~Stale(v)
    BY <1>2 DEF Stale, NodeOK
  <2> QED
    BY <1>2, <2>1, FlagsFollow DEF SetFlags
<1> QED
  BY <1>1, <1>2 DEF Apply, Absorb, RejectWidening, Accept, SetFlags, Stale,
                    nodeVars, NodeOK

\* Pausing across a step.
LEMMA PausedStep ==
    ASSUME NodeOK, TakenIsApplied, PausedFollowsTaken, SessionStep
    PROVE  PausedFollowsTaken'
<1>1. ASSUME NEW v \in Nat, NEW d, Body(d), Apply(v, d)
      PROVE  PausedFollowsTaken'
  BY <1>1, PausedApplies
<1>2. CASE Idles \/ Takes
  BY <1>2, FrameFollows, TakesDrain DEF Idles, Drains, posture
<1> QED
  BY <1>1, <1>2 DEF SessionStep

-----------------------------------------------------------------------------
(***************************************************************************)
(* One-shots: the outbox is the evidence, consumed_ids the memory.         *)
(***************************************************************************)
\* A step that fires nothing.
Quiet ==
    /\ consumed' = consumed
    /\ \/ outbox' = outbox
       \/ \E e : e.kind \notin FireKind /\ outbox' = Append(outbox, e)

\* A step that fires an id not consumed before, and remembers it.
FiresOnce ==
    \E kind \in FireKind, id \in Id \ consumed :
        /\ kind = "replan_applied" => id # NoId
        /\ consumed' = consumed \cup {id}
        /\ outbox' = Append(outbox, [kind |-> kind, id |-> id])

\* A step that fires a replan without an id.
FiresAnonymously ==
    /\ consumed' = consumed
    /\ outbox' = Append(outbox, [kind |-> "replan_applied", id |-> NoId])

\* _apply fires nothing.
LEMMA ApplyIsQuiet ==
    ASSUME NEW v, NEW d, Apply(v, d)
    PROVE  Quiet
<1>1. ASSUME NEW result \in {"noop_absorbed", "rejected_widening", "sig_invalid"},
             Report(v, result), consumed' = consumed
      PROVE  Quiet
  <2> DEFINE e == [kind |-> "state_applied", version |-> v, result |-> result]
  <2>1. e.kind \notin FireKind
    BY DEF FireKind
  <2>2. outbox' = Append(outbox, e)
    BY <1>1 DEF Report
  <2> QED
    BY <1>1, <2>1, <2>2 DEF Quiet
<1> QED
  BY <1>1 DEF Apply, Absorb, RejectWidening, Accept, Quiet, nodeVars

\* Refusals and dropped duplicates fire nothing.
LEMMA RefuseIsQuiet ==
    ASSUME NEW id, NEW kind \in RefuseKind, Refuse(kind, id)
    PROVE  Quiet
<1> DEFINE e == [kind |-> kind, id |-> id]
<1>1. e.kind \notin FireKind
  BY DEF FireKind, RefuseKind
<1>2. outbox' = Append(outbox, e) /\ consumed' = consumed
  BY DEF Refuse, Ack
<1> QED
  BY <1>1, <1>2 DEF Quiet

\* Only the host's takes fire: every other step is quiet.
LEMMA OnlyTakesFire ==
    ASSUME SessionStep
    PROVE  Quiet \/ Takes
<1>1. ASSUME NEW v, Report(v, "sig_invalid"), consumed' = consumed
      PROVE  Quiet
  <2>1. PICK e : e = [kind |-> "state_applied", version |-> v, result |-> "sig_invalid"]
    OBVIOUS
  <2>2. e.kind \notin FireKind /\ outbox' = Append(outbox, e)
    BY <1>1, <2>1 DEF Report, FireKind
  <2> QED
    BY <1>1, <2>2 DEF Quiet
<1>2. CASE Idles
  BY <1>1, <1>2 DEF Idles, Quiet
<1> QED
  BY <1>2, ApplyIsQuiet DEF SessionStep

\* A dropped duplicate fires nothing.
LEMMA DropIsQuiet ==
    ASSUME NEW id, DropDuplicate(id)
    PROVE  Quiet
BY DEF DropDuplicate, Quiet

\* The case split: a step fires nothing, one fresh id, or a nameless replan.
LEMMA EvidenceForms ==
    ASSUME NodeOK, SessionStep
    PROVE  Quiet \/ FiresOnce \/ FiresAnonymously
<1>1. ASSUME NEW id \in Id \ consumed, NEW kind \in FireKind, Fire(kind, id),
             kind = "replan_applied" => id # NoId
      PROVE  FiresOnce
  BY <1>1 DEF Fire, Ack, FiresOnce
<1>2. ASSUME take_pending_injection PROVE Quiet \/ FiresOnce
  BY <1>1, <1>2, DropIsQuiet, RefuseIsQuiet
     DEF take_pending_injection, NodeOK, FireKind, RefuseKind
<1>3. ASSUME NEW config, take_pending_excision(config) PROVE Quiet \/ FiresOnce
  <2>1. excision.id \in Id
    BY <1>3 DEF take_pending_excision, NodeOK, Excision
  <2> QED
    BY <1>1, <1>3, <2>1, DropIsQuiet, RefuseIsQuiet
       DEF take_pending_excision, FireKind, RefuseKind
<1>4. ASSUME take_pending_replan PROVE Quiet \/ FiresOnce \/ FiresAnonymously
  <2>1. replan \in Id
    BY <1>4 DEF take_pending_replan, NodeOK
  <2>2. CASE replan # NoId /\ DropDuplicate(replan)
    BY <2>2, DropIsQuiet
  <2>3. CASE Refuse("replan_refused", replan)
    BY <2>3, RefuseIsQuiet DEF RefuseKind
  <2>4. CASE replan = NoId /\ Ack("replan_applied", replan) /\ UNCHANGED consumed
    BY <2>4 DEF Ack, FiresAnonymously
  <2>5. CASE replan # NoId /\ replan \notin consumed /\ Fire("replan_applied", replan)
    BY <1>1, <2>1, <2>5 DEF FireKind
  <2> QED
    BY <1>4, <2>2, <2>3, <2>4, <2>5 DEF take_pending_replan
<1> QED
  BY <1>2, <1>3, <1>4, OnlyTakesFire DEF Takes

\* What an append does to the evidence: the old entries stay, one is added.
LEMMA AppendedEvidence ==
    ASSUME outbox \in Seq(Note), NEW e, outbox' \in Seq(Note),
           outbox' = Append(outbox, e)
    PROVE  /\ Len(outbox) \in Nat
           /\ Len(outbox') = Len(outbox) + 1
           /\ 1..Len(outbox') = 1..Len(outbox) \cup {Len(outbox')}
           /\ outbox'[Len(outbox')] = e
           /\ \A i \in 1..Len(outbox) :
                 outbox'[i] = outbox[i]
<1>1. /\ Len(outbox) \in Nat
      /\ Len(outbox') = Len(outbox) + 1
      /\ outbox'[Len(outbox')] = e
      /\ \A i \in 1..Len(outbox) : outbox'[i] = outbox[i]
  OBVIOUS
<1>2. 1..Len(outbox') = 1..Len(outbox) \cup {Len(outbox')}
  BY <1>1
<1> QED
  BY <1>1, <1>2

\* The two evidence invariants across one step.
LEMMA EvidenceStep ==
    ASSUME NodeOK, NodeOK', ConsumedIsAcknowledged, OneShotAtMostOnce,
           Quiet \/ FiresOnce \/ FiresAnonymously
    PROVE  ConsumedIsAcknowledged' /\ OneShotAtMostOnce'
<1>0. outbox \in Seq(Note) /\ outbox' \in Seq(Note) /\ NoId \in Id
  BY NoIdIsId DEF NodeOK
<1> DEFINE last == Len(outbox')
<1>1. CASE consumed' = consumed /\ outbox' = outbox
  BY <1>1 DEF ConsumedIsAcknowledged, OneShotAtMostOnce
<1>2. ASSUME NEW e, outbox' = Append(outbox, e), consumed' = consumed,
             ~Fired(e) \/ Anonymous(e)
      PROVE  ConsumedIsAcknowledged' /\ OneShotAtMostOnce'
  <2>1. /\ 1..Len(outbox') = 1..Len(outbox) \cup {last}
        /\ outbox'[last] = e
        /\ \A i \in 1..Len(outbox) :
               outbox'[i] = outbox[i]
    BY <1>0, <1>2, AppendedEvidence
  <2>2. ConsumedIsAcknowledged'
    BY <1>2, <2>1 DEF ConsumedIsAcknowledged
  <2>3. OneShotAtMostOnce'
    BY <1>2, <2>1 DEF OneShotAtMostOnce
  <2> QED
    BY <2>2, <2>3
<1>3. CASE Quiet
  BY <1>1, <1>2, <1>3 DEF Quiet, Fired
<1>4. CASE FiresAnonymously
  BY <1>2, <1>4 DEF FiresAnonymously, Anonymous
<1>5. CASE FiresOnce
  <2>1. PICK kind \in FireKind, id \in Id \ consumed :
            /\ kind = "replan_applied" => id # NoId
            /\ consumed' = consumed \cup {id}
            /\ outbox' = Append(outbox, [kind |-> kind, id |-> id])
    BY <1>5 DEF FiresOnce
  <2>2. /\ 1..Len(outbox') = 1..Len(outbox) \cup {last}
        /\ outbox'[last] = [kind |-> kind, id |-> id]
        /\ \A i \in 1..Len(outbox) :
               outbox'[i] = outbox[i]
    BY <1>0, <2>1, AppendedEvidence
  <2>3. /\ Fired(outbox'[last]) /\ ~Anonymous(outbox'[last])
        /\ outbox'[last].id = id
    BY <2>1, <2>2 DEF Fired, Anonymous
  <2>4. \A i \in 1..Len(outbox) :
            Fired(outbox[i]) /\ ~Anonymous(outbox[i]) => outbox[i].id # id
    <3>1. id \in Id /\ id \notin consumed
      BY <2>1
    <3> QED
      BY <3>1 DEF ConsumedIsAcknowledged
  <2>5. ConsumedIsAcknowledged'
    BY <2>1, <2>2, <2>3 DEF ConsumedIsAcknowledged
  <2>6. OneShotAtMostOnce'
    BY <2>2, <2>3, <2>4 DEF OneShotAtMostOnce
  <2> QED
    BY <2>5, <2>6
<1> QED
  BY <1>3, <1>4, <1>5

-----------------------------------------------------------------------------
(***************************************************************************)
(* A pending one-shot is the newest armed.                                 *)
(***************************************************************************)
\* ArmedBy over a set of commands: what s holds is of the newest of them.
ArmedIn(A, k, s) ==
    s # None =>
        \E c \in A : s = c.delta[k] /\ \A e \in A : e.version <= c.version

\* A command newer than all of them either arms the slot or leaves it.
LEMMA NewerArms ==
    ASSUME NEW A, NEW k, NEW s, ArmedIn(A, k, s), NEW c,
           c.version \in Nat,
           \A e \in A : e.version \in Nat /\ e.version < c.version
    PROVE  ArmedIn(A \cup {c}, k, c.delta[k])
BY DEF ArmedIn

\* A command already taken widens or not by what was taken before it.
LEMMA WidenedIsSettled ==
    ASSUME NEW v, NEW d, SetFlags(v, d), NEW c, c.version \in Nat, v \in Nat,
           c.version < v
    PROVE  Widened(c)' <=> Widened(c)
BY DEF SetFlags, Widened, Names, Writes

\* The new command widens exactly when it is wider than the cap it meets.
LEMMA WidenedIsRefused ==
    ASSUME NodeOK, CapIsTightest, TakenIsApplied,
           NEW v \in Nat, NEW d, Body(d), v > applied, SetFlags(v, d)
    PROVE  Widened([version |-> v, delta |-> d])' <=> Widens(d)
<1> DEFINE new == [version |-> v, delta |-> d]
<1>0. /\ applied \in Nat
      /\ \A e \in taken : e.version \in Nat /\ e.version < v
  BY NewerThanTaken
<1>1. /\ TakenCaps \subseteq Int /\ None \notin Int
      /\ cap \in Int \cup {None} /\ LocalCap \in Int \cup {None}
  BY TakenCapsAreInt, NoneIsNoValue, ConfigType DEF NodeOK
<1>2. taken' = taken \cup {new} /\ new.version = v /\ new.delta = d
  BY DEF SetFlags
<1> HIDE DEF new
<1>3. ASSUME ~Names(d, "budget_cap_calls")
      PROVE  Widened(new)' <=> Widens(d)
  BY <1>2, <1>3 DEF Widened, Widens
<1>4. ASSUME Names(d, "budget_cap_calls")
      PROVE  Widened(new)' <=> Widens(d)
  <2> DEFINE n == d["budget_cap_calls"]
  <2>0. n \in Int
    BY <1>4 DEF Body
  <2>1. Widened(new)' <=> \E t \in TakenCaps : t < n
    <3>1. Widened(new)' <=>
              \/ LocalCap # None /\ n > LocalCap
              \/ \E e \in taken : /\ Names(e.delta, "budget_cap_calls")
                                  /\ e.delta["budget_cap_calls"] < n
      BY <1>0, <1>2, <1>4 DEF Widened, Names, Writes
    <3>2. (\E t \in TakenCaps : t < n) <=>
              \/ LocalCap # None /\ LocalCap < n
              \/ \E e \in taken : /\ Names(e.delta, "budget_cap_calls")
                                  /\ e.delta["budget_cap_calls"] < n
      BY DEF TakenCaps
    <3>3. LocalCap # None => (n > LocalCap <=> LocalCap < n)
      BY <1>1, <2>0
    <3> QED
      BY <3>1, <3>2, <3>3
  <2>2. Widens(d) <=> cap # None /\ cap < n
    BY <1>1, <1>4, <2>0 DEF Widens
  <2>3. (\E t \in TakenCaps : t < n) <=> cap # None /\ cap < n
    BY <1>1, <2>0 DEF CapIsTightest
  <2> QED
    BY <2>1, <2>2, <2>3
<1> QED
  BY <1>3, <1>4 DEF new

\* One command taken: each slot is its, or stays what it was.
LEMMA ArmingStep ==
    ASSUME NodeOK, CapIsTightest, TakenIsApplied, ArmedByNewest,
           NEW v \in Nat, NEW d, Body(d), v > applied, SetFlags(v, d),
           (Widens(d) /\ UNCHANGED slots) \/ Accept(v, d)
    PROVE  ArmedByNewest'
<1> DEFINE new == [version |-> v, delta |-> d]
<1>0. /\ applied \in Nat
      /\ \A e \in taken : e.version \in Nat /\ e.version < v
  BY NewerThanTaken
<1>1. taken' = taken \cup {new} /\ new.version = v /\ new.delta = d
  BY DEF SetFlags
<1>2. Widened(new)' <=> Widens(d)
  BY WidenedIsRefused
<1>3. \A c \in taken : Widened(c)' <=> Widened(c)
  BY <1>0, WidenedIsSettled
<1> HIDE DEF new
<1>4. ASSUME NEW k
      PROVE  Armers(k)' =
                 Armers(k) \cup (IF Names(d, k) /\ ~Widens(d) THEN {new} ELSE {})
  BY <1>1, <1>2, <1>3 DEF Armers
<1>5. \A k : \A e \in Armers(k) : e.version \in Nat /\ e.version < new.version
  BY <1>0, <1>1 DEF Armers
<1>6. ASSUME NEW k, NEW s, NEW t, ArmedIn(Armers(k), k, s),
             t = IF Names(d, k) /\ ~Widens(d) THEN d[k] ELSE s
      PROVE  ArmedIn(Armers(k)', k, t)
  <2>1. CASE Names(d, k) /\ ~Widens(d)
    <3>1. ArmedIn(Armers(k) \cup {new}, k, new.delta[k])
      BY <1>0, <1>1, <1>5, <1>6, NewerArms
    <3> QED
      BY <1>1, <1>4, <1>6, <2>1, <3>1
  <2>2. CASE ~(Names(d, k) /\ ~Widens(d))
    BY <1>4, <1>6, <2>2
  <2> QED
    BY <2>1, <2>2
<1>7. /\ injection' = IF Names(d, "pending_injection") /\ ~Widens(d)
                      THEN d["pending_injection"] ELSE injection
      /\ excision' = IF Names(d, "pending_excision") /\ ~Widens(d)
                     THEN d["pending_excision"] ELSE excision
      /\ replan' = IF Names(d, "replan") /\ ~Widens(d)
                   THEN d["replan"] ELSE replan
  BY DEF Accept, Arm, slots
<1>8. /\ ArmedIn(Armers("pending_injection"), "pending_injection", injection)
      /\ ArmedIn(Armers("pending_excision"), "pending_excision", excision)
      /\ ArmedIn(Armers("replan"), "replan", replan)
  BY DEF ArmedByNewest, ArmedBy, ArmedIn
<1>9. /\ ArmedIn(Armers("pending_injection")', "pending_injection", injection')
      /\ ArmedIn(Armers("pending_excision")', "pending_excision", excision')
      /\ ArmedIn(Armers("replan")', "replan", replan')
  BY <1>6, <1>7, <1>8
<1> QED
  BY <1>9 DEF ArmedByNewest, ArmedBy, ArmedIn

\* The history stays and each slot stays or empties.
LEMMA SlotsEmpty ==
    ASSUME ArmedByNewest, taken' = taken,
           injection' \in {injection, None},
           excision' \in {excision, None},
           replan' \in {replan, None}
    PROVE  ArmedByNewest'
BY DEF ArmedByNewest, ArmedBy, Armers, Widened

\* The slots across a step.
LEMMA ArmedStep ==
    ASSUME NodeOK, CapIsTightest, TakenIsApplied, ArmedByNewest, SessionStep
    PROVE  ArmedByNewest'
<1>1. ASSUME NEW v \in Nat, NEW d, Body(d), Apply(v, d)
      PROVE  ArmedByNewest'
  <2>1. CASE UNCHANGED <<slots, taken>>
    BY <2>1, SlotsEmpty DEF slots
  <2>2. CASE /\ v > applied /\ SetFlags(v, d)
             /\ (Widens(d) /\ UNCHANGED slots) \/ Accept(v, d)
    BY <1>1, <2>2, ArmingStep
  <2> QED
    BY <1>1, <2>1, <2>2, ApplyForms DEF NodeOK, nodeVars
<1>2. CASE Idles
  BY <1>2, SlotsEmpty DEF Idles, slots
<1>3. CASE Takes
  BY <1>3, TakesDrain, SlotsEmpty DEF Drains
<1> QED
  BY <1>1, <1>2, <1>3 DEF SessionStep

-----------------------------------------------------------------------------
(***************************************************************************)
(* What holds of a session, from its start on.  Pausing stands beside it:  *)
(* its own client's hold may pause a node as well (PlaneReconnect).        *)
(***************************************************************************)
SessionInv ==
    /\ NodeOK
    /\ TakenIsApplied
    /\ StoppedFollowsTaken
    /\ CapIsTightest
    /\ ConsumedIsAcknowledged
    /\ OneShotAtMostOnce
    /\ ArmedByNewest

\* A node as its process starts it.
Started ==
    /\ applied = 0
    /\ stopped = FALSE
    /\ paused = FALSE
    /\ cap = LocalCap
    /\ injection = None
    /\ excision = None
    /\ replan = None
    /\ consumed = {}
    /\ outbox = <<>>
    /\ taken = {}

\* It holds of a node that has taken nothing.
LEMMA SessionBegins == Started => SessionInv /\ PausedFollowsTaken
<1> SUFFICES ASSUME Started PROVE SessionInv /\ PausedFollowsTaken
  OBVIOUS
<1> USE DEF Started
<1>1. NodeOK
  <2>1. cap \in Int \cup {None}
    BY ConfigType
  <2>2. outbox \in Seq(Note)
    OBVIOUS
  <2> QED
    BY <2>1, <2>2 DEF NodeOK
<1>2. \A k : Writers(k) = {}
  BY DEF Writers
<1>3. TakenIsApplied /\ StoppedFollowsTaken /\ PausedFollowsTaken
  BY <1>2 DEF TakenIsApplied, StoppedFollowsTaken, PausedFollowsTaken
<1>4. CapIsTightest
  <2>1. TakenCaps = {LocalCap} \ {None}
    BY DEF TakenCaps
  <2>2. CASE LocalCap = None
    <3>1. TakenCaps = {} /\ cap = None
      BY <2>1, <2>2
    <3> QED
      BY <3>1 DEF CapIsTightest
  <2>3. CASE LocalCap # None
    <3>1. TakenCaps = {cap} /\ cap \in Int
      BY <2>1, <2>3, ConfigType
    <3> QED
      BY <3>1 DEF CapIsTightest
  <2> QED
    BY <2>2, <2>3
<1>5. ConsumedIsAcknowledged /\ OneShotAtMostOnce
  <2>1. 1..Len(outbox) = {}
    OBVIOUS
  <2> QED
    BY <2>1 DEF ConsumedIsAcknowledged, OneShotAtMostOnce
<1>6. ArmedByNewest
  BY DEF ArmedByNewest, ArmedBy
<1> QED
  BY <1>1, <1>3, <1>4, <1>5, <1>6 DEF SessionInv

\* And every step of a session keeps it.
LEMMA SessionKept ==
    ASSUME SessionInv, SessionStep
    PROVE  SessionInv'
<1> USE DEF SessionInv
<1>1. NodeOK'
  BY NodeKept
<1>2. TakenIsApplied' /\ StoppedFollowsTaken' /\ CapIsTightest'
  BY TakenStep, HistoryStep
<1>3. ConsumedIsAcknowledged' /\ OneShotAtMostOnce'
  BY <1>1, EvidenceForms, EvidenceStep
<1>4. ArmedByNewest'
  BY ArmedStep
<1> QED
  BY <1>1, <1>2, <1>3, <1>4

\* All of it, of every behaviour.
THEOREM SessionHolds == Spec => [](SessionInv /\ PausedFollowsTaken)
<1>1. Init => SessionInv /\ PausedFollowsTaken
  BY SessionBegins DEF Init, Started
<1>2. TypeOK /\ SessionInv /\ PausedFollowsTaken /\ [Next]_vars
        => (SessionInv /\ PausedFollowsTaken)'
  BY StepForms, SessionKept, PausedStep DEF SessionInv
<1> QED
  BY <1>1, <1>2, TypeCorrect, PTL DEF Spec

\* The flags and the cap are those the taken commands leave in version order,
\* whichever way they came (session.py:106-110).
THEOREM PostureIsHistory == Spec => [](PostureFollowsTaken /\ CapIsTightest)
<1>1. SessionInv /\ PausedFollowsTaken => PostureFollowsTaken /\ CapIsTightest
  BY DEF SessionInv, PostureFollowsTaken
<1> QED
  BY <1>1, SessionHolds, PTL

\* The cap is the tightest of the local one and of every cap named to the
\* running node, refused widenings included (session.py:13).
THEOREM TightestCap == Spec => []CapIsTightest
BY PostureIsHistory, PTL

\* No id fires twice, and the ids a heartbeat calls consumed are exactly those
\* an acknowledgement was appended for (session.py:14, 301-304, 371).
THEOREM FiresAtMostOnce == Spec => [](ConsumedIsAcknowledged /\ OneShotAtMostOnce)
<1>1. SessionInv => ConsumedIsAcknowledged /\ OneShotAtMostOnce
  BY DEF SessionInv
<1> QED
  BY <1>1, SessionHolds, PTL

\* The ids a heartbeat calls consumed are those acknowledged
\* (session.py:301-304, 329-330, 359-361, 371).
THEOREM AcknowledgedOnly == Spec => []ConsumedIsAcknowledged
BY FiresAtMostOnce, PTL

\* A pending one-shot is the one of the newest command that armed the slot
\* (session.py:224-265).
THEOREM PendingIsNewest == Spec => []ArmedByNewest
<1>1. SessionInv => ArmedByNewest
  BY DEF SessionInv
<1> QED
  BY <1>1, SessionHolds, PTL

-----------------------------------------------------------------------------
(***************************************************************************)
(* A stopped node.                                                         *)
(***************************************************************************)
\* A step that fires neither an injection nor a replan.
Unsteered ==
    \/ outbox' = outbox
    \/ \E e : /\ e.kind \notin {"injection_consumed", "replan_applied"}
              /\ outbox' = Append(outbox, e)

\* A step of a stopped node is one.
LEMMA StoppedStep ==
    ASSUME NodeOK, SessionStep, stopped
    PROVE  ~Appended({"injection_consumed", "replan_applied"})
<1>1. Unsteered
  <2>1. Quiet => Unsteered
    BY DEF Quiet, Unsteered, FireKind
  <2>2. CASE take_pending_injection
    BY <2>1, <2>2, DropIsQuiet, RefuseIsQuiet
       DEF take_pending_injection, RefuseKind
  <2>3. ASSUME NEW config, take_pending_excision(config) PROVE Unsteered
    <3>1. CASE Fire("context_excision", excision.id)
      <4> DEFINE e == [kind |-> "context_excision", id |-> excision.id]
      <4>1. /\ e.kind \notin {"injection_consumed", "replan_applied"}
            /\ outbox' = Append(outbox, e)
        BY <3>1 DEF Fire, Ack
      <4> QED
        BY <4>1 DEF Unsteered
    <3>2. CASE Refuse("excision_refused", excision.id)
      BY <2>1, <3>2, RefuseIsQuiet DEF RefuseKind
    <3> QED
      BY <2>1, <2>3, <3>1, <3>2, DropIsQuiet DEF take_pending_excision
  <2>4. CASE take_pending_replan
    BY <2>1, <2>4, DropIsQuiet, RefuseIsQuiet
       DEF take_pending_replan, RefuseKind
  <2> QED
    BY <2>1, <2>2, <2>3, <2>4, OnlyTakesFire DEF Takes
<1>2. ASSUME outbox \in Seq(Note), outbox' \in Seq(Note), Unsteered
      PROVE  ~Appended({"injection_consumed", "replan_applied"})
  <2>1. CASE outbox' = outbox
    BY <1>2, <2>1 DEF Appended
  <2>2. ASSUME NEW e, e.kind \notin {"injection_consumed", "replan_applied"},
               outbox' = Append(outbox, e)
        PROVE  ~Appended({"injection_consumed", "replan_applied"})
    BY <1>2, <2>2, AppendedEvidence DEF Appended
  <2> QED
    BY <1>2, <2>1, <2>2 DEF Unsteered
<1> QED
  BY <1>1, <1>2, NodeKept DEF NodeOK

\* A stopped node fires neither (session.py:286-294, 353-358).
THEOREM StoppedNodeIsNotSteered == Spec => StoppedIsNotSteered
<1>1. TypeOK /\ [Next]_vars =>
        [stopped => ~Appended({"injection_consumed", "replan_applied"})]_vars
  BY TypedIsOK, StepForms, StoppedStep
<1> QED
  BY <1>1, TypeCorrect, PTL DEF Spec, StoppedIsNotSteered

-----------------------------------------------------------------------------
(***************************************************************************)
(* Integrity of a keyed node.                                              *)
(***************************************************************************)
\* The step NewerSignedOnly admits: nothing of note moves...
Harmless ==
    /\ UNCHANGED posture
    /\ ~Arms(injection', injection)
    /\ ~Arms(excision', excision)
    /\ ~Arms(replan', replan)

\* ...or a signed command newer than the applied version is taken, and only
\* what it writes moves.
ObeysSigned(c) ==
    /\ c.version = applied'
    /\ Changes(stopped', stopped) => Writes(c.delta, "stopped")
    /\ Changes(paused', paused) => Writes(c.delta, "paused")
    /\ Changes(cap', cap) => Names(c.delta, "budget_cap_calls")
    /\ Arms(injection', injection) => Names(c.delta, "pending_injection")
    /\ Arms(excision', excision) => Names(c.delta, "pending_excision")
    /\ Arms(replan', replan) => Names(c.delta, "replan")

\* Running _apply on a signed command is one or the other.
LEMMA SignedObeys ==
    ASSUME TypeOK, NEW c \in issued, Apply(c.version, c.delta)
    PROVE  Harmless \/ (applied' > applied /\ ObeysSigned(c))
<1>0. /\ c.version \in Nat /\ applied \in Nat
  BY VersionType DEF TypeOK, Command
<1> USE DEF posture, slots
<1>1. CASE UNCHANGED <<posture, slots>>
  BY <1>1 DEF Harmless, Arms
<1>2. ASSUME c.version > applied, SetFlags(c.version, c.delta)
      PROVE  /\ applied' = c.version /\ applied' > applied
             /\ Changes(stopped', stopped) => Writes(c.delta, "stopped")
             /\ Changes(paused', paused) => Writes(c.delta, "paused")
  BY <1>2 DEF SetFlags, Changes
<1>3. CASE /\ c.version > applied /\ SetFlags(c.version, c.delta)
           /\ UNCHANGED <<cap, slots>>
  BY <1>2, <1>3 DEF ObeysSigned, Changes, Arms
<1>4. CASE /\ c.version > applied /\ SetFlags(c.version, c.delta)
           /\ Accept(c.version, c.delta)
  <2>1. /\ Changes(cap', cap) => Names(c.delta, "budget_cap_calls")
        /\ Arms(injection', injection) => Names(c.delta, "pending_injection")
        /\ Arms(excision', excision) => Names(c.delta, "pending_excision")
        /\ Arms(replan', replan) => Names(c.delta, "replan")
    BY <1>4 DEF Accept, Arm, Changes, Arms
  <2> QED
    BY <1>2, <1>4, <2>1 DEF ObeysSigned
<1> QED
  BY <1>0, <1>1, <1>3, <1>4, ApplyForms DEF nodeVars

\* On a keyed node _apply only ever runs on a command an operator signed.
LEMMA SignedStepForms ==
    ASSUME TypeOK, Next, keyed
    PROVE  \/ \E c \in issued : Apply(c.version, c.delta)
           \/ Idles
           \/ Drains
<1> USE DEF TypeOK, posture, slots
<1>1. ASSUME NEW v, NEW d, Issue(v, d) \/ ApplyOpenSnapshot(v, d)
      PROVE  Idles
  BY <1>1 DEF Issue, ApplyOpenSnapshot, nodeVars, Idles
<1>2. ASSUME NEW c \in Wire, ApplyDelta(c)
      PROVE  Idles \/ \E e \in issued : Apply(e.version, e.delta)
  <2>1. c.version \in Nat
    BY VersionType, CommandType DEF Wire, Command
  <2> QED
    BY <1>2, <2>1 DEF ApplyDelta, Verified, RefuseSignature, Idles
<1>3. ASSUME NEW v \in Version, NEW state, NEW commands,
             RefuseSnapshot(v, state, commands) \/ StartReplay(v, state, commands)
      PROVE  Idles
  <2>1. CASE RefuseSnapshot(v, state, commands)
    BY <2>1, VersionType DEF RefuseSnapshot, RefuseSignature, Idles
  <2>2. CASE StartReplay(v, state, commands)
    BY <2>2 DEF StartReplay, nodeVars, Idles
  <2> QED
    BY <1>3, <2>1, <2>2
<1>4. ASSUME NEW c \in rest, ReplayOne(c)
      PROVE  \E e \in issued : Apply(e.version, e.delta)
  BY <1>4 DEF ReplayOne
<1>5. ASSUME FinishReplay PROVE Idles
  BY <1>5, VersionType DEF FinishReplay, Idles
<1>6. CASE Takes
  BY <1>6, TakesDrain
<1> QED
  BY <1>1, <1>2, <1>3, <1>4, <1>5, <1>6 DEF Next, Takes

\* A keyed node obeys only what an operator signed, newer than what it has
\* applied, live or in a snapshot (session.py:6-11, 106-114).
THEOREM ObeysNewerSigned == Spec => NewerSignedOnly
<1>1. TypeOK /\ [Next]_vars =>
        [keyed => \/ Harmless
                  \/ applied' > applied /\ \E c \in issued : ObeysSigned(c)]_vars
  <2> SUFFICES ASSUME TypeOK, Next, keyed
               PROVE  \/ Harmless
                      \/ applied' > applied /\ \E c \in issued : ObeysSigned(c)
    OBVIOUS
  <2>1. CASE Idles
    BY <2>1 DEF Idles, Harmless, Arms, slots
  <2>2. CASE Drains
    BY <2>2 DEF Drains, Harmless, Arms
  <2>3. ASSUME NEW c \in issued, Apply(c.version, c.delta)
        PROVE  \/ Harmless
               \/ applied' > applied /\ \E e \in issued : ObeysSigned(e)
    BY <2>3, SignedObeys
  <2> QED
    BY <2>1, <2>2, <2>3, SignedStepForms
<1> QED
  BY <1>1, TypeCorrect, PTL DEF Spec, NewerSignedOnly, Harmless, ObeysSigned

-----------------------------------------------------------------------------
(***************************************************************************)
(* The replay of a snapshot.                                               *)
(***************************************************************************)
\* Commands are left to visit only while a replay is under way.
RestOnlyInReplay == idle => rest = {}

\* A step that starts from a running replay visits a lowest command or ends.
LEMMA ReplaySteps ==
    ASSUME [Next]_vars, ~idle
    PROVE  \/ \E c \in rest : ReplayOne(c)
           \/ FinishReplay
           \/ UNCHANGED vars
BY DEF Next, Issue, ApplyDelta, ApplyOpenSnapshot, RefuseSnapshot, StartReplay,
       take_pending_injection, take_pending_excision, take_pending_replan

\* The commands left to visit outlive no replay.
LEMMA RestStep ==
    ASSUME TypeOK, RestOnlyInReplay, [Next]_vars
    PROVE  RestOnlyInReplay'
<1>1. CASE ~idle
  BY <1>1, ReplaySteps DEF idle, RestOnlyInReplay, ReplayOne, FinishReplay, vars
<1>2. CASE idle
  <2> USE <1>2 DEF RestOnlyInReplay, idle
  <2>1. ASSUME NEW v \in Version, NEW state, NEW commands,
               StartReplay(v, state, commands)
        PROVE  RestOnlyInReplay'
    BY <2>1, VersionType DEF StartReplay
  <2>2. ASSUME UNCHANGED <<rest, snapVersion>> PROVE RestOnlyInReplay'
    BY <2>2
  <2>3. ASSUME NEW v, NEW d, Issue(v, d) \/ ApplyOpenSnapshot(v, d)
        PROVE  RestOnlyInReplay'
    BY <2>2, <2>3 DEF Issue, ApplyOpenSnapshot
  <2>4. ASSUME NEW c, ApplyDelta(c) \/ ReplayOne(c) PROVE RestOnlyInReplay'
    BY <2>2, <2>4 DEF ApplyDelta, ReplayOne
  <2>5. ASSUME NEW v, NEW state, NEW commands, RefuseSnapshot(v, state, commands)
        PROVE  RestOnlyInReplay'
    BY <2>2, <2>5 DEF RefuseSnapshot
  <2>6. ASSUME FinishReplay PROVE RestOnlyInReplay'
    BY <2>6 DEF FinishReplay
  <2>7. ASSUME NEW config,
               \/ take_pending_injection
               \/ take_pending_excision(config)
               \/ take_pending_replan
        PROVE  RestOnlyInReplay'
    BY <2>2, <2>7 DEF take_pending_injection, take_pending_excision,
                      take_pending_replan, boundaryFrame
  <2>8. CASE UNCHANGED vars
    BY <2>2, <2>8 DEF vars
  <2> QED
    BY <2>1, <2>3, <2>4, <2>5, <2>6, <2>7, <2>8 DEF Next
<1> QED
  BY <1>1, <1>2

\* A replay passes no command over (session.py:147, 169-172).
THEOREM ReplayVisitsAll == Spec => NoCommandPassedOver
<1>1. Init => RestOnlyInReplay
  BY DEF Init, RestOnlyInReplay
<1>2. ASSUME TypeOK, RestOnlyInReplay, [Next]_vars, NEW c \in rest,
             c.version > applied, c.version <= applied'
      PROVE  c.version = applied'
  <2>0. /\ applied \in Nat
        /\ \A e \in rest : e.version \in Nat /\ e.version \in Version
    BY <1>2, VersionType DEF TypeOK, Command
  <2>1. ~idle
    BY <1>2 DEF RestOnlyInReplay
  <2>2. ASSUME NEW e \in rest, ReplayOne(e) PROVE c.version = applied'
    <3>1. e.version <= c.version
      BY <2>2 DEF ReplayOne, IsNext
    <3>2. applied' = applied \/ applied' = e.version
      BY <2>2, <2>0, ApplyForms DEF ReplayOne, SetFlags, nodeVars
    <3> QED
      BY <1>2, <2>0, <3>1, <3>2
  <2>3. CASE UNCHANGED vars
    BY <1>2, <2>0, <2>3 DEF vars, nodeVars
  <2> QED
    BY <1>2, <2>1, <2>2, <2>3, ReplaySteps DEF FinishReplay
<1>3. TypeOK /\ RestOnlyInReplay /\ [Next]_vars =>
        [\A c \in rest :
           c.version > applied /\ c.version <= applied' => c.version = applied']_vars
  BY <1>2
<1> QED
  BY <1>1, <1>3, RestStep, TypeCorrect, PTL DEF Spec, NoCommandPassedOver
=============================================================================
