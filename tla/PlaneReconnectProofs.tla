------------------------ MODULE PlaneReconnectProofs ------------------------
(***************************************************************************)
(* TLAPS proofs about PlaneReconnect, for every set of command bodies,     *)
(* whatever was cleared and whichever commands a snapshot carries: the     *)
(* snapshot of an honest backend passes the node's checks; a node that has *)
(* caught up is no freer than the desired state, has every one-shot still  *)
(* wanted, and with the whole chain is where one that never was away is;   *)
(* which one-shots a restart or a late /consumed call can bring back or    *)
(* take away; and what PlaneSessionProofs says of a session holds of each  *)
(* life of the node.                                                       *)
(***************************************************************************)
EXTENDS PlaneReconnect, PlaneSessionProofs, InductionLemmas, FiniteSetTheorems,
        TLAPS

\* c is the newest of the commands issued that write k.
IsNewest(c, k) ==
    /\ c \in issued
    /\ Writes(c.delta, k)
    /\ \A e \in issued : Writes(e.delta, k) => e.version <= c.version

\* Versions count up, one command each, and what the state holds under a key
\* the newest writer of that key put there.
Ordered ==
    /\ latest \in Nat
    /\ \A c \in issued :
          c.version \in Nat \ {0} /\ c.version <= latest /\ c.delta \in Delta
    /\ \A c, e \in issued : c.version = e.version => c = e

StateIsNewest ==
    \A k \in DOMAIN state : \E c : IsNewest(c, k) /\ c.delta[k] = state[k]

\* Only an operator's command and a /consumed call move the backend's state.
LEMMA BackendMoves ==
    ASSUME [ReconnectNext]_allVars
    PROVE  \/ \E d \in Delta : Order(d)
           \/ \E k : Clear(k)
           \/ UNCHANGED <<issued, state, latest>>
<1> USE DEF backend
<1>1. ASSUME NEW c, ApplyDelta(c) \/ ReplayOne(c) PROVE UNCHANGED issued
  BY <1>1 DEF ApplyDelta, ReplayOne
<1>2. CASE Reconnect
  BY <1>2 DEF Reconnect, StartReplay, ApplyOpenSnapshot, vars
<1>3. CASE Boundary
  BY <1>3 DEF Boundary, take_pending_injection, take_pending_excision,
              take_pending_replan, boundaryFrame
<1>4. CASE Disconnect \/ Hold \/ Restart
  BY <1>4 DEF Disconnect, Hold, Restart, vars
<1>5. ASSUME NEW c, Push(c) PROVE UNCHANGED <<issued, state, latest>>
  BY <1>1, <1>5 DEF Push
<1>6. ASSUME NEW c, Replay(c) PROVE UNCHANGED <<issued, state, latest>>
  BY <1>1, <1>6 DEF Replay
<1>7. ASSUME FinishReplay, UNCHANGED <<backend, process>>
      PROVE  UNCHANGED <<issued, state, latest>>
  BY <1>7 DEF FinishReplay
<1>8. CASE UNCHANGED allVars
  BY <1>8 DEF allVars, vars
<1> QED
  BY <1>2, <1>3, <1>4, <1>5, <1>6, <1>7, <1>8, CommandType
     DEF ReconnectNext

\* An operator's command is newer than all and writes what the state then
\* holds under its keys.
LEMMA OrderKeeps ==
    ASSUME Ordered, StateIsNewest, NEW d \in Delta, Order(d)
    PROVE  Ordered' /\ StateIsNewest'
<1> PICK new : new = [version |-> latest + 1, delta |-> d]
  OBVIOUS
<1>1. /\ issued' = issued \cup {new} /\ latest' = latest + 1
      /\ DOMAIN state' = DOMAIN state \cup DOMAIN d
      /\ \A k \in DOMAIN state' :
            state'[k] = IF Writes(d, k) THEN d[k] ELSE state[k]
      /\ new.version = latest + 1 /\ new.delta = d
  BY DEF Order
<1>2. \A c \in issued : c.version < new.version
  BY <1>1 DEF Ordered
<1>3. Ordered'
  BY <1>1, <1>2 DEF Ordered
<1>4. ASSUME NEW k \in DOMAIN state'
      PROVE  \E c : IsNewest(c, k)' /\ c.delta[k] = state'[k]
  <2>1. CASE Writes(d, k)
    <3>1. IsNewest(new, k)'
      <4>1. new.version \in Nat /\ \A c \in issued' : c.version <= new.version
        BY <1>1, <1>2 DEF Ordered
      <4> QED
        BY <1>1, <2>1, <4>1 DEF IsNewest
    <3> QED
      BY <1>1, <1>4, <2>1, <3>1
  <2>2. CASE ~Writes(d, k)
    <3>1. k \in DOMAIN state
      BY <1>1, <1>4, <2>2 DEF Writes
    <3>2. PICK c : IsNewest(c, k) /\ c.delta[k] = state[k]
      BY <3>1 DEF StateIsNewest
    <3>3. IsNewest(c, k)'
      BY <1>1, <2>2, <3>2 DEF IsNewest
    <3> QED
      BY <1>1, <1>4, <2>2, <3>2, <3>3
  <2> QED
    BY <2>1, <2>2
<1> QED
  BY <1>3, <1>4 DEF StateIsNewest

\* A /consumed call takes a key away, and the newest writers stay the newest.
LEMMA ClearKeeps ==
    ASSUME Ordered, StateIsNewest, NEW k, Clear(k)
    PROVE  Ordered' /\ StateIsNewest'
<1>1. /\ issued' = issued
      /\ latest' \in {latest, latest + 1}
      /\ DOMAIN state' \subseteq DOMAIN state
      /\ \A key \in DOMAIN state' : state'[key] = state[key]
  BY DEF Clear, vars
<1>2. Ordered'
  BY <1>1 DEF Ordered
<1>3. StateIsNewest'
  BY <1>1 DEF StateIsNewest, IsNewest
<1> QED
  BY <1>2, <1>3

\* The command behind a key of state is in the chain, compacted or whole.
LEMMA ChainAccounts ==
    ASSUME Ordered, StateIsNewest
    PROVE  HonestIsAccepted
<1>1. ASSUME NEW k \in DOMAIN state
      PROVE  IsNewest(Newest(k), k) /\ Newest(k).delta[k] = state[k]
  <2>1. PICK c : IsNewest(c, k) /\ c.delta[k] = state[k]
    BY <1>1 DEF StateIsNewest
  <2>2. IsNewest(Newest(k), k)
    BY <2>1 DEF IsNewest, Newest
  <2>3. Newest(k).version = c.version
    BY <2>1, <2>2 DEF IsNewest, Ordered
  <2> QED
    BY <2>1, <2>2, <2>3 DEF IsNewest, Ordered
<1>2. Chain \subseteq issued
  BY <1>1 DEF Chain, IsNewest
<1>3. ASSUME NEW k \in DOMAIN state PROVE Newest(k) \in Chain
  BY <1>1, <1>3 DEF Chain, IsNewest
<1>4. AccountedFor(state, Chain)
  BY <1>1, <1>2, <1>3 DEF AccountedFor, IsNewest
<1> QED
  BY <1>2, <1>4 DEF HonestIsAccepted, Verified

\* The backend's commands count up, and its state is what the newest wrote.
THEOREM BackendIsOrdered == ReconnectSpec => [](Ordered /\ StateIsNewest)
<1>1. ReconnectInit => Ordered /\ StateIsNewest
  BY DEF ReconnectInit, Init, EmptyState, Ordered, StateIsNewest
<1>2. Ordered /\ StateIsNewest /\ [ReconnectNext]_allVars
        => (Ordered /\ StateIsNewest)'
  <2> SUFFICES ASSUME Ordered, StateIsNewest, [ReconnectNext]_allVars
               PROVE  Ordered' /\ StateIsNewest'
    OBVIOUS
  <2>1. CASE UNCHANGED <<issued, state, latest>>
    BY <2>1 DEF Ordered, StateIsNewest, IsNewest
  <2> QED
    BY <2>1, BackendMoves, OrderKeeps, ClearKeeps
<1> QED
  BY <1>1, <1>2, PTL DEF ReconnectSpec

\* An honest backend's snapshot is never refused (session.py:131-164).
THEOREM HonestPasses == ReconnectSpec => []HonestIsAccepted
<1>1. Ordered /\ StateIsNewest => HonestIsAccepted
  BY ChainAccounts
<1> QED
  BY <1>1, BackendIsOrdered, PTL

-----------------------------------------------------------------------------
(***************************************************************************)
(* No freer than the desired state.  A key of the state is settled once    *)
(* the node has applied the version of its newest writer: from then on the *)
(* posture says what the state says, or is stricter.                       *)
(***************************************************************************)
\* The posture agrees with a value under a key of the state; under a hold no
\* command has taken back the node is paused whatever the state says.
Agrees(k, value) ==
    /\ k = "stopped" => ~value
    /\ k = "paused" => IF held THEN paused ELSE paused = value
    /\ k = "budget_cap_calls" /\ value # None => cap # None /\ cap <= value

Reflected ==
    ~stopped =>
        \A k \in DOMAIN state : \A n :
            IsNewest(n, k) /\ n.version <= applied => Agrees(k, state[k])

\* A replay still holds every newest writer the node has not applied.
Follows ==
    /\ applied \in Nat /\ applied <= latest
    /\ snapVersion \in Nat /\ snapVersion <= latest
    /\ cap \in Int \cup {None}
    /\ rest \subseteq issued
    /\ ~idle => \A k \in DOMAIN state : \A n :
                    IsNewest(n, k) /\ n.version > applied => n \in rest

\* What _apply of a newer command leaves, if it leaves the node running.
LEMMA Obeyed ==
    ASSUME applied \in Nat, cap \in Int \cup {None}, NEW v \in Nat, NEW d,
           Names(d, "budget_cap_calls") => d["budget_cap_calls"] \in Int,
           v > applied, Apply(v, d)
    PROVE  /\ applied' = v
           /\ cap' \in Int \cup {None}
           /\ stopped => stopped'
           /\ ~stopped' =>
                /\ Writes(d, "stopped") => ~d["stopped"]
                /\ paused' = IF Writes(d, "paused") THEN d["paused"] ELSE paused
                /\ Names(d, "budget_cap_calls") =>
                       cap' # None /\ cap' <= d["budget_cap_calls"]
                /\ ~Names(d, "budget_cap_calls") => cap' = cap
<1>0. ~Stale(v) /\ None \notin Int
  BY NoneIsNoValue DEF Stale
<1>1. CASE Absorb(v)
  BY <1>1 DEF Absorb, posture
<1>2. CASE RejectWidening(v, d)
  <2>1. Names(d, "budget_cap_calls") /\ cap # None /\ d["budget_cap_calls"] > cap
    BY <1>2 DEF RejectWidening, Widens
  <2>2. cap' = cap /\ cap <= d["budget_cap_calls"]
    BY <1>2, <2>1 DEF RejectWidening
  <2> QED
    BY <1>2, <2>1, <2>2 DEF RejectWidening, SetFlags
<1>3. CASE Accept(v, d)
  <2>1. cap' = IF Names(d, "budget_cap_calls") THEN d["budget_cap_calls"] ELSE cap
    BY <1>3 DEF Accept, Arm
  <2> QED
    BY <1>0, <1>3, <2>1 DEF Accept, SetFlags
<1> QED
  BY <1>0, <1>1, <1>2, <1>3 DEF Apply

\* A command of the backend's, the next newest writer there is: it settles
\* the keys it is the newest writer of, and leaves the settled ones alone.
LEMMA CommandReflected ==
    ASSUME Ordered, StateIsNewest, Follows, Reflected, NEW c \in issued,
           Apply(c.version, c.delta), TakesBackHold(c.version, c.delta),
           UNCHANGED <<issued, state, latest>>,
           \A k \in DOMAIN state : \A n :
               IsNewest(n, k) /\ n.version > applied => c.version <= n.version
    PROVE  /\ applied' \in Nat /\ applied' <= latest
           /\ cap' \in Int \cup {None}
           /\ applied' = IF c.version > applied THEN c.version ELSE applied
           /\ Reflected'
<1> USE DEF Follows
<1>0. c.version \in Nat /\ c.version <= latest /\ latest \in Nat /\ c.delta \in Delta
  BY DEF Ordered
<1>1. CASE ~(c.version > applied)
  <2>1. UNCHANGED <<applied, posture, held>>
    <3>1. Stale(c.version)
      BY <1>0, <1>1 DEF Stale
    <3> QED
      BY <3>1 DEF Apply, nodeVars, TakesBackHold
  <2> QED
    BY <1>1, <2>1 DEF posture, Reflected, Agrees, IsNewest
<1>2. CASE c.version > applied
  <2> DEFINE d == c.delta
  <2>1. /\ applied' = c.version
        /\ cap' \in Int \cup {None}
        /\ stopped => stopped'
        /\ ~stopped' =>
             /\ Writes(d, "stopped") => ~d["stopped"]
             /\ paused' = IF Writes(d, "paused") THEN d["paused"] ELSE paused
             /\ Names(d, "budget_cap_calls") =>
                    cap' # None /\ cap' <= d["budget_cap_calls"]
             /\ ~Names(d, "budget_cap_calls") => cap' = cap
    BY <1>0, <1>2, Obeyed, DeltaType
  <2>2. ~stopped' => IF Writes(d, "paused") THEN ~held' ELSE held' = held
    <3>1. ~Stale(c.version) /\ (~stopped' => ~stopped)
      BY <1>0, <1>2, <2>1 DEF Stale
    <3> QED
      BY <3>1 DEF TakesBackHold
  <2>3. ASSUME ~stopped', NEW k \in DOMAIN state, NEW n, IsNewest(n, k),
               n.version <= c.version
        PROVE  Agrees(k, state[k])'
    <3>0. n.version \in Nat /\ n \in issued /\ Writes(n.delta, k)
      BY <2>3 DEF IsNewest, Ordered
    <3>1. CASE n.version > applied
      <4>1. n = c
        BY <1>0, <2>3, <3>0, <3>1 DEF Ordered
      <4>2. PICK e : IsNewest(e, k) /\ e.delta[k] = state[k]
        BY <2>3 DEF StateIsNewest
      <4>3. e = n
        <5>1. e.version = n.version
          BY <2>3, <4>2 DEF IsNewest, Ordered
        <5> QED
          BY <3>0, <4>2, <5>1 DEF IsNewest, Ordered
      <4>4. d[k] = state[k] /\ Writes(d, k)
        BY <3>0, <4>1, <4>2, <4>3
      <4> QED
        BY <2>1, <2>2, <2>3, <4>4 DEF Agrees, Names
    <3>2. CASE ~(n.version > applied)
      <4>1. Agrees(k, state[k])
        BY <2>1, <2>3, <3>0, <3>2 DEF Reflected
      <4>2. ~Writes(d, k)
        BY <1>0, <1>2, <2>3, <3>0, <3>2 DEF IsNewest
      <4> QED
        BY <2>1, <2>2, <2>3, <4>1, <4>2 DEF Agrees, Names
    <3> QED
      BY <3>1, <3>2
  <2>4. Reflected'
    BY <2>1, <2>3 DEF Reflected, IsNewest
  <2> QED
    BY <1>0, <1>2, <2>1, <2>4
<1> QED
  BY <1>1, <1>2

\* The open posture: the state itself is taken, and settles every key.
LEMMA StateReflected ==
    ASSUME Ordered, StateIsNewest, Follows, Reflected,
           Apply(latest, state), TakesBackHold(latest, state),
           UNCHANGED <<issued, state, latest>>
    PROVE  /\ applied' \in Nat /\ applied' <= latest
           /\ cap' \in Int \cup {None}
           /\ Reflected'
<1> USE DEF Follows
<1>0. latest \in Nat
  BY DEF Ordered
<1>1. CASE ~(latest > applied)
  <2>1. UNCHANGED <<applied, posture, held>>
    <3>1. Stale(latest)
      BY <1>0, <1>1 DEF Stale
    <3> QED
      BY <3>1 DEF Apply, nodeVars, TakesBackHold
  <2> QED
    BY <1>1, <2>1 DEF posture, Reflected, Agrees, IsNewest
<1>2. CASE latest > applied
  <2>1. Names(state, "budget_cap_calls") => state["budget_cap_calls"] \in Int
    <3> SUFFICES ASSUME Names(state, "budget_cap_calls")
                 PROVE  state["budget_cap_calls"] \in Int
      OBVIOUS
    <3>1. PICK c : /\ IsNewest(c, "budget_cap_calls")
                   /\ c.delta["budget_cap_calls"] = state["budget_cap_calls"]
      BY DEF StateIsNewest, Names, Writes
    <3>2. c.delta \in Delta /\ Names(c.delta, "budget_cap_calls")
      BY <3>1 DEF IsNewest, Ordered, Names
    <3> QED
      BY <3>1, <3>2, DeltaType
  <2>2. /\ applied' = latest
        /\ cap' \in Int \cup {None}
        /\ ~stopped' =>
             /\ Writes(state, "stopped") => ~state["stopped"]
             /\ paused' = IF Writes(state, "paused") THEN state["paused"] ELSE paused
             /\ Names(state, "budget_cap_calls") =>
                    cap' # None /\ cap' <= state["budget_cap_calls"]
        /\ stopped => stopped'
    BY <1>0, <1>2, <2>1, Obeyed
  <2>3. ~stopped' => IF Writes(state, "paused") THEN ~held' ELSE held' = held
    <3>1. ~Stale(latest) /\ (~stopped' => ~stopped)
      BY <1>0, <1>2, <2>2 DEF Stale
    <3> QED
      BY <3>1 DEF TakesBackHold
  <2>4. ASSUME ~stopped', NEW k \in DOMAIN state PROVE Agrees(k, state[k])'
    BY <2>2, <2>3, <2>4 DEF Agrees, Names, Writes
  <2> QED
    BY <1>0, <2>2, <2>4 DEF Reflected
<1> QED
  BY <1>1, <1>2

\* The steps that leave the node, the replay and the backend alone.
Apart ==
    UNCHANGED <<applied, posture, held, rest, snapVersion, issued, state, latest>>

\* The invariant survives every step.
LEMMA ReflectedStep ==
    ASSUME Ordered, StateIsNewest, Follows, Reflected, [ReconnectNext]_allVars
    PROVE  Follows' /\ Reflected'
<1> USE DEF backend, process, posture
<1>0. latest \in Nat
  BY DEF Ordered
<1>1. ASSUME Apart PROVE Follows' /\ Reflected'
  BY <1>1 DEF Apart, Follows, Reflected, Agrees, IsNewest, idle
<1>2. ASSUME NEW d \in Delta, Order(d) PROVE Follows' /\ Reflected'
  <2>1. /\ UNCHANGED <<applied, posture, held, rest, snapVersion>> /\ idle
        /\ latest' = latest + 1
        /\ issued' = issued \cup {[version |-> latest + 1, delta |-> d]}
        /\ DOMAIN state' = DOMAIN state \cup DOMAIN d
        /\ \A k \in DOMAIN state' :
              state'[k] = IF Writes(d, k) THEN d[k] ELSE state[k]
    BY <1>2 DEF Order, nodeVars
  <2>2. PICK new : new = [version |-> latest + 1, delta |-> d]
    OBVIOUS
  <2>3. new \in issued' /\ new.version = latest + 1 /\ new.delta = d
    BY <2>1, <2>2
  <2>4. Follows'
    BY <1>0, <2>1 DEF Follows, idle
  <2>5. ASSUME ~stopped', NEW k \in DOMAIN state', NEW n, IsNewest(n, k)',
               n.version <= applied'
        PROVE  Agrees(k, state[k])'
    <3>1. n.version <= latest /\ n # new /\ n \in issued
      <4>1. n.version <= applied /\ applied <= latest
        BY <2>1, <2>5 DEF Follows
      <4>2. n \in issued \cup {new}
        BY <2>1, <2>2, <2>5 DEF IsNewest
      <4>3. n # new
        BY <1>0, <2>3, <4>1 DEF Follows
      <4> QED
        BY <4>2, <4>3 DEF Ordered
    <3>2. ~Writes(d, k)
      BY <1>0, <2>3, <2>5, <3>1 DEF IsNewest, Ordered
    <3>3. k \in DOMAIN state /\ state'[k] = state[k]
      BY <2>1, <2>5, <3>2 DEF Writes
    <3>4. IsNewest(n, k)
      BY <2>1, <2>5, <3>1 DEF IsNewest
    <3> QED
      BY <2>1, <2>5, <3>3, <3>4 DEF Reflected, Agrees
  <2> QED
    BY <2>4, <2>5 DEF Reflected
<1>3. ASSUME NEW k, Clear(k) PROVE Follows' /\ Reflected'
  <2>1. /\ UNCHANGED <<applied, posture, held, rest, snapVersion, issued>> /\ idle
        /\ latest' \in {latest, latest + 1}
        /\ DOMAIN state' \subseteq DOMAIN state
        /\ \A key \in DOMAIN state' : state'[key] = state[key]
    BY <1>3 DEF Clear, vars, nodeVars
  <2>2. Follows'
    BY <1>0, <2>1 DEF Follows, idle
  <2>3. Reflected'
    BY <2>1 DEF Reflected, Agrees, IsNewest
  <2> QED
    BY <2>2, <2>3
<1>4. ASSUME NEW c \in issued, Push(c) PROVE Follows' /\ Reflected'
  <2>1. /\ idle /\ Apply(c.version, c.delta) /\ TakesBackHold(c.version, c.delta)
        /\ UNCHANGED <<issued, state, latest, rest, snapVersion>>
        /\ \A e \in issued : e.version > applied => c.version <= e.version
    BY <1>4 DEF Push, ApplyDelta, Verified
  <2>2. \A k \in DOMAIN state : \A n :
            IsNewest(n, k) /\ n.version > applied => c.version <= n.version
    BY <2>1 DEF IsNewest
  <2>3. applied' \in Nat /\ applied' <= latest /\ cap' \in Int \cup {None} /\ Reflected'
    BY <2>1, <2>2, CommandReflected
  <2> QED
    BY <2>1, <2>3 DEF Follows, idle
<1>5. ASSUME StartReplay(latest, state, Chain), UNCHANGED <<backend, held>>
      PROVE  Follows' /\ Reflected'
  <2>1. /\ UNCHANGED <<applied, posture, held, issued, state, latest>>
        /\ rest' = Chain /\ snapVersion' = latest
    BY <1>5 DEF StartReplay, nodeVars
  <2>2. ASSUME NEW k \in DOMAIN state, NEW n, IsNewest(n, k) PROVE n \in Chain
    <3>1. IsNewest(Newest(k), k)
      BY <2>2 DEF IsNewest, Newest
    <3>2. Newest(k) = n
      <4>1. Newest(k).version = n.version
        BY <2>2, <3>1 DEF IsNewest, Ordered
      <4> QED
        BY <2>2, <3>1, <4>1 DEF IsNewest, Ordered
    <3> QED
      BY <2>2, <3>2 DEF Chain, IsNewest
  <2>3. Chain \subseteq issued
    <3>1. ASSUME NEW k \in DOMAIN state PROVE Newest(k) \in issued
      <4>1. PICK c : IsNewest(c, k)
        BY <3>1 DEF StateIsNewest
      <4> QED
        BY <4>1 DEF IsNewest, Newest
    <3> QED
      BY <3>1 DEF Chain
  <2>4. Follows'
    BY <1>0, <2>1, <2>2, <2>3 DEF Follows, IsNewest
  <2>5. Reflected'
    BY <2>1 DEF Reflected, Agrees, IsNewest
  <2> QED
    BY <2>4, <2>5
<1>6. ASSUME ApplyOpenSnapshot(latest, state), TakesBackHold(latest, state),
             UNCHANGED backend
      PROVE  Follows' /\ Reflected'
  <2>1. /\ idle /\ Apply(latest, state) /\ TakesBackHold(latest, state)
        /\ UNCHANGED <<issued, state, latest, rest, snapVersion>>
    BY <1>6 DEF ApplyOpenSnapshot
  <2>2. applied' \in Nat /\ applied' <= latest /\ cap' \in Int \cup {None} /\ Reflected'
    BY <2>1, StateReflected
  <2> QED
    BY <2>1, <2>2 DEF Follows, idle
<1>7. ASSUME NEW c \in rest, Replay(c) PROVE Follows' /\ Reflected'
  <2>1. /\ ~idle /\ c \in issued
        /\ Apply(c.version, c.delta) /\ TakesBackHold(c.version, c.delta)
        /\ rest' = rest \ {c}
        /\ UNCHANGED <<issued, state, latest, snapVersion>>
        /\ \A e \in rest : c.version <= e.version
    BY <1>7 DEF Replay, ReplayOne, IsNext, Follows
  <2>2. \A k \in DOMAIN state : \A n :
            IsNewest(n, k) /\ n.version > applied => n \in rest /\ c.version <= n.version
    BY <2>1 DEF Follows
  <2>3. /\ applied' \in Nat /\ applied' <= latest /\ cap' \in Int \cup {None}
        /\ applied' = IF c.version > applied THEN c.version ELSE applied
        /\ Reflected'
    BY <2>1, <2>2, CommandReflected
  <2>4. ASSUME NEW k \in DOMAIN state, NEW n, IsNewest(n, k), n.version > applied'
        PROVE  n \in rest'
    <3>1. c.version \in Nat /\ n.version \in Nat /\ applied \in Nat
      BY <2>1, <2>4 DEF IsNewest, Ordered, Follows
    <3>2. n.version > applied /\ n # c
      BY <2>3, <2>4, <3>1
    <3> QED
      BY <2>1, <2>2, <2>4, <3>2
  <2> QED
    BY <2>1, <2>3, <2>4 DEF Follows, IsNewest, idle
<1>8. ASSUME FinishReplay, UNCHANGED <<backend, process>> PROVE Follows' /\ Reflected'
  <2>1. /\ ~idle /\ rest = {}
        /\ applied' = IF snapVersion > applied THEN snapVersion ELSE applied
        /\ snapVersion' = 0
        /\ UNCHANGED <<posture, held, issued, rest, state, latest>>
    BY <1>8 DEF FinishReplay
  <2>2. ASSUME NEW k \in DOMAIN state, NEW n, IsNewest(n, k)
        PROVE  n.version <= applied
    <3>1. ~(n.version > applied) /\ n.version \in Nat
      BY <2>1, <2>2 DEF Follows, IsNewest, Ordered
    <3> QED
      BY <3>1 DEF Follows
  <2>3. Follows'
    BY <1>0, <2>1 DEF Follows, idle
  <2>4. Reflected'
    BY <2>1, <2>2 DEF Reflected, Agrees, IsNewest
  <2> QED
    BY <2>3, <2>4
<1>9. ASSUME Restart PROVE Follows' /\ Reflected'
  <2>1. /\ applied' = 0 /\ cap' = LocalCap
        /\ UNCHANGED <<issued, rest, snapVersion, state, latest>> /\ idle
    BY <1>9 DEF Restart
  <2>2. \A n \in issued : ~(n.version <= 0)
    BY DEF Ordered
  <2>3. Follows'
    BY <1>0, <2>1, ConfigType DEF Follows, idle
  <2>4. Reflected'
    BY <2>1, <2>2 DEF Reflected, IsNewest
  <2> QED
    BY <2>3, <2>4
<1>10. ASSUME Boundary PROVE Apart
  BY <1>10 DEF Boundary, take_pending_injection, take_pending_excision,
               take_pending_replan, boundaryFrame, Apart
<1>11. ASSUME Disconnect PROVE Apart
  BY <1>11 DEF Disconnect, vars, nodeVars, Apart
<1>12. CASE Reconnect
  <2>1. ASSUME UNCHANGED vars, UNCHANGED <<backend, held>> PROVE Apart
    BY <2>1 DEF vars, nodeVars, Apart
  <2> QED
    BY <1>1, <1>5, <1>6, <1>12, <2>1 DEF Reconnect
<1>13. CASE UNCHANGED allVars
  BY <1>1, <1>13 DEF allVars, vars, nodeVars, Apart
<1>14. CASE Hold
  <2>1. /\ held' /\ paused'
        /\ UNCHANGED <<applied, stopped, cap, rest, snapVersion, issued, state, latest>>
    BY <1>14 DEF Hold
  <2> QED
    BY <2>1 DEF Follows, Reflected, Agrees, IsNewest, idle
<1> QED
  BY <1>1, <1>2, <1>3, <1>4, <1>7, <1>8, <1>9, <1>10, <1>11, <1>12, <1>13, <1>14,
     CommandType DEF ReconnectNext

\* What a node that follows an honest backend has applied.
THEOREM NodeFollows == ReconnectSpec => [](Follows /\ Reflected)
<1>1. ReconnectInit => Follows /\ Reflected
  <2> SUFFICES ASSUME ReconnectInit PROVE Follows /\ Reflected
    OBVIOUS
  <2>1. applied = 0 /\ snapVersion = 0 /\ latest = 0 /\ cap = LocalCap /\ rest = {}
        /\ issued = {}
    BY DEF ReconnectInit, Init
  <2> QED
    BY <2>1, ConfigType DEF Follows, Reflected, IsNewest, idle
<1> QED
  BY <1>1, BackendIsOrdered, ReflectedStep, PTL DEF ReconnectSpec

\* A node that has caught up is stopped and paused if the desired state says
\* so, and under its cap, however it came there (session.py:85-129).
THEOREM CaughtUpIsNoFreer == ReconnectSpec => []NoFreerThanDesired
<1>1. ASSUME StateIsNewest, Reflected, CaughtUp, ~stopped
      PROVE  /\ Writes(state, "stopped") => ~state["stopped"]
             /\ Writes(state, "paused") =>
                    IF held THEN paused ELSE paused = state["paused"]
             /\ Names(state, "budget_cap_calls") =>
                    cap # None /\ cap <= state["budget_cap_calls"]
  <2>1. ASSUME NEW k \in DOMAIN state PROVE Agrees(k, state[k])
    <3>1. PICK n : IsNewest(n, k)
      BY <1>1, <2>1 DEF StateIsNewest
    <3>2. n.version <= applied
      BY <1>1, <3>1 DEF CaughtUp, IsNewest
    <3> QED
      BY <1>1, <2>1, <3>1, <3>2 DEF Reflected
  <2> QED
    BY <2>1 DEF Agrees, Names, Writes
<1>2. StateIsNewest /\ Reflected => NoFreerThanDesired
  BY <1>1 DEF NoFreerThanDesired
<1> QED
  BY <1>2, BackendIsOrdered, NodeFollows, PTL

-----------------------------------------------------------------------------
(***************************************************************************)
(* One-shots.  What a node reports is kept, and an id it consumed was      *)
(* reported.                                                               *)
(***************************************************************************)
\* A body, or a state merged from bodies, names one-shots by their types.
NamesOneShots(d) ==
    /\ Names(d, "replan") => d["replan"] \in Id
    /\ Names(d, "pending_injection") => d["pending_injection"] \in Id
    /\ Names(d, "pending_excision") => d["pending_excision"] \in Excision

Noted ==
    /\ outbox \in Seq(Note)
    /\ injection \in Id \cup {None}
    /\ replan \in Id \cup {None}
    /\ excision \in Excision \cup {None}

Shown == \A id \in consumed : Answered(id)

\* The reports so far stay, and at most one is added.
Extends ==
    outbox' = outbox \/ \E n \in Note : outbox' = Append(outbox, n)

\* Reports are never taken back.
LEMMA NotesStay ==
    ASSUME outbox \in Seq(Note), Extends
    PROVE  /\ outbox' \in Seq(Note)
           /\ \A id : Answered(id) => Answered(id)'
           /\ \A v : RefusedAsWidening(v) => RefusedAsWidening(v)'
<1>1. /\ outbox' \in Seq(Note)
      /\ Len(outbox) \in Nat /\ Len(outbox') \in Nat /\ Len(outbox) <= Len(outbox')
      /\ \A i \in 1..Len(outbox) : outbox'[i] = outbox[i]
  BY DEF Extends
<1> QED
  BY <1>1 DEF Answered, RefusedAsWidening

\* A report about an id answers for it.
LEMMA AckAnswers ==
    ASSUME outbox \in Seq(Note), NEW kind \in FireKind \cup RefuseKind,
           NEW id \in Id, Ack(kind, id)
    PROVE  Extends /\ Answered(id)'
<1>1. PICK n \in Note : n = [kind |-> kind, id |-> id]
  BY DEF Note, OneShotEvent
<1>2. outbox' = Append(outbox, n) /\ n.kind = kind /\ n.id = id
  BY <1>1 DEF Ack
<1>3. Len(outbox') = Len(outbox) + 1 /\ outbox'[Len(outbox')] = n /\ Len(outbox) \in Nat
  BY <1>2
<1>4. n.kind # "state_applied"
  BY <1>2 DEF FireKind, RefuseKind
<1>5. Len(outbox') \in 1..Len(outbox')
  BY <1>3
<1>6. Answered(id)'
  BY <1>2, <1>3, <1>4, <1>5 DEF Answered
<1> QED
  BY <1>2, <1>6 DEF Extends

\* What _apply of a newer command makes of the one-shots it names.
LEMMA AppliedOneShots ==
    ASSUME Noted, Shown, NEW v \in Nat, NEW d, NamesOneShots(d), Apply(v, d)
    PROVE  /\ Noted' /\ Shown' /\ Extends
           /\ ~Stale(v) /\ ~stopped' => \A k \in OneShotKey :
                /\ Names(d, k) => Slot(k)' = d[k] \/ RefusedAsWidening(v)'
                /\ ~Names(d, k) => Slot(k)' = Slot(k)
           /\ Stale(v) => \A k \in OneShotKey : Slot(k)' = Slot(k)
           /\ ~stopped' => ~stopped
<1> USE DEF Noted
<1>1. ASSUME UNCHANGED <<slots, consumed>>, Extends
      PROVE  Noted' /\ Shown' /\ \A k \in OneShotKey : Slot(k)' = Slot(k)
  BY <1>1, NotesStay DEF slots, Shown, Slot
<1>2. CASE Stale(v)
  <2>1. UNCHANGED <<slots, consumed, outbox, stopped>>
    BY <1>2 DEF Apply, nodeVars, posture
  <2> QED
    BY <1>1, <1>2, <2>1 DEF Extends
<1>3. ASSUME NEW result \in {"noop_absorbed", "rejected_widening"}, Report(v, result)
      PROVE  Extends /\ (result = "rejected_widening" => RefusedAsWidening(v)')
  <2>1. PICK n \in Note : n = [kind |-> "state_applied", version |-> v, result |-> result]
    BY <1>3 DEF Note
  <2>2. outbox' = Append(outbox, n)
        /\ n.kind = "state_applied" /\ n.version = v /\ n.result = result
    BY <1>3, <2>1 DEF Report
  <2>3. Len(outbox') \in 1..Len(outbox') /\ outbox'[Len(outbox')] = n
    BY <2>2
  <2> QED
    BY <2>2, <2>3 DEF Extends, RefusedAsWidening
<1>4. CASE ~Stale(v) /\ Absorb(v)
  <2>1. Extends
    BY <1>3, <1>4 DEF Absorb
  <2>2. UNCHANGED <<slots, consumed>> /\ stopped /\ stopped'
    BY <1>4 DEF Absorb, posture
  <2> QED
    BY <1>1, <1>4, <2>1, <2>2
<1>5. CASE ~Stale(v) /\ RejectWidening(v, d)
  <2>1. Extends /\ RefusedAsWidening(v)'
    BY <1>3, <1>5 DEF RejectWidening
  <2>2. UNCHANGED <<slots, consumed>> /\ ~stopped
    BY <1>5 DEF RejectWidening, SetFlags
  <2> QED
    BY <1>1, <1>5, <2>1, <2>2
<1>6. CASE ~Stale(v) /\ Accept(v, d)
  <2>1. /\ UNCHANGED <<consumed, outbox>> /\ ~stopped
        /\ injection' = Arm(d, "pending_injection", injection)
        /\ excision' = Arm(d, "pending_excision", excision)
        /\ replan' = Arm(d, "replan", replan)
    BY <1>6 DEF Accept, SetFlags
  <2>2. Extends /\ Noted' /\ Shown'
    BY <2>1, NotesStay DEF Arm, NamesOneShots, Shown, Extends
  <2>3. \A k \in OneShotKey : Slot(k)' = IF Names(d, k) THEN d[k] ELSE Slot(k)
    BY <2>1 DEF Slot, OneShotKey, Arm
  <2> QED
    BY <1>6, <2>1, <2>2, <2>3
<1> QED
  BY <1>2, <1>4, <1>5, <1>6 DEF Apply

\* What the host's taking of a one-shot does to the slots.
LEMMA TakenOneShots ==
    ASSUME Noted, Shown, Boundary
    PROVE  /\ Noted' /\ Shown' /\ Extends
           /\ \A k \in OneShotKey :
                \/ Slot(k)' = Slot(k)
                \/ /\ Slot(k) # None /\ Slot(k)' = None
                   /\ \E id : id = IdOf(k, Slot(k)) /\ Answered(id)'
           /\ UNCHANGED <<keyed, applied, stopped, issued, state, snapVersion, rest, latest>>
<1> USE DEF Noted
<1>0. {"injection_consumed", "injection_refused", "context_excision",
       "excision_refused", "replan_applied", "replan_refused"}
         \subseteq FireKind \cup RefuseKind
  BY DEF FireKind, RefuseKind
<1>1. ASSUME NEW id \in Id, NEW kind \in FireKind \cup RefuseKind,
             \/ DropDuplicate(id)
             \/ Fire(kind, id)
             \/ Refuse(kind, id)
             \/ Ack(kind, id) /\ UNCHANGED consumed
      PROVE  outbox' \in Seq(Note) /\ Shown' /\ Extends /\ Answered(id)'
  <2>1. CASE DropDuplicate(id)
    <3>1. Extends /\ Answered(id) /\ consumed' = consumed
      BY <2>1 DEF DropDuplicate, Shown, Extends
    <3> QED
      BY <3>1, NotesStay DEF Shown
  <2>2. CASE Ack(kind, id) /\ consumed' \subseteq consumed \cup {id}
    BY <2>2, AckAnswers, NotesStay DEF Shown
  <2> QED
    BY <1>1, <2>1, <2>2 DEF Fire, Refuse
<1>2. UNCHANGED <<state, latest>>
  BY DEF Boundary
<1>3. CASE take_pending_injection
  <2>1. /\ injection \in Id /\ injection # None /\ injection' = None
        /\ UNCHANGED <<excision, replan, boundaryFrame>>
        /\ \/ DropDuplicate(injection)
           \/ Fire("injection_consumed", injection)
           \/ Refuse("injection_refused", injection)
    BY <1>3 DEF take_pending_injection
  <2>2. \E id : id = injection /\ outbox' \in Seq(Note) /\ Shown' /\ Extends /\ Answered(id)'
    <3> PICK id \in Id : id = injection
      BY <2>1
    <3> QED
      BY <1>0, <1>1, <2>1
  <2> QED
    BY <1>2, <2>1, <2>2 DEF Slot, OneShotKey, IdOf, boundaryFrame, posture
<1>4. ASSUME NEW config, take_pending_excision(config)
      PROVE  /\ Noted' /\ Shown' /\ Extends
             /\ \A k \in OneShotKey :
                  \/ Slot(k)' = Slot(k)
                  \/ /\ Slot(k) # None /\ Slot(k)' = None
                   /\ \E id : id = IdOf(k, Slot(k)) /\ Answered(id)'
             /\ UNCHANGED boundaryFrame
  <2>1. /\ excision \in Excision /\ excision # None /\ excision' = None
        /\ UNCHANGED <<injection, replan, boundaryFrame>>
        /\ \/ DropDuplicate(excision.id)
           \/ Fire("context_excision", excision.id)
           \/ Refuse("excision_refused", excision.id)
    BY <1>4 DEF take_pending_excision
  <2>2. excision.id \in Id
    BY <2>1 DEF Excision
  <2>3. \E id : id = excision.id /\ outbox' \in Seq(Note) /\ Shown' /\ Extends /\ Answered(id)'
    <3> PICK id \in Id : id = excision.id
      BY <2>2
    <3> QED
      BY <1>0, <1>1, <2>1
  <2> QED
    BY <2>1, <2>3 DEF Slot, OneShotKey, IdOf
<1>5. CASE take_pending_replan
  <2>1. /\ replan \in Id /\ replan # None /\ replan' = None
        /\ UNCHANGED <<injection, excision, boundaryFrame>>
        /\ \/ DropDuplicate(replan)
           \/ Fire("replan_applied", replan)
           \/ Refuse("replan_refused", replan)
           \/ Ack("replan_applied", replan) /\ UNCHANGED consumed
    BY <1>5 DEF take_pending_replan
  <2>2. \E id : id = replan /\ outbox' \in Seq(Note) /\ Shown' /\ Extends /\ Answered(id)'
    <3> PICK id \in Id : id = replan
      BY <2>1
    <3> QED
      BY <1>0, <1>1, <2>1
  <2> QED
    BY <1>2, <2>1, <2>2 DEF Slot, OneShotKey, IdOf, boundaryFrame, posture
<1> QED
  BY <1>2, <1>3, <1>4, <1>5 DEF Boundary, boundaryFrame, posture


\* The bodies operators send, and the state they merge into, name one-shots.
LEMMA BodiesNameOneShots ==
    ASSUME Ordered, StateIsNewest
    PROVE  /\ \A c \in issued : c.version \in Nat /\ NamesOneShots(c.delta)
           /\ latest \in Nat /\ NamesOneShots(state)
<1>1. \A c \in issued : c.version \in Nat /\ NamesOneShots(c.delta)
  BY DeltaType DEF Ordered, NamesOneShots
<1>2. ASSUME NEW k, Names(state, k)
      PROVE  \E c \in issued : Names(c.delta, k) /\ c.delta[k] = state[k]
  BY <1>2 DEF StateIsNewest, IsNewest, Names, Writes
<1>3. NamesOneShots(state)
  BY <1>1, <1>2 DEF NamesOneShots
<1> QED
  BY <1>1, <1>3 DEF Ordered

\* A one-shot the state names has come to what its command made of it.
Dealt(k, value, v) ==
    \/ Slot(k) = value
    \/ Answered(IdOf(k, value))
    \/ RefusedAsWidening(v)

\* Once the newest writer of a key is applied, its one-shot is dealt with.
Arrived ==
    keyed /\ ~stopped =>
        \A k \in {key \in OneShotKey : Names(state, key)} : \A n :
            IsNewest(n, k) /\ n.version <= applied =>
                \E value : value = state[k] /\ Dealt(k, value, n.version)

\* What is dealt with stays so while its slot is left alone or taken.
LEMMA DealtStays ==
    ASSUME outbox \in Seq(Note), Extends, NEW k, NEW value, NEW v,
           Dealt(k, value, v),
           \/ Slot(k)' = Slot(k)
           \/ \E id : id = IdOf(k, Slot(k)) /\ Answered(id)'
    PROVE  Dealt(k, value, v)'
<1>1. /\ Answered(IdOf(k, value)) => Answered(IdOf(k, value))'
      /\ RefusedAsWidening(v) => RefusedAsWidening(v)'
  BY NotesStay
<1> QED
  BY <1>1 DEF Dealt

\* A command of the backend's, the next newest writer there is, deals with
\* the one-shots it is the newest writer of.
LEMMA CommandArrives ==
    ASSUME Ordered, StateIsNewest, Follows, Noted, Shown, Arrived,
           NEW c \in issued, Apply(c.version, c.delta),
           UNCHANGED <<keyed, issued, state, latest>>,
           \A k \in DOMAIN state : \A n :
               IsNewest(n, k) /\ n.version > applied => c.version <= n.version
    PROVE  Noted' /\ Shown' /\ Arrived'
<1>0. c.version \in Nat /\ NamesOneShots(c.delta) /\ applied \in Nat
  BY BodiesNameOneShots DEF Follows
<1>1. /\ Noted' /\ Shown' /\ Extends /\ outbox \in Seq(Note)
      /\ ~Stale(c.version) /\ ~stopped' => \A k \in OneShotKey :
            /\ Names(c.delta, k) => Slot(k)' = c.delta[k] \/ RefusedAsWidening(c.version)'
            /\ ~Names(c.delta, k) => Slot(k)' = Slot(k)
      /\ Stale(c.version) => \A k \in OneShotKey : Slot(k)' = Slot(k)
      /\ ~stopped' => ~stopped
  BY <1>0, AppliedOneShots DEF Noted
<1>2. ASSUME keyed', ~stopped', NEW k \in OneShotKey, Names(state, k), NEW n,
             IsNewest(n, k), n.version <= applied'
      PROVE  \E value : value = state[k] /\ Dealt(k, value, n.version)'
  <2>0. n \in issued /\ n.version \in Nat /\ Writes(n.delta, k) /\ k \in DOMAIN state
    BY <1>2 DEF IsNewest, Ordered, Names, Writes
  <2>1. PICK value : value = state[k]
    OBVIOUS
  <2>2. CASE n.version <= applied
    <3>1. Dealt(k, value, n.version)
      BY <1>1, <1>2, <2>1, <2>2 DEF Arrived
    <3>2. Slot(k)' = Slot(k)
      <4>1. CASE Stale(c.version)
        BY <1>1, <1>2, <4>1
      <4>2. CASE ~Stale(c.version)
        <5>1. c.version > n.version
          BY <1>0, <2>0, <2>2, <4>2 DEF Stale
        <5>2. ~Names(c.delta, k)
          BY <1>0, <1>2, <2>0, <5>1 DEF IsNewest, Names
        <5> QED
          BY <1>1, <1>2, <4>2, <5>2
      <4> QED
        BY <4>1, <4>2
    <3> QED
      BY <1>1, <2>1, <3>1, <3>2, DealtStays
  <2>3. CASE ~(n.version <= applied)
    <3>1. applied' = c.version /\ ~Stale(c.version)
      <4>1. ~Stale(c.version)
        BY <1>2, <2>3 DEF Apply, nodeVars
      <4> QED
        BY <4>1 DEF Apply, Absorb, RejectWidening, Accept, SetFlags
    <3>2. c.version <= n.version
      BY <1>0, <1>2, <2>0, <2>3
    <3>3. n = c
      BY <1>0, <1>2, <2>0, <3>1, <3>2 DEF Ordered
    <3>4. c.delta[k] = state[k]
      <4>1. PICK e : IsNewest(e, k) /\ e.delta[k] = state[k]
        BY <2>0 DEF StateIsNewest
      <4>2. e.version = n.version
        BY <1>2, <2>0, <4>1 DEF IsNewest, Ordered
      <4>3. e = n
        BY <2>0, <4>1, <4>2 DEF IsNewest, Ordered
      <4> QED
        BY <3>3, <4>1, <4>3
    <3>5. Names(c.delta, k)
      BY <1>2, <2>0, <3>3, <3>4 DEF Names
    <3> QED
      BY <1>1, <1>2, <2>1, <3>1, <3>3, <3>4, <3>5 DEF Dealt
  <2> QED
    BY <2>2, <2>3
<1>3. Arrived'
  BY <1>2 DEF Arrived, IsNewest
<1> QED
  BY <1>1, <1>3

\* The steps that leave the one-shots alone.
OneShotsApart ==
    /\ UNCHANGED <<keyed, stopped, slots, consumed, outbox, issued>>
    /\ UNCHANGED <<applied, state>>

\* The invariant survives every step.
LEMMA ArrivedStep ==
    ASSUME Ordered, StateIsNewest, Follows, Noted, Shown, Arrived,
           [ReconnectNext]_allVars
    PROVE  Noted' /\ Shown' /\ Arrived'
<1> USE DEF backend, posture
<1>1. ASSUME UNCHANGED <<slots, consumed, outbox>>
      PROVE  /\ Noted' /\ Shown'
             /\ \A k, value, v : Dealt(k, value, v) => Dealt(k, value, v)'
  BY <1>1 DEF Noted, Shown, Answered, RefusedAsWidening, Dealt, Slot, slots
<1>2. ASSUME OneShotsApart PROVE Noted' /\ Shown' /\ Arrived'
  BY <1>1, <1>2 DEF OneShotsApart, Arrived, IsNewest
<1>3. ASSUME NEW d \in Delta, Order(d) PROVE Noted' /\ Shown' /\ Arrived'
  <2>1. /\ UNCHANGED <<keyed, applied, stopped, slots, consumed, outbox>>
        /\ issued' = issued \cup {[version |-> latest + 1, delta |-> d]}
        /\ DOMAIN state' = DOMAIN state \cup DOMAIN d
        /\ \A k \in DOMAIN state' :
              state'[k] = IF Writes(d, k) THEN d[k] ELSE state[k]
    BY <1>3 DEF Order, nodeVars
  <2>2. PICK new : new = [version |-> latest + 1, delta |-> d]
    OBVIOUS
  <2>3. new \in issued' /\ new.version = latest + 1 /\ new.delta = d
    BY <2>1, <2>2
  <2>4. ASSUME keyed, ~stopped, NEW k \in OneShotKey, Names(state, k)', NEW n,
               IsNewest(n, k)', n.version <= applied
        PROVE  \E value : value = state'[k] /\ Dealt(k, value, n.version)'
    <3>1. n.version <= latest /\ n # new /\ n \in issued
      <4>1. applied <= latest /\ applied \in Nat /\ latest \in Nat
        BY DEF Follows, Ordered
      <4>2. n \in issued \cup {new}
        BY <2>1, <2>2, <2>4 DEF IsNewest
      <4>3. n # new
        BY <2>3, <2>4, <4>1
      <4> QED
        BY <4>2, <4>3 DEF Ordered
    <3>2. ~Writes(d, k)
      BY <2>3, <2>4, <3>1 DEF IsNewest, Ordered
    <3>3. Names(state, k) /\ state'[k] = state[k]
      BY <2>1, <2>4, <3>2 DEF Names, Writes
    <3>4. IsNewest(n, k)
      BY <2>1, <2>4, <3>1 DEF IsNewest
    <3>5. PICK value : value = state[k] /\ Dealt(k, value, n.version)
      BY <2>4, <3>3, <3>4 DEF Arrived
    <3> QED
      BY <1>1, <2>1, <3>3, <3>5
  <2> QED
    BY <1>1, <2>1, <2>4 DEF Arrived
<1>4. ASSUME NEW k, Clear(k) PROVE Noted' /\ Shown' /\ Arrived'
  <2>1. /\ UNCHANGED <<keyed, applied, stopped, slots, consumed, outbox, issued>>
        /\ DOMAIN state' \subseteq DOMAIN state
        /\ \A key \in DOMAIN state' : state'[key] = state[key]
    BY <1>4 DEF Clear, vars, nodeVars
  <2>2. \A key : Names(state, key)' => Names(state, key) /\ state'[key] = state[key]
    BY <2>1 DEF Names, Writes
  <2> QED
    BY <1>1, <2>1, <2>2 DEF Arrived, IsNewest
<1>5. ASSUME NEW c \in issued, Push(c) PROVE Noted' /\ Shown' /\ Arrived'
  <2>1. /\ Apply(c.version, c.delta)
        /\ UNCHANGED <<keyed, issued, state, latest>>
        /\ \A e \in issued : e.version > applied => c.version <= e.version
    BY <1>5 DEF Push, ApplyDelta, Verified
  <2>2. \A k \in DOMAIN state : \A n :
            IsNewest(n, k) /\ n.version > applied => c.version <= n.version
    BY <2>1 DEF IsNewest
  <2> QED
    BY <2>1, <2>2, CommandArrives
<1>6. ASSUME ApplyOpenSnapshot(latest, state), UNCHANGED backend
      PROVE  Noted' /\ Shown' /\ Arrived'
  <2>1. Apply(latest, state) /\ ~keyed /\ UNCHANGED keyed
    BY <1>6 DEF ApplyOpenSnapshot
  <2>2. Noted' /\ Shown'
    BY <2>1, BodiesNameOneShots, AppliedOneShots
  <2> QED
    BY <2>1, <2>2 DEF Arrived
<1>7. ASSUME NEW c \in rest, Replay(c) PROVE Noted' /\ Shown' /\ Arrived'
  <2>1. /\ ~idle /\ c \in issued /\ Apply(c.version, c.delta)
        /\ UNCHANGED <<keyed, issued, state, latest>>
        /\ \A e \in rest : c.version <= e.version
    BY <1>7 DEF Replay, ReplayOne, IsNext, Follows
  <2>2. \A k \in DOMAIN state : \A n :
            IsNewest(n, k) /\ n.version > applied => c.version <= n.version
    BY <2>1 DEF Follows
  <2> QED
    BY <2>1, <2>2, CommandArrives
<1>8. ASSUME FinishReplay, UNCHANGED backend PROVE Noted' /\ Shown' /\ Arrived'
  <2>1. /\ ~idle /\ rest = {}
        /\ UNCHANGED <<keyed, stopped, slots, consumed, outbox, issued, state>>
    BY <1>8 DEF FinishReplay
  <2>2. ASSUME NEW k \in DOMAIN state, NEW n, IsNewest(n, k)
        PROVE  n.version <= applied
    <3>1. ~(n.version > applied) /\ n.version \in Nat
      BY <2>1, <2>2 DEF Follows, IsNewest, Ordered
    <3> QED
      BY <3>1 DEF Follows
  <2> QED
    BY <1>1, <2>1, <2>2 DEF Arrived, IsNewest, Names, Writes
<1>9. ASSUME Restart PROVE Noted' /\ Shown' /\ Arrived'
  <2>1. /\ applied' = 0 /\ consumed' = {} /\ outbox' = <<>>
        /\ injection' = None /\ replan' = None /\ excision' = None
        /\ UNCHANGED <<issued, state>>
    BY <1>9 DEF Restart
  <2>2. \A n \in issued : ~(n.version <= 0)
    BY DEF Ordered
  <2>3. Arrived'
    BY <2>1, <2>2 DEF Arrived, IsNewest
  <2> QED
    BY <2>1, <2>3 DEF Noted, Shown
<1>10. ASSUME Boundary PROVE Noted' /\ Shown' /\ Arrived'
  <2>1. /\ Noted' /\ Shown' /\ Extends /\ outbox \in Seq(Note)
        /\ \A k \in OneShotKey :
             \/ Slot(k)' = Slot(k)
             \/ \E id : id = IdOf(k, Slot(k)) /\ Answered(id)'
        /\ UNCHANGED <<keyed, applied, stopped, issued, state>>
    BY <1>10, TakenOneShots DEF Noted
  <2>2. ASSUME NEW k \in OneShotKey, NEW value, NEW v, Dealt(k, value, v)
        PROVE  Dealt(k, value, v)'
    BY <2>1, <2>2, DealtStays
  <2> QED
    BY <2>1, <2>2 DEF Arrived, IsNewest
<1>11. ASSUME UNCHANGED vars, UNCHANGED state PROVE OneShotsApart
  BY <1>11 DEF vars, nodeVars, OneShotsApart
<1>12. CASE Reconnect
  <2>1. ASSUME StartReplay(latest, state, Chain), UNCHANGED backend
        PROVE  OneShotsApart
    BY <2>1 DEF StartReplay, nodeVars, OneShotsApart
  <2> QED
    BY <1>2, <1>6, <1>11, <1>12, <2>1 DEF Reconnect
<1>13. CASE Disconnect \/ UNCHANGED allVars
  BY <1>2, <1>11, <1>13 DEF Disconnect, allVars
<1>14. CASE Hold
  <2>1. OneShotsApart
    BY <1>14 DEF Hold, OneShotsApart
  <2> QED
    BY <1>2, <2>1
<1> QED
  BY <1>3, <1>4, <1>5, <1>7, <1>8, <1>9, <1>10, <1>12, <1>13, <1>14,
     CommandType DEF ReconnectNext

\* The one-shots the backend still wants done have reached a keyed node that
\* has caught up, or were refused with their cap (session.py:166-180).
THEOREM WantedOneShotsArrive == ReconnectSpec => []OneShotsArrive
<1>1. ReconnectInit => Noted /\ Shown /\ Arrived
  BY DEF ReconnectInit, Init, EmptyState, Noted, Shown, Arrived, Names, Writes
<1>2. ASSUME Ordered, StateIsNewest, Arrived PROVE OneShotsArrive
  <2> SUFFICES ASSUME keyed, CaughtUp, ~stopped, NEW k \in OneShotKey, Names(state, k)
               PROVE  \/ Slot(k) = state[k]
                      \/ Answered(IdOf(k, state[k]))
                      \/ RefusedAsWidening(Newest(k).version)
    BY DEF OneShotsArrive
  <2>1. IsNewest(Newest(k), k)
    BY <1>2 DEF StateIsNewest, IsNewest, Newest, Names, Writes
  <2>2. Newest(k).version <= applied
    BY <2>1 DEF IsNewest, CaughtUp
  <2> QED
    BY <1>2, <2>1, <2>2 DEF Arrived, Dealt
<1> QED
  BY <1>1, <1>2, BackendIsOrdered, NodeFollows, ArrivedStep, PTL
     DEF ReconnectSpec

-----------------------------------------------------------------------------
(***************************************************************************)
(* The whole chain.                                                        *)
(***************************************************************************)
\* Postures as a node may have them.
Postures ==
    [stopped : BOOLEAN, paused : BOOLEAN, cap : Int \cup {None}]

\* Commands with a version each.
Distinct(commands) ==
    /\ \A c \in commands : c.version \in Nat \ {0} /\ c.delta \in Delta
    /\ \A c, e \in commands : c.version = e.version => c = e

\* A command takes a posture to a posture.
LEMMA ObeyType ==
    ASSUME NEW p \in Postures, NEW d \in Delta
    PROVE  Obey(p, d) \in Postures
<1>1. /\ p.stopped \in BOOLEAN /\ p.paused \in BOOLEAN /\ p.cap \in Int \cup {None}
      /\ p = [stopped |-> p.stopped, paused |-> p.paused, cap |-> p.cap]
  BY DEF Postures
<1>2. /\ (IF Writes(d, "stopped") THEN d["stopped"] ELSE FALSE) \in BOOLEAN
      /\ (IF Writes(d, "paused") THEN d["paused"] ELSE p.paused) \in BOOLEAN
      /\ Names(d, "budget_cap_calls") => d["budget_cap_calls"] \in Int
  BY <1>1, DeltaType
<1> QED
  BY <1>1, <1>2 DEF Obey, Postures

\* What the recursion is: the posture after a version is the one before it,
\* changed by the command of that version if there is one.
LEMMA AfterSteps ==
    ASSUME NEW commands, Distinct(commands)
    PROVE  /\ After(commands)[0] = Fresh
           /\ \A v \in Nat : After(commands)[v] \in Postures
           /\ \A v \in Nat \ {0} :
                 (~\E c \in commands : c.version = v) =>
                     After(commands)[v] = After(commands)[v - 1]
           /\ \A c \in commands :
                 After(commands)[c.version] = Obey(After(commands)[c.version - 1], c.delta)
<1> DEFINE At(v) == CHOOSE c \in commands : c.version = v
           Some(v) == \E c \in commands : c.version = v
           step == [x \in Nat \X Postures |->
                      IF Some(x[1] + 1) THEN Obey(x[2], At(x[1] + 1).delta) ELSE x[2]]
           Is(g) == g = [v \in Nat |->
                           IF v = 0 THEN Fresh
                           ELSE IF Some(v) THEN Obey(g[v - 1], At(v).delta)
                           ELSE g[v - 1]]
<1>1. \A v : Some(v) => At(v) \in commands /\ At(v).version = v
  OBVIOUS
<1>2. \A c \in commands : At(c.version) = c /\ Some(c.version)
  BY <1>1 DEF Distinct
<1>3. Fresh \in Postures
  BY ConfigType DEF Fresh, Postures
<1>4. step \in [Nat \X Postures -> Postures]
  <2>1. ASSUME NEW x \in Nat \X Postures
        PROVE (IF Some(x[1] + 1) THEN Obey(x[2], At(x[1] + 1).delta) ELSE x[2]) \in Postures
    <3>1. x[2] \in Postures
      OBVIOUS
    <3>2. Some(x[1] + 1) => At(x[1] + 1).delta \in Delta
      BY <1>1 DEF Distinct
    <3> HIDE DEF At, Some
    <3> QED
      BY <3>1, <3>2, ObeyType
  <2> QED
    BY <2>1
<1>5. \A n \in Nat, p \in Postures :
        step[<<n, p>>] = IF Some(n + 1) THEN Obey(p, At(n + 1).delta) ELSE p
  <2> HIDE DEF At, Some
  <2> QED
    OBVIOUS
<1> HIDE DEF step, At, Some
<1>6. PICK f : Recurs(f, Postures, Fresh, step)
  BY <1>3, <1>4, Recursion
<1>7. Is(f)
  <2>1. ASSUME NEW v \in Nat
        PROVE  f[v] = IF v = 0 THEN Fresh
                      ELSE IF Some(v) THEN Obey(f[v - 1], At(v).delta)
                      ELSE f[v - 1]
    <3>1. CASE v = 0
      BY <1>6, <3>1 DEF Recurs
    <3>2. CASE v # 0
      <4>1. PICK n \in Nat : v = n + 1 /\ v - 1 = n
        BY <3>2
      <4> QED
        BY <1>5, <1>6, <3>2, <4>1 DEF Recurs
    <3> QED
      BY <3>1, <3>2
  <2>2. f = [v \in Nat |-> f[v]]
    BY <1>6 DEF Recurs
  <2> QED
    BY <2>1, <2>2
<1>8. After(commands) = CHOOSE g : Is(g)
  BY DEF After, At, Some
<1>9. Is(After(commands))
  <2> HIDE DEF Is
  <2> QED
    BY <1>7, <1>8
<1> DEFINE g == After(commands)
<1>10. \A v \in Nat : g[v] = IF v = 0 THEN Fresh
                             ELSE IF Some(v) THEN Obey(g[v - 1], At(v).delta)
                             ELSE g[v - 1]
  <2> HIDE DEF g
  <2> SUFFICES ASSUME Is(g)
               PROVE \A v \in Nat : g[v] = IF v = 0 THEN Fresh
                             ELSE IF Some(v) THEN Obey(g[v - 1], At(v).delta)
                             ELSE g[v - 1]
    BY <1>9 DEF g
  <2> QED
    OBVIOUS
<1> HIDE DEF g, Is
<1>11. \A v \in Nat : g[v] \in Postures
  <2> DEFINE T == {v \in Nat : g[v] \in Postures}
  <2>1. 0 \in T
    BY <1>3, <1>10
  <2>2. ASSUME NEW n \in Nat, n \in T PROVE n + 1 \in T
    <3>1. g[n] \in Postures /\ n + 1 \in Nat /\ n + 1 # 0 /\ (n + 1) - 1 = n
      BY <2>2
    <3>2. g[n + 1] = IF Some(n + 1) THEN Obey(g[n], At(n + 1).delta) ELSE g[n]
      BY <1>10, <3>1
    <3>3. Some(n + 1) => At(n + 1).delta \in Delta
      BY <1>1 DEF Distinct
    <3>4. g[n + 1] \in Postures
      BY <3>1, <3>2, <3>3, ObeyType
    <3> QED
      BY <3>1, <3>4
  <2> HIDE DEF T
  <2>3. Nat \subseteq T
    BY <2>1, <2>2, Induction
  <2> QED
    BY <2>3 DEF T
<1>12. \A v \in Nat \ {0} : ~Some(v) => g[v] = g[v - 1]
  BY <1>10
<1>13. \A c \in commands : g[c.version] = Obey(g[c.version - 1], c.delta)
  BY <1>2, <1>10 DEF Distinct
<1> QED
  BY <1>10, <1>11, <1>12, <1>13 DEF g, Some

\* Versions no command has change nothing.
LEMMA AfterSkips ==
    ASSUME NEW commands, Distinct(commands), NEW a \in Nat, NEW b \in Nat, a <= b,
           \A c \in commands : ~(a < c.version /\ c.version <= b)
    PROVE  After(commands)[b] = After(commands)[a]
<1> DEFINE T == {n \in Nat : a <= n /\ n <= b => After(commands)[n] = After(commands)[a]}
<1>1. 0 \in T
  OBVIOUS
<1>2. ASSUME NEW n \in Nat, n \in T PROVE n + 1 \in T
  <2> SUFFICES ASSUME a <= n + 1, n + 1 <= b
               PROVE  After(commands)[n + 1] = After(commands)[a]
    OBVIOUS
  <2>1. CASE n + 1 = a
    BY <2>1
  <2>2. CASE n + 1 # a
    <3>1. After(commands)[n] = After(commands)[a] /\ a < n + 1
      BY <1>2, <2>2
    <3>2. ~\E c \in commands : c.version = n + 1
      BY <3>1
    <3>3. PICK v \in Nat \ {0} : v = n + 1 /\ v - 1 = n
      OBVIOUS
    <3>4. After(commands)[v] = After(commands)[v - 1]
      BY <3>2, <3>3, AfterSteps
    <3> QED
      BY <3>1, <3>3, <3>4
  <2> QED
    BY <2>1, <2>2
<1>3. Nat \subseteq T
  <2> HIDE DEF T
  <2> QED
    BY <1>1, <1>2, Induction
<1> QED
  BY <1>3

\* A newer command does not change what the older ones made.
LEMMA AfterExtends ==
    ASSUME NEW commands, NEW more, Distinct(commands), Distinct(more),
           commands \subseteq more, NEW b \in Nat,
           \A c \in more \ commands : c.version > b
    PROVE  After(more)[b] = After(commands)[b]
<1> DEFINE T == {n \in Nat : n <= b => After(more)[n] = After(commands)[n]}
<1>1. 0 \in T
  BY AfterSteps
<1>2. ASSUME NEW n \in Nat, n \in T PROVE n + 1 \in T
  <2> SUFFICES ASSUME n + 1 <= b PROVE After(more)[n + 1] = After(commands)[n + 1]
    OBVIOUS
  <2>1. After(more)[n] = After(commands)[n]
    BY <1>2
  <2>2. PICK v \in Nat \ {0} : v = n + 1 /\ v - 1 = n
    OBVIOUS
  <2>3. \A c \in more : c.version = v => c \in commands
    BY <2>2 DEF Distinct
  <2>4. CASE \E c \in commands : c.version = v
    <3>1. PICK c \in commands : c.version = v
      BY <2>4
    <3>2. c \in more
      BY <3>1
    <3>3. /\ After(commands)[v] = Obey(After(commands)[v - 1], c.delta)
          /\ After(more)[v] = Obey(After(more)[v - 1], c.delta)
      BY <3>1, <3>2, AfterSteps
    <3> QED
      BY <2>1, <2>2, <3>3
  <2>5. CASE ~\E c \in commands : c.version = v
    <3>1. ~\E c \in more : c.version = v
      BY <2>3, <2>5
    <3>2. /\ After(commands)[v] = After(commands)[v - 1]
          /\ After(more)[v] = After(more)[v - 1]
      BY <2>5, <3>1, AfterSteps
    <3> QED
      BY <2>1, <2>2, <3>2
  <2> QED
    BY <2>4, <2>5
<1>3. Nat \subseteq T
  <2> HIDE DEF T
  <2> QED
    BY <1>1, <1>2, Induction
<1> QED
  BY <1>3

\* The posture the node is in.
Here == [stopped |-> stopped, paused |-> paused, cap |-> cap]

\* A newer command does to the node what Obey says.
LEMMA ApplyObeys ==
    ASSUME Here \in Postures, NEW v, NEW d \in Delta, ~Stale(v), Apply(v, d)
    PROVE  Here' = Obey(Here, d) /\ applied' = v
<1>0. stopped \in BOOLEAN /\ paused \in BOOLEAN /\ cap \in Int \cup {None}
      /\ None \notin Int
  <2>1. Here.stopped = stopped /\ Here.paused = paused /\ Here.cap = cap
    BY DEF Here
  <2> QED
    BY <2>1, NoneIsNoValue DEF Postures
<1>1. CASE Absorb(v)
  BY <1>1 DEF Absorb, posture, Obey, Here
<1>2. ASSUME SetFlags(v, d),
             cap' = IF Names(d, "budget_cap_calls")
                       /\ (cap = None \/ d["budget_cap_calls"] <= cap)
                    THEN d["budget_cap_calls"] ELSE cap
      PROVE  Here' = Obey(Here, d)
  <2>1. ~stopped
        /\ stopped' = (IF Writes(d, "stopped") THEN d["stopped"] ELSE FALSE)
        /\ paused' = (IF Writes(d, "paused") THEN d["paused"] ELSE paused)
    BY <1>0, <1>2 DEF SetFlags
  <2> QED
    BY <1>2, <2>1 DEF Obey, Here
<1>3. CASE RejectWidening(v, d)
  <2>1. cap' = cap /\ Names(d, "budget_cap_calls") /\ cap # None
        /\ ~(d["budget_cap_calls"] <= cap)
    BY <1>0, <1>3, DeltaType DEF RejectWidening, Widens
  <2> QED
    BY <1>2, <1>3, <2>1 DEF RejectWidening, SetFlags
<1>4. CASE Accept(v, d)
  <2>1. Names(d, "budget_cap_calls") => cap = None \/ d["budget_cap_calls"] <= cap
    BY <1>0, <1>4, DeltaType DEF Accept, Widens
  <2>2. cap' = IF Names(d, "budget_cap_calls") THEN d["budget_cap_calls"] ELSE cap
    BY <1>4 DEF Accept, Arm
  <2> QED
    BY <1>2, <1>4, <2>1, <2>2 DEF Accept, SetFlags
<1> QED
  BY <1>1, <1>3, <1>4 DEF Apply, Absorb

\* What a hold no command has taken back makes of a posture.
Held(p) == [stopped |-> p.stopped, paused |-> TRUE, cap |-> p.cap]

UnderHold(p) == IF held THEN Held(p) ELSE p

\* A held node that obeys a newer command is the node never held, paused; where
\* the command writes `paused` it is that node.
LEMMA HeldObeys ==
    ASSUME NEW p \in Postures, NEW d \in Delta
    PROVE  Obey(Held(p), d) =
               IF p.stopped \/ ~Writes(d, "paused") THEN Held(Obey(p, d)) ELSE Obey(p, d)
<1>1. CASE p.stopped
  BY <1>1 DEF Obey, Held
<1>2. CASE ~p.stopped
  BY <1>2 DEF Obey, Held
<1> QED
  BY <1>1, <1>2

\* A keyed node under a backend that sends every command is where the commands
\* up to the version it has applied lead, or held there, and a replay holds all
\* above it.
Tracks ==
    keyed /\ ~compact =>
        /\ Here = UnderHold(After(issued)[applied])
        /\ ~idle => \A e \in issued : e.version > applied => e \in rest

\* The next command there is, applied.
LEMMA CommandTracks ==
    ASSUME Ordered, Follows, Tracks, keyed, ~compact, NEW c \in issued,
           Apply(c.version, c.delta), TakesBackHold(c.version, c.delta),
           UNCHANGED issued,
           \A e \in issued : e.version > applied => c.version <= e.version
    PROVE  /\ Here' = UnderHold(After(issued)[applied])'
           /\ applied' = IF c.version > applied THEN c.version ELSE applied
<1>0. Distinct(issued) /\ applied \in Nat /\ c.version \in Nat \ {0} /\ c.delta \in Delta
  BY DEF Ordered, Distinct, Follows
<1> DEFINE before == After(issued)[applied]
<1>1. before \in Postures /\ Here = UnderHold(before) /\ Here \in Postures
  <2>1. before \in Postures
    BY <1>0, AfterSteps
  <2>2. Here = UnderHold(before)
    BY DEF Tracks
  <2> HIDE DEF before
  <2> QED
    BY <2>1, <2>2 DEF UnderHold, Held, Postures
<1>2. CASE Stale(c.version)
  <2>1. UNCHANGED <<applied, stopped, paused, cap, held>>
    BY <1>2 DEF Apply, nodeVars, posture, TakesBackHold
  <2>2. ~(c.version > applied)
    BY <1>0, <1>2 DEF Stale
  <2> QED
    BY <1>1, <2>1, <2>2 DEF Here, UnderHold
<1>3. CASE ~Stale(c.version)
  <2>1. Here' = Obey(Here, c.delta) /\ applied' = c.version
    BY <1>0, <1>1, <1>3, ApplyObeys
  <2>2. c.version > applied
    BY <1>0, <1>3 DEF Stale
  <2>3. After(issued)[c.version - 1] = before
    <3>1. PICK b \in Nat : b = c.version - 1
      BY <1>0
    <3>2. applied <= b
      BY <1>0, <2>2, <3>1
    <3>3. \A e \in issued : ~(applied < e.version /\ e.version <= b)
      BY <1>0, <3>1 DEF Distinct
    <3> QED
      BY <1>0, <3>1, <3>2, <3>3, AfterSkips
  <2>4. After(issued)[c.version] = Obey(before, c.delta)
    BY <1>0, <2>3, AfterSteps
  <2> HIDE DEF before
  <2>5. stopped = before.stopped
    <3>1. Here.stopped = stopped /\ Here.stopped = before.stopped
      BY <1>1 DEF Here, UnderHold, Held, Postures
    <3> QED
      BY <3>1
  <2>6. held' = IF before.stopped \/ ~Writes(c.delta, "paused") THEN held ELSE FALSE
    BY <1>3, <2>5 DEF TakesBackHold
  <2>7. Here' = IF held' THEN Held(Obey(before, c.delta))
                ELSE Obey(before, c.delta)
    <3>1. CASE held
      <4>1. Here' = IF before.stopped \/ ~Writes(c.delta, "paused")
                    THEN Held(Obey(before, c.delta))
                    ELSE Obey(before, c.delta)
        BY <1>0, <1>1, <2>1, <3>1, HeldObeys DEF UnderHold
      <4> QED
        BY <2>6, <3>1, <4>1
    <3>2. CASE ~held
      BY <1>1, <2>1, <2>6, <3>2 DEF UnderHold
    <3> QED
      BY <3>1, <3>2
  <2> QED
    BY <2>1, <2>2, <2>4, <2>7 DEF UnderHold
<1> QED
  BY <1>2, <1>3

\* The steps that change none of it.
TracksApart ==
    UNCHANGED <<keyed, compact, posture, held, applied, issued, rest, snapVersion>>

\* Every step keeps a node that follows the whole chain on it.
LEMMA TracksStep ==
    ASSUME Ordered, Follows, Tracks, [ReconnectNext]_allVars
    PROVE  Tracks'
<1> USE DEF backend, process, posture
<1>0. Distinct(issued) /\ applied \in Nat /\ latest \in Nat
  BY DEF Ordered, Distinct, Follows
<1>1. ASSUME TracksApart PROVE Tracks'
  BY <1>1 DEF TracksApart, Tracks, Here, UnderHold, idle
<1>2. ASSUME NEW d \in Delta, Order(d) PROVE Tracks'
  <2>1. PICK new : new = [version |-> latest + 1, delta |-> d]
    OBVIOUS
  <2>2. /\ UNCHANGED <<keyed, compact, posture, held, applied, rest, snapVersion>>
        /\ issued' = issued \cup {new} /\ idle
    BY <1>2, <2>1 DEF Order, nodeVars
  <2>3. new.version = latest + 1 /\ new.delta = d
    BY <2>1
  <2>4. PICK more : more = issued'
    OBVIOUS
  <2>5. Distinct(more) /\ issued \subseteq more
    BY <1>0, <2>2, <2>3, <2>4 DEF Ordered, Distinct
  <2>6. \A c \in more \ issued : c.version > applied
    BY <1>0, <2>2, <2>3, <2>4 DEF Follows
  <2>7. After(more)[applied] = After(issued)[applied]
    BY <1>0, <2>5, <2>6, AfterExtends
  <2>8. After(issued)' = After(more)
    BY <2>4 DEF After
  <2> QED
    BY <2>2, <2>7, <2>8 DEF Tracks, Here, UnderHold, idle
<1>3. ASSUME NEW c \in issued, Push(c) PROVE Tracks'
  <2>1. /\ idle /\ Apply(c.version, c.delta) /\ TakesBackHold(c.version, c.delta)
        /\ UNCHANGED <<keyed, compact, issued, rest, snapVersion>>
        /\ \A e \in issued : e.version > applied => c.version <= e.version
    BY <1>3 DEF Push, ApplyDelta, Verified
  <2>2. keyed /\ ~compact => Here' = UnderHold(After(issued)[applied])'
    BY <2>1, CommandTracks
  <2> QED
    BY <2>1, <2>2 DEF Tracks, idle
<1>4. ASSUME NEW c \in rest, Replay(c) PROVE Tracks'
  <2>1. /\ ~idle /\ c \in issued
        /\ Apply(c.version, c.delta) /\ TakesBackHold(c.version, c.delta)
        /\ rest' = rest \ {c}
        /\ UNCHANGED <<keyed, compact, issued, snapVersion>>
        /\ \A e \in rest : c.version <= e.version
    BY <1>4 DEF Replay, ReplayOne, IsNext, Follows
  <2> SUFFICES ASSUME keyed, ~compact PROVE Tracks'
    BY <2>1 DEF Tracks
  <2>2. /\ Here' = UnderHold(After(issued)[applied])'
        /\ applied' = IF c.version > applied THEN c.version ELSE applied
    BY <2>1, CommandTracks DEF Tracks
  <2>3. ASSUME NEW e \in issued, e.version > applied' PROVE e \in rest'
    <3>1. e.version \in Nat /\ c.version \in Nat
      BY <2>1 DEF Ordered
    <3>2. e.version > applied /\ e # c
      BY <1>0, <2>2, <2>3, <3>1
    <3> QED
      BY <2>1, <3>2 DEF Tracks
  <2> QED
    BY <2>1, <2>2, <2>3 DEF Tracks
<1>5. ASSUME FinishReplay, UNCHANGED <<backend, process>> PROVE Tracks'
  <2>1. /\ ~idle /\ rest = {} /\ snapVersion' = 0
        /\ applied' = IF snapVersion > applied THEN snapVersion ELSE applied
        /\ UNCHANGED <<keyed, compact, posture, held, issued>>
    BY <1>5 DEF FinishReplay
  <2> SUFFICES ASSUME keyed, ~compact PROVE Tracks'
    BY <2>1 DEF Tracks
  <2>2. applied' \in Nat /\ applied <= applied'
    BY <1>0, <2>1 DEF Follows
  <2>3. PICK b \in Nat : b = applied'
    BY <2>2
  <2>4. \A e \in issued : ~(applied < e.version /\ e.version <= b)
    BY <1>0, <2>1 DEF Tracks, Distinct
  <2>5. After(issued)[b] = After(issued)[applied]
    BY <1>0, <2>2, <2>3, <2>4, AfterSkips
  <2>6. After(issued)' = After(issued) /\ Here' = Here /\ held' = held
    BY <2>1 DEF Here
  <2>7. Here' = UnderHold(After(issued)[applied])'
    BY <2>1, <2>3, <2>5, <2>6 DEF Tracks, UnderHold
  <2> QED
    BY <2>1, <2>7 DEF Tracks, idle
<1>6. ASSUME Restart PROVE Tracks'
  <2>1. /\ applied' = 0 /\ ~stopped' /\ ~paused' /\ cap' = LocalCap
        /\ stopped' = FALSE /\ paused' = FALSE /\ ~held'
        /\ UNCHANGED <<issued, rest, snapVersion>> /\ idle
    BY <1>6 DEF Restart
  <2>2. After(issued)' = After(issued) /\ After(issued)[0] = Fresh /\ Here' = Fresh
    BY <1>0, <2>1, AfterSteps DEF Here, Fresh
  <2> QED
    BY <2>1, <2>2 DEF Tracks, UnderHold, idle
<1>7. ASSUME StartReplay(latest, state, Chain), UNCHANGED <<backend, held>>
      PROVE  Tracks'
  <2>1. UNCHANGED <<keyed, compact, posture, held, applied, issued>> /\ rest' = Chain
    BY <1>7 DEF StartReplay, nodeVars
  <2> QED
    BY <2>1 DEF Tracks, Here, UnderHold, Chain
<1>8. ASSUME ApplyOpenSnapshot(latest, state) PROVE Tracks'
  BY <1>8 DEF ApplyOpenSnapshot, Tracks
<1>9. ASSUME UNCHANGED vars, UNCHANGED <<compact, held>> PROVE Tracks'
  BY <1>1, <1>9 DEF vars, nodeVars, TracksApart
<1>10. CASE Boundary
  <2>1. TracksApart
    BY <1>10 DEF Boundary, take_pending_injection, take_pending_excision,
                 take_pending_replan, boundaryFrame, TracksApart
  <2> QED
    BY <1>1, <2>1
<1>11. CASE Reconnect
  BY <1>7, <1>8, <1>9, <1>11 DEF Reconnect
<1>12. ASSUME NEW k, Clear(k) PROVE Tracks'
  BY <1>9, <1>12 DEF Clear
<1>13. CASE Disconnect \/ UNCHANGED allVars
  BY <1>9, <1>13 DEF Disconnect, allVars
<1>14. CASE Hold
  <2>1. /\ stopped' = stopped /\ paused' = TRUE /\ cap' = cap /\ held'
        /\ UNCHANGED <<keyed, compact, applied, issued, rest, snapVersion>>
    BY <1>14 DEF Hold
  <2> SUFFICES ASSUME keyed, ~compact PROVE Tracks'
    BY <2>1 DEF Tracks
  <2>2. PICK p \in Postures : p = After(issued)[applied]
    BY <1>0, AfterSteps
  <2>3. Here = UnderHold(p)
    BY <2>2 DEF Tracks
  <2>4. Here' = Held(p)
    <3>1. Here.stopped = p.stopped /\ Here.cap = p.cap
      BY <2>3 DEF UnderHold, Held
    <3>2. stopped = p.stopped /\ cap = p.cap
      BY <3>1 DEF Here
    <3> QED
      BY <2>1, <3>2 DEF Here, Held
  <2>5. Here' = UnderHold(After(issued)[applied])'
    BY <2>1, <2>2, <2>4 DEF UnderHold
  <2> QED
    BY <2>1, <2>5 DEF Tracks, idle
<1> QED
  BY <1>2, <1>3, <1>4, <1>5, <1>6, <1>10, <1>11, <1>12, <1>13, <1>14, CommandType
     DEF ReconnectNext

\* A node whose snapshots carry every command is, once it has caught up, where
\* one that never was away is, restarts, repeats and cleared keys or not; only
\* its client's hold, until a command takes it back, may keep it paused beyond
\* that (session.py:107-110, 166-180, client.py:333-337).
THEOREM WholeChainAppliesIdentically == ReconnectSpec => []WholeChainIsLive
<1>1. ASSUME ReconnectInit PROVE Tracks
  <2>1. /\ Here = Fresh /\ issued = {} /\ applied = 0 /\ idle /\ ~held
    BY <1>1 DEF ReconnectInit, Init, Here, Fresh, idle
  <2>2. Distinct(issued)
    BY <2>1 DEF Distinct
  <2>3. After(issued)[0] = Fresh
    BY <2>2, AfterSteps
  <2> QED
    BY <2>1, <2>3 DEF Tracks, UnderHold
<1>2. ASSUME Ordered, Follows, Tracks PROVE WholeChainIsLive
  <2> SUFFICES ASSUME keyed, ~compact, CaughtUp
               PROVE  /\ stopped = Live.stopped
                      /\ IF held THEN paused ELSE paused = Live.paused
                      /\ cap = Live.cap
    BY DEF WholeChainIsLive, AppliesIdentically
  <2>1. applied \in Nat /\ latest \in Nat /\ applied <= latest /\ Distinct(issued)
    BY <1>2 DEF Ordered, Follows, Distinct
  <2>2. \A e \in issued : ~(applied < e.version /\ e.version <= latest)
    BY <2>1 DEF CaughtUp, Distinct
  <2>3. After(issued)[latest] = After(issued)[applied]
    BY <2>1, <2>2, AfterSkips
  <2>4. Here = UnderHold(Live)
    BY <1>2, <2>3 DEF Tracks, Live
  <2>5. /\ Here.stopped = Live.stopped
        /\ IF held THEN Here.paused = TRUE ELSE Here.paused = Live.paused
        /\ Here.cap = Live.cap
    BY <2>4 DEF UnderHold, Held
  <2> QED
    BY <2>5 DEF Here
<1> QED
  BY <1>1, <1>2, BackendIsOrdered, NodeFollows, TracksStep, PTL DEF ReconnectSpec

-----------------------------------------------------------------------------
(***************************************************************************)
(* Which one-shots a restarted node may fire again, and which a late       *)
(* /consumed call may take away.                                           *)
(***************************************************************************)
\* Every one-shot belongs to one command and one key of it.
OwnIds ==
    \A c, e \in issued : \A j, k \in OneShotKey : \A id :
        id \in IdAt(c.delta, j) /\ id \in IdAt(e.delta, k) => c = e /\ j = k

\* The one-shot armed under k.
ArmedId(k, id) == Slot(k) # None /\ id = IdOf(k, Slot(k))

\* What is armed, fired or cleared, some command named.
SlotNamed ==
    \A k \in OneShotKey : \A id :
        ArmedId(k, id) => \E c \in issued : id \in IdAt(c.delta, k)

Named(id) == \E c \in issued : \E k \in OneShotKey : id \in IdAt(c.delta, k)

FiredNamed == \A id \in consumed \cup earlier \cup cleared : Named(id)

\* A /consumed call under way is for a key under which a one-shot fired.
AcksFired ==
    \A k \in acks :
        /\ k \in OneShotKey
        /\ \E c \in issued : \E id \in consumed \cup earlier : id \in IdAt(c.delta, k)

\* What was cleared is not in the state.
ClearedGone == \A k \in OneShotKey : \A id \in cleared : id \notin IdAt(state, k)

Known == OwnIds /\ SlotNamed /\ FiredNamed /\ AcksFired /\ ClearedGone

\* What the ids of a body or a state are.
LEMMA IdsAre ==
    ASSUME NEW d
    PROVE  /\ \A k, id : id \in IdAt(d, k) <=> Names(d, k) /\ id = IdOf(k, d[k])
           /\ \A id : id \in Ids(d) <=> \E k \in OneShotKey : id \in IdAt(d, k)
BY DEF IdAt, Ids

\* What the state names, the newest writer of the key named.
LEMMA StateNames ==
    ASSUME StateIsNewest, NEW k, NEW id, id \in IdAt(state, k)
    PROVE  \E c : IsNewest(c, k) /\ id \in IdAt(c.delta, k)
<1>1. Names(state, k) /\ id = IdOf(k, state[k])
  BY IdsAre
<1>2. PICK c : IsNewest(c, k) /\ c.delta[k] = state[k]
  BY <1>1 DEF StateIsNewest, Names, Writes
<1>3. Names(c.delta, k) /\ id = IdOf(k, c.delta[k])
  BY <1>1, <1>2 DEF IsNewest, Names
<1> QED
  BY <1>2, <1>3, IdsAre

\* _apply arms one-shots of the body, and nothing else.
LEMMA AppliedArms ==
    ASSUME NEW v, NEW d, Apply(v, d)
    PROVE  /\ \A k \in OneShotKey : \A id :
                ArmedId(k, id)' => ArmedId(k, id) \/ (id \in IdAt(d, k) /\ ~Stale(v))
           /\ UNCHANGED consumed
<1>1. \/ UNCHANGED <<slots, consumed>>
      \/ /\ UNCHANGED consumed /\ ~Stale(v)
         /\ injection' = Arm(d, "pending_injection", injection)
         /\ excision' = Arm(d, "pending_excision", excision)
         /\ replan' = Arm(d, "replan", replan)
  BY DEF Apply, Absorb, RejectWidening, Accept, nodeVars
<1>2. \A k \in OneShotKey : Slot(k)' = Slot(k) \/ (Names(d, k) /\ Slot(k)' = d[k] /\ ~Stale(v))
  <2>1. ASSUME UNCHANGED slots PROVE \A k \in OneShotKey : Slot(k)' = Slot(k)
    BY <2>1 DEF Slot, slots
  <2>2. ASSUME injection' = Arm(d, "pending_injection", injection),
               excision' = Arm(d, "pending_excision", excision),
               replan' = Arm(d, "replan", replan)
        PROVE  \A k \in OneShotKey : Slot(k)' = IF Names(d, k) THEN d[k] ELSE Slot(k)
    BY <2>2 DEF Slot, OneShotKey, Arm
  <2>3. CASE UNCHANGED slots
    BY <2>1, <2>3
  <2> QED
    BY <1>1, <2>2, <2>3
<1> QED
  BY <1>1, <1>2, IdsAre DEF ArmedId

\* What the host's taking of a one-shot adds to the ids that fired and to the
\* keys to be cleared.
LEMMA BoundaryFires ==
    ASSUME Noted, Boundary
    PROVE  /\ \A k \in OneShotKey : \A id : ArmedId(k, id)' => ArmedId(k, id)
           /\ consumed \subseteq consumed'
           /\ \A id \in consumed' :
                 id \in consumed \/ \E k \in OneShotKey : ArmedId(k, id)
           /\ \A k \in acks' :
                 \/ k \in acks
                 \/ k \in OneShotKey /\ \E id \in consumed' : ArmedId(k, id)
           /\ UNCHANGED <<keyed, applied, issued, rest, snapVersion,
                          compact, state, latest, cleared, synced, earlier>>
<1> USE DEF Noted
<1>1. ASSUME NEW kind, NEW id, Ack(kind, id)
      PROVE  outbox' # outbox /\ outbox'[Len(outbox')].kind = kind
  <2>1. PICK n : n = [kind |-> kind, id |-> id]
    OBVIOUS
  <2>2. outbox' = Append(outbox, n) /\ n.kind = kind
    BY <1>1, <2>1 DEF Ack
  <2> QED
    BY <2>2
<1>2. /\ acks' \subseteq acks \cup {"pending_injection", "pending_excision"}
      /\ outbox' = outbox => acks' = acks
      /\ \A k \in acks' \ acks :
            outbox'[Len(outbox')].kind = IF k = "pending_injection"
                              THEN "injection_consumed" ELSE "context_excision"
      /\ UNCHANGED <<compact, state, latest, cleared, synced, earlier>>
  BY DEF Boundary, Acknowledge, process
<1>3. CASE take_pending_injection
  <2>1. /\ injection # None /\ injection' = None
        /\ UNCHANGED <<excision, replan, boundaryFrame>>
        /\ \/ UNCHANGED <<consumed, outbox>>
           \/ /\ Ack("injection_consumed", injection)
              /\ consumed' = consumed \cup {injection}
           \/ Ack("injection_refused", injection) /\ UNCHANGED consumed
    BY <1>3 DEF take_pending_injection, Fire, Refuse, DropDuplicate
  <2>2. \A k \in OneShotKey : \A id : ArmedId(k, id)' => ArmedId(k, id)
    BY <2>1 DEF ArmedId, Slot, OneShotKey
  <2>3. "pending_injection" \in OneShotKey /\ ArmedId("pending_injection", injection)
    BY <2>1 DEF ArmedId, Slot, IdOf, OneShotKey
  <2>4. \A k \in acks' \ acks : k = "pending_injection" /\ injection \in consumed'
    BY <1>1, <1>2, <2>1
  <2> QED
    BY <1>2, <2>1, <2>2, <2>3, <2>4 DEF boundaryFrame
<1>4. ASSUME NEW config, take_pending_excision(config)
      PROVE  /\ \A k \in OneShotKey : \A id : ArmedId(k, id)' => ArmedId(k, id)
             /\ consumed \subseteq consumed'
             /\ \A id \in consumed' :
                   id \in consumed \/ \E k \in OneShotKey : ArmedId(k, id)
             /\ \A k \in acks' :
                   \/ k \in acks
                   \/ k \in OneShotKey /\ \E id \in consumed' : ArmedId(k, id)
             /\ UNCHANGED boundaryFrame
  <2>1. /\ excision # None /\ excision' = None
        /\ UNCHANGED <<injection, replan, boundaryFrame>>
        /\ \/ UNCHANGED <<consumed, outbox>>
           \/ /\ Ack("context_excision", excision.id)
              /\ consumed' = consumed \cup {excision.id}
           \/ Ack("excision_refused", excision.id) /\ UNCHANGED consumed
    BY <1>4 DEF take_pending_excision, Fire, Refuse, DropDuplicate
  <2>2. \A k \in OneShotKey : \A id : ArmedId(k, id)' => ArmedId(k, id)
    BY <2>1 DEF ArmedId, Slot, OneShotKey
  <2>3. "pending_excision" \in OneShotKey /\ ArmedId("pending_excision", excision.id)
    BY <2>1 DEF ArmedId, Slot, IdOf, OneShotKey
  <2>4. \A k \in acks' \ acks : k = "pending_excision" /\ excision.id \in consumed'
    BY <1>1, <1>2, <2>1
  <2> QED
    BY <1>2, <2>1, <2>2, <2>3, <2>4
<1>5. CASE take_pending_replan
  <2>1. /\ replan # None /\ replan' = None
        /\ UNCHANGED <<injection, excision, boundaryFrame>>
        /\ \/ UNCHANGED <<consumed, outbox>>
           \/ /\ Ack("replan_applied", replan)
              /\ consumed' \in {consumed, consumed \cup {replan}}
           \/ Ack("replan_refused", replan) /\ UNCHANGED consumed
    BY <1>5 DEF take_pending_replan, Fire, Refuse, DropDuplicate
  <2>2. \A k \in OneShotKey : \A id : ArmedId(k, id)' => ArmedId(k, id)
    BY <2>1 DEF ArmedId, Slot, OneShotKey
  <2>3. "replan" \in OneShotKey /\ ArmedId("replan", replan)
    BY <2>1 DEF ArmedId, Slot, IdOf, OneShotKey
  <2>4. acks' \subseteq acks
    BY <1>1, <1>2, <2>1
  <2> QED
    BY <1>2, <2>1, <2>2, <2>3, <2>4 DEF boundaryFrame
<1> QED
  BY <1>2, <1>3, <1>4, <1>5 DEF Boundary, boundaryFrame

\* The steps that change none of it.
KnownApart ==
    UNCHANGED <<issued, state, slots, consumed, earlier, cleared, acks>>

\* A command's ids are its own, so it disturbs nothing.
LEMMA OrderKnown ==
    ASSUME Known, StateIsNewest, NEW d, Order(d)
    PROVE  Known'
<1> USE DEF Known
<1>1. PICK new : new = [version |-> latest + 1, delta |-> d]
  OBVIOUS
<1>2. /\ issued' = issued \cup {new} /\ new.delta = d
      /\ \A k \in DOMAIN state' : state'[k] = IF Writes(d, k) THEN d[k] ELSE state[k]
      /\ \A k : Writes(state', k) => Writes(d, k) \/ Writes(state, k)
      /\ UNCHANGED <<slots, consumed, earlier, cleared, acks>>
  BY <1>1 DEF Order, nodeVars, process, Writes
<1>3. /\ \A j, k \in OneShotKey : \A id :
            id \in IdAt(d, j) /\ id \in IdAt(d, k) => j = k
      /\ \A c \in issued : \A j, k \in OneShotKey : \A id :
            ~(id \in IdAt(c.delta, j) /\ id \in IdAt(d, k))
  BY IdsAre DEF Order
<1>4. OwnIds'
  BY <1>2, <1>3 DEF OwnIds
<1>5. SlotNamed' /\ FiredNamed' /\ AcksFired'
  BY <1>2 DEF SlotNamed, FiredNamed, AcksFired, Named, ArmedId, Slot, slots
<1>6. ASSUME NEW k \in OneShotKey, NEW id \in cleared
      PROVE  id \notin IdAt(state', k)
  <2> SUFFICES ASSUME id \in IdAt(state', k) PROVE FALSE
    OBVIOUS
  <2>1. Names(state', k) /\ id = IdOf(k, state'[k])
    BY IdsAre
  <2>2. CASE Writes(d, k)
    <3>1. state'[k] = d[k] /\ Names(d, k)
      BY <1>2, <2>1, <2>2 DEF Names, Writes
    <3>2. id \in IdAt(d, k)
      BY <2>1, <3>1, IdsAre
    <3> QED
      BY <1>3, <1>6, <3>2 DEF FiredNamed, Named
  <2>3. CASE ~Writes(d, k)
    <3>1. state'[k] = state[k] /\ Names(state, k)
      BY <1>2, <2>1, <2>3 DEF Names, Writes
    <3>2. id \in IdAt(state, k)
      BY <2>1, <3>1, IdsAre
    <3> QED
      BY <1>6, <3>2 DEF ClearedGone
  <2> QED
    BY <2>2, <2>3
<1>7. ClearedGone'
  BY <1>2, <1>6 DEF ClearedGone
<1> QED
  BY <1>4, <1>5, <1>7

\* A /consumed call takes one key's one-shot out of the state, and no other
\* key holds it.
LEMMA ClearKnown ==
    ASSUME Known, StateIsNewest, NEW k, Clear(k)
    PROVE  Known'
<1> USE DEF Known
<1>1. /\ k \in OneShotKey /\ acks' \subseteq acks
      /\ UNCHANGED <<issued, slots, consumed, earlier>>
  BY DEF Clear, vars, nodeVars, process, AcksFired
<1>2. cleared' \subseteq cleared \cup IdAt(state, k)
  BY DEF Clear
<1>3. \A j : \A id : id \in IdAt(state', j) => id \in IdAt(state, j)
  <2> SUFFICES ASSUME NEW j, NEW id, Names(state', j), id = IdOf(j, state'[j])
               PROVE  Names(state, j) /\ id = IdOf(j, state[j])
    BY IdsAre
  <2> QED
    BY DEF Clear, Names, Writes
<1>4. OwnIds' /\ SlotNamed' /\ AcksFired'
  BY <1>1 DEF OwnIds, SlotNamed, AcksFired, ArmedId, Slot, slots
<1>5. FiredNamed'
  BY <1>1, <1>2, StateNames DEF FiredNamed, Named, IsNewest
<1>6. ASSUME NEW j \in OneShotKey, NEW id, id \in IdAt(state', j), id \in cleared'
      PROVE  FALSE
  <2>1. id \in IdAt(state, j) /\ id \notin cleared /\ id \in IdAt(state, k)
    BY <1>2, <1>3, <1>6 DEF ClearedGone
  <2>2. PICK c, e : /\ IsNewest(c, j) /\ id \in IdAt(c.delta, j)
                    /\ IsNewest(e, k) /\ id \in IdAt(e.delta, k)
    BY <2>1, StateNames
  <2>3. j = k
    BY <1>1, <2>2 DEF OwnIds, IsNewest
  <2>4. ~Names(state', k)
    <3>1. k \in DOMAIN state
      BY <2>1, IdsAre DEF Names, Writes
    <3> QED
      BY <3>1 DEF Clear, Names, Writes
  <2> QED
    BY <1>6, <2>3, <2>4, IdsAre
<1>7. ClearedGone'
  BY <1>6 DEF ClearedGone
<1> QED
  BY <1>4, <1>5, <1>7

\* _apply arms what the body names, and some command named it under that key.
LEMMA ApplyKnown ==
    ASSUME Known, NEW v, NEW d, Apply(v, d),
           \A k \in OneShotKey : \A id \in IdAt(d, k) :
               \E c \in issued : id \in IdAt(c.delta, k),
           UNCHANGED <<issued, state, earlier, cleared, acks>>
    PROVE  Known'
<1> USE DEF Known
<1>1. /\ \A k \in OneShotKey : \A id :
            ArmedId(k, id)' => ArmedId(k, id) \/ (id \in IdAt(d, k) /\ ~Stale(v))
      /\ UNCHANGED consumed
  BY AppliedArms
<1>2. SlotNamed'
  BY <1>1 DEF SlotNamed
<1> QED
  BY <1>1, <1>2 DEF OwnIds, FiredNamed, Named, AcksFired, ClearedGone

\* The host takes a one-shot: it fired, and its key may now be cleared.
LEMMA BoundaryKnown ==
    ASSUME Known, Noted, Boundary
    PROVE  Known'
<1> USE DEF Known
<1>1. /\ \A k \in OneShotKey : \A id : ArmedId(k, id)' => ArmedId(k, id)
      /\ consumed \subseteq consumed'
      /\ \A id \in consumed' :
            id \in consumed \/ \E k \in OneShotKey : ArmedId(k, id)
      /\ \A k \in acks' :
            \/ k \in acks
            \/ k \in OneShotKey /\ \E id \in consumed' : ArmedId(k, id)
      /\ UNCHANGED <<issued, state, cleared, earlier>>
  BY BoundaryFires
<1>2. SlotNamed'
  BY <1>1 DEF SlotNamed
<1>3. FiredNamed'
  BY <1>1 DEF SlotNamed, FiredNamed, Named
<1>4. AcksFired'
  BY <1>1 DEF SlotNamed, AcksFired
<1> QED
  BY <1>1, <1>2, <1>3, <1>4 DEF OwnIds, ClearedGone

\* What is known about one-shots survives every step.
LEMMA KnownStep ==
    ASSUME Ordered, StateIsNewest, Follows, Noted, Known, [ReconnectNext]_allVars
    PROVE  Known'
<1> USE DEF backend, process
<1>1. ASSUME KnownApart PROVE Known'
  BY <1>1 DEF KnownApart, Known, OwnIds, SlotNamed, FiredNamed, Named, AcksFired,
              ClearedGone, ArmedId, Slot, slots
<1>2. ASSUME NEW c \in issued, Apply(c.version, c.delta),
             UNCHANGED <<issued, state, earlier, cleared, acks>>
      PROVE  Known'
  BY <1>2, ApplyKnown
<1>3. ASSUME NEW c \in issued, Push(c) PROVE Known'
  <2>1. /\ Apply(c.version, c.delta)
        /\ UNCHANGED <<issued, state, earlier, cleared, acks>>
    BY <1>3 DEF Push, ApplyDelta, Verified
  <2> QED
    BY <1>2, <2>1
<1>4. ASSUME NEW c \in rest, Replay(c) PROVE Known'
  <2>1. /\ c \in issued /\ Apply(c.version, c.delta)
        /\ UNCHANGED <<issued, state, earlier, cleared, acks>>
    BY <1>4 DEF Replay, ReplayOne, Follows
  <2> QED
    BY <1>2, <2>1
<1>5. ASSUME ApplyOpenSnapshot(latest, state), UNCHANGED <<backend, earlier>>
      PROVE  Known'
  <2>1. /\ Apply(latest, state)
        /\ UNCHANGED <<issued, state, earlier, cleared, acks>>
    BY <1>5 DEF ApplyOpenSnapshot
  <2>2. \A k \in OneShotKey : \A id \in IdAt(state, k) :
            \E c \in issued : id \in IdAt(c.delta, k)
    BY StateNames DEF IsNewest
  <2> QED
    BY <2>1, <2>2, ApplyKnown
<1>6. CASE Reconnect
  <2>1. ASSUME StartReplay(latest, state, Chain), UNCHANGED <<backend, earlier>>
        PROVE  KnownApart
    BY <2>1 DEF StartReplay, nodeVars, KnownApart
  <2>2. ASSUME UNCHANGED vars, UNCHANGED <<backend, earlier>> PROVE KnownApart
    BY <2>2 DEF vars, nodeVars, KnownApart
  <2> QED
    BY <1>1, <1>5, <1>6, <2>1, <2>2 DEF Reconnect
<1>7. CASE Restart
  <2>1. /\ injection' = None /\ excision' = None /\ replan' = None
        /\ consumed' = {} /\ earlier' = earlier \cup consumed
        /\ UNCHANGED <<issued, state, cleared, acks>>
    BY <1>7 DEF Restart
  <2>2. \A k \in OneShotKey : Slot(k)' = None
    BY <2>1 DEF Slot, OneShotKey
  <2> QED
    BY <2>1, <2>2 DEF Known, OwnIds, SlotNamed, FiredNamed, Named, AcksFired,
                      ClearedGone, ArmedId
<1>8. CASE FinishReplay /\ UNCHANGED <<backend, process>>
  <2>1. KnownApart
    BY <1>8 DEF FinishReplay, KnownApart
  <2> QED
    BY <1>1, <2>1
<1>9. CASE Disconnect \/ Hold \/ UNCHANGED allVars
  <2>1. KnownApart
    BY <1>9 DEF Disconnect, Hold, allVars, vars, nodeVars, KnownApart
  <2> QED
    BY <1>1, <2>1
<1> QED
  BY <1>3, <1>4, <1>6, <1>7, <1>8, <1>9, OrderKnown, ClearKnown, BoundaryKnown,
     CommandType DEF ReconnectNext

\* Which ids are known, and where.
THEOREM OneShotsKnown == ReconnectSpec => [](Noted /\ Shown /\ Arrived /\ Known)
<1>1. ReconnectInit => Noted /\ Shown /\ Arrived /\ Known
  <2> SUFFICES ASSUME ReconnectInit PROVE Noted /\ Shown /\ Arrived /\ Known
    OBVIOUS
  <2>1. Noted /\ Shown /\ Arrived
    BY DEF ReconnectInit, Init, EmptyState, Noted, Shown, Arrived, Names, Writes
  <2>2. /\ issued = {} /\ injection = None /\ excision = None /\ replan = None
        /\ consumed = {} /\ earlier = {} /\ cleared = {} /\ acks = {}
    BY DEF ReconnectInit, Init
  <2>3. \A k \in OneShotKey : Slot(k) = None
    BY <2>2 DEF Slot, OneShotKey
  <2>4. Known
    BY <2>2, <2>3 DEF Known, OwnIds, SlotNamed, FiredNamed, Named, AcksFired,
                      ClearedGone, ArmedId
  <2> QED
    BY <2>1, <2>4
<1> QED
  BY <1>1, BackendIsOrdered, NodeFollows, ArrivedStep, KnownStep, PTL
     DEF ReconnectSpec

\* A one-shot cleared unfired is younger than one under the same key that
\* fired: the step that clears it.
LEMMA OvertakenStep ==
    ASSUME Ordered, StateIsNewest, Noted, Known, ClearedUnfiredIsOvertaken,
           [ReconnectNext]_allVars
    PROVE  ClearedUnfiredIsOvertaken'
<1> USE DEF backend, process, Known
<1>1. ASSUME issued \subseteq issued', cleared' = cleared,
             earlier \cup consumed \subseteq earlier' \cup consumed'
      PROVE  ClearedUnfiredIsOvertaken'
  BY <1>1 DEF ClearedUnfiredIsOvertaken
<1>2. ASSUME NEW k, Clear(k) PROVE ClearedUnfiredIsOvertaken'
  <2>1. /\ k \in OneShotKey /\ UNCHANGED <<issued, consumed, earlier>>
        /\ cleared' \subseteq cleared \cup IdAt(state, k)
    BY <1>2 DEF Clear, vars, nodeVars, AcksFired
  <2>2. PICK e \in issued, old \in consumed \cup earlier : old \in IdAt(e.delta, k)
    BY <1>2 DEF Clear, AcksFired
  <2>3. ASSUME NEW id \in IdAt(state, k), id \notin earlier \cup consumed
        PROVE  \E c \in issued :
                 /\ Names(c.delta, k) /\ IdOf(k, c.delta[k]) = id
                 /\ Names(e.delta, k) /\ IdOf(k, e.delta[k]) \in earlier \cup consumed
                 /\ e.version < c.version
    <3>1. PICK c : IsNewest(c, k) /\ id \in IdAt(c.delta, k)
      BY <2>3, StateNames
    <3>2. Names(e.delta, k) /\ old = IdOf(k, e.delta[k])
          /\ Names(c.delta, k) /\ id = IdOf(k, c.delta[k])
      BY <2>2, <3>1, IdsAre
    <3>3. c # e /\ e.version <= c.version /\ c \in issued
      BY <2>2, <2>3, <3>1, <3>2 DEF IsNewest, Names
    <3>4. e.version < c.version
      BY <2>2, <3>3 DEF Ordered
    <3> QED
      BY <2>2, <3>2, <3>3, <3>4
  <2> QED
    BY <2>1, <2>3 DEF ClearedUnfiredIsOvertaken
<1>3. CASE Boundary
  BY <1>1, <1>3, BoundaryFires
<1>4. CASE Restart
  BY <1>1, <1>4 DEF Restart
<1>5. ASSUME NEW d, Order(d) PROVE ClearedUnfiredIsOvertaken'
  BY <1>1, <1>5 DEF Order, nodeVars
<1>6. ASSUME NEW c \in issued, Push(c) PROVE ClearedUnfiredIsOvertaken'
  <2>1. Apply(c.version, c.delta) /\ UNCHANGED <<issued, cleared, earlier>>
    BY <1>6 DEF Push, ApplyDelta, Verified
  <2> QED
    BY <1>1, <2>1, AppliedArms
<1>7. ASSUME NEW c, Replay(c) PROVE ClearedUnfiredIsOvertaken'
  <2>1. Apply(c.version, c.delta) /\ UNCHANGED <<issued, cleared, earlier>>
    BY <1>7 DEF Replay, ReplayOne
  <2> QED
    BY <1>1, <2>1, AppliedArms
<1>8. CASE Reconnect
  <2>1. ASSUME ApplyOpenSnapshot(latest, state)
        PROVE  UNCHANGED <<issued, consumed>>
    BY <2>1, AppliedArms DEF ApplyOpenSnapshot
  <2>2. UNCHANGED <<issued, consumed, cleared, earlier>>
    BY <1>8, <2>1 DEF Reconnect, StartReplay, vars, nodeVars
  <2> QED
    BY <1>1, <2>2
<1>9. CASE FinishReplay /\ UNCHANGED <<backend, process>>
  BY <1>1, <1>9 DEF FinishReplay
<1>10. CASE Disconnect \/ Hold \/ UNCHANGED allVars
  BY <1>1, <1>10 DEF Disconnect, Hold, allVars, vars, nodeVars
<1> QED
  BY <1>2, <1>3, <1>4, <1>5, <1>6, <1>7, <1>8, <1>9, <1>10 DEF ReconnectNext

\* A one-shot is cleared without having fired only after an older one under
\* its key fired (client.py:143-151).
THEOREM LateClearTakesTheNewer == ReconnectSpec => []ClearedUnfiredIsOvertaken
<1>1. ReconnectInit => ClearedUnfiredIsOvertaken
  BY DEF ReconnectInit, ClearedUnfiredIsOvertaken
<1> QED
  BY <1>1, BackendIsOrdered, OneShotsKnown, OvertakenStep, PTL DEF ReconnectSpec

\* A node that is connected has had every one-shot that fired before its last
\* restart, or is replaying a snapshot that is newer; a replay belongs to a
\* keyed node, and what a compacted chain still holds is behind some key.
Past(v) == v <= applied \/ v <= snapVersion

Settled ==
    /\ synced => \A c \in issued : \A id \in earlier :
                    id \in Ids(c.delta) => Past(c.version)
    /\ ~idle => keyed
    /\ ~idle /\ compact => \A c \in rest : \E k \in DOMAIN state : IsNewest(c, k)

\* _apply never goes back.
LEMMA ApplyAdvances ==
    ASSUME applied \in Nat, NEW v \in Nat, NEW d, Apply(v, d)
    PROVE  applied' = IF v > applied THEN v ELSE applied
<1>1. CASE Stale(v)
  BY <1>1 DEF Apply, nodeVars, Stale
<1>2. CASE ~Stale(v)
  BY <1>2 DEF Apply, Absorb, RejectWidening, Accept, SetFlags, Stale
<1> QED
  BY <1>1, <1>2

\* A connected node stays past what fired before its last restart.
LEMMA SettledStep ==
    ASSUME Ordered, StateIsNewest, Follows, Noted, Known, Settled,
           [ReconnectNext]_allVars
    PROVE  Settled'
<1> USE DEF backend, process, Known
<1>0. /\ applied \in Nat /\ snapVersion \in Nat /\ latest \in Nat
      /\ \A c \in issued : c.version \in Nat /\ c.version <= latest
  BY DEF Ordered, Follows
<1>1. ASSUME UNCHANGED <<keyed, compact, issued, state, earlier, synced>>,
             applied' \in Nat, applied <= applied',
             UNCHANGED snapVersion, rest' \subseteq rest
      PROVE  Settled'
  BY <1>0, <1>1 DEF Settled, Past, idle, IsNewest
<1>2. ASSUME NEW d, Order(d) PROVE Settled'
  <2>1. PICK new : new = [version |-> latest + 1, delta |-> d]
    OBVIOUS
  <2>2. /\ issued' = issued \cup {new} /\ new.delta = d /\ idle
        /\ UNCHANGED <<keyed, compact, applied, snapVersion, rest, earlier, synced>>
        /\ \A c \in issued : Ids(c.delta) \cap Ids(d) = {}
    BY <1>2, <2>1 DEF Order, nodeVars
  <2>3. \A id \in earlier : id \notin Ids(d)
    BY <2>2, IdsAre DEF FiredNamed, Named
  <2> QED
    BY <2>2, <2>3 DEF Settled, Past, idle
<1>3. ASSUME NEW k, Clear(k) PROVE Settled'
  BY <1>3 DEF Clear, vars, nodeVars, Settled, Past, idle
<1>4. ASSUME NEW c \in issued, Push(c) PROVE Settled'
  <2>1. /\ Apply(c.version, c.delta)
        /\ UNCHANGED <<keyed, compact, issued, state, earlier, synced, snapVersion, rest>>
    BY <1>4 DEF Push, ApplyDelta, Verified
  <2>2. applied' \in Nat /\ applied <= applied'
    BY <1>0, <2>1, ApplyAdvances
  <2> QED
    BY <1>1, <2>1, <2>2
<1>5. ASSUME NEW c \in rest, Replay(c) PROVE Settled'
  <2>1. /\ Apply(c.version, c.delta) /\ c \in issued /\ rest' \subseteq rest
        /\ UNCHANGED <<keyed, compact, issued, state, earlier, synced, snapVersion>>
    BY <1>5 DEF Replay, ReplayOne, Follows
  <2>2. applied' \in Nat /\ applied <= applied'
    BY <1>0, <2>1, ApplyAdvances
  <2> QED
    BY <1>1, <2>1, <2>2
<1>6. CASE FinishReplay /\ UNCHANGED <<backend, process>>
  <2>1. /\ applied' = IF snapVersion > applied THEN snapVersion ELSE applied
        /\ snapVersion' = 0
        /\ UNCHANGED <<issued, earlier, synced>>
    BY <1>6 DEF FinishReplay
  <2>2. \A c \in issued : Past(c.version) => Past(c.version)'
    BY <1>0, <2>1 DEF Past
  <2> QED
    BY <2>1, <2>2 DEF Settled, idle
<1>7. ASSUME StartReplay(latest, state, Chain), UNCHANGED <<backend, earlier>>
      PROVE  Settled'
  <2>1. /\ keyed /\ keyed' = keyed /\ rest' = Chain /\ snapVersion' = latest
        /\ UNCHANGED <<compact, issued, state>>
    BY <1>7 DEF StartReplay
  <2>2. ASSUME NEW k \in DOMAIN state PROVE IsNewest(Newest(k), k)
    <3>1. PICK c : IsNewest(c, k)
      BY <2>2 DEF StateIsNewest
    <3> QED
      BY <3>1 DEF IsNewest, Newest
  <2>3. compact => \A c \in Chain : \E k \in DOMAIN state : IsNewest(c, k)
    BY <2>2 DEF Chain
  <2> QED
    BY <1>0, <2>1, <2>3 DEF Settled, Past, IsNewest
<1>8. ASSUME ApplyOpenSnapshot(latest, state), UNCHANGED <<backend, earlier>>
      PROVE  Settled'
  <2>1. /\ Apply(latest, state) /\ idle
        /\ UNCHANGED <<issued, snapVersion>>
    BY <1>8 DEF ApplyOpenSnapshot
  <2>2. applied' \in Nat /\ latest <= applied'
    BY <1>0, <2>1, ApplyAdvances
  <2>3. \A c \in issued : c.version <= applied'
    BY <1>0, <2>2
  <2> QED
    BY <2>1, <2>3 DEF Settled, Past, idle
<1>9. ASSUME latest = 0, idle, UNCHANGED vars PROVE Settled'
  <2>1. issued = {}
    BY <1>9 DEF Ordered
  <2> QED
    BY <1>9, <2>1 DEF vars, nodeVars, Settled, idle
<1>10. CASE Reconnect
  BY <1>7, <1>8, <1>9, <1>10 DEF Reconnect
<1>11. CASE Boundary
  BY <1>0, <1>1, <1>11, BoundaryFires
<1>12. CASE Disconnect \/ Hold \/ Restart
  BY <1>12 DEF Disconnect, Hold, Restart, vars, nodeVars, Settled, idle
<1>13. CASE UNCHANGED allVars
  BY <1>0, <1>1, <1>13 DEF allVars, vars, nodeVars
<1> QED
  BY <1>2, <1>3, <1>4, <1>5, <1>6, <1>10, <1>11, <1>12, <1>13 DEF ReconnectNext

\* The ids pending are those of the armed slots.
LEMMA PendingIsArmed ==
    ASSUME NEW id, id # None
    PROVE  /\ id \in Pending <=> \E k \in OneShotKey : ArmedId(k, id)
           /\ id \in Pending' <=> \E k \in OneShotKey : ArmedId(k, id)'
BY DEF Pending, ArmedId, Slot, OneShotKey, IdOf

\* A body that writes two keys has more than one.
LEMMA TwoKeys ==
    ASSUME NEW S, S \subseteq Key, NEW j \in S, NEW k \in S, j # k
    PROVE  Cardinality(S) > 1
<1>1. IsFiniteSet(Key)
  <2>1. /\ IsFiniteSet({"stopped"}) /\ IsFiniteSet({"paused"})
        /\ IsFiniteSet({"budget_cap_calls"}) /\ IsFiniteSet({"replan"})
        /\ IsFiniteSet({"pending_injection"}) /\ IsFiniteSet({"pending_excision"})
    BY FS_Singleton
  <2>2. \A A, B : IsFiniteSet(A) /\ IsFiniteSet(B) => IsFiniteSet(A \cup B)
    BY FS_Union
  <2>3. IsFiniteSet({"stopped"} \cup {"paused"} \cup {"budget_cap_calls"}
                      \cup {"replan"} \cup {"pending_injection"} \cup {"pending_excision"})
    BY <2>1, <2>2
  <2> QED
    BY <2>3 DEF Key
<1>2. IsFiniteSet(S) /\ Cardinality(S) \in Nat
  BY <1>1, FS_Subset, FS_CardinalityType
<1>3. Cardinality(S) # 0 /\ Cardinality(S) # 1
  BY <1>2, FS_EmptySet, FS_Singleton
<1> QED
  BY <1>2, <1>3

\* A step that arms an id that fired before and was cleared replays a command
\* that writes another key beside it, or a chain that holds every command.
LEMMA AgainStep ==
    ASSUME Ordered, StateIsNewest, Follows, Noted, Known, Settled,
           [ReconnectNext]_allVars, NEW id \in earlier \cap cleared,
           id \in Pending', id \notin Pending
    PROVE  /\ keyed
           /\ compact => \E c \in issued :
                            id \in Ids(c.delta) /\ Cardinality(DOMAIN c.delta) > 1
<1> USE DEF backend, process, Known
<1>0. id # None
  <2>1. PICK c \in issued, k \in OneShotKey : id \in IdAt(c.delta, k)
    BY DEF FiredNamed, Named
  <2>2. Names(c.delta, k) /\ id = IdOf(k, c.delta[k]) /\ c.delta \in Delta
    BY <2>1, IdsAre DEF Ordered
  <2>3. id \in Id
    BY <2>2, DeltaType DEF OneShotKey, IdOf, Excision
  <2> QED
    BY <2>3, NoneIsNoValue
<1>1. PICK k \in OneShotKey : ArmedId(k, id)' /\ ~ArmedId(k, id)
  BY <1>0, PendingIsArmed
<1>2. ASSUME UNCHANGED slots PROVE FALSE
  BY <1>1, <1>2 DEF ArmedId, Slot, slots
<1>3. ASSUME NEW v, NEW d, Apply(v, d) PROVE id \in IdAt(d, k) /\ ~Stale(v)
  BY <1>1, <1>3, AppliedArms
<1>4. ASSUME NEW c \in issued, Push(c) PROVE FALSE
  <2>1. Apply(c.version, c.delta) /\ idle /\ synced /\ c.version > applied
    BY <1>4 DEF Push, ApplyDelta, Verified
  <2>2. id \in Ids(c.delta)
    BY <1>3, <2>1, IdsAre
  <2>3. c.version <= applied \/ c.version <= snapVersion
    BY <2>1, <2>2 DEF Settled, Past
  <2>4. c.version \in Nat \ {0} /\ applied \in Nat /\ snapVersion = 0
    BY <2>1 DEF Ordered, Follows, idle
  <2> QED
    BY <2>1, <2>3, <2>4
<1>5. ASSUME NEW c \in rest, Replay(c)
      PROVE  /\ keyed
             /\ compact => \E e \in issued :
                              id \in Ids(e.delta) /\ Cardinality(DOMAIN e.delta) > 1
  <2>1. /\ ~idle /\ c \in issued /\ Apply(c.version, c.delta)
    BY <1>5 DEF Replay, ReplayOne, Follows
  <2>2. id \in IdAt(c.delta, k) /\ id \in Ids(c.delta)
    BY <1>3, <2>1, IdsAre
  <2>3. ASSUME compact PROVE Cardinality(DOMAIN c.delta) > 1
    <3>1. PICK j \in DOMAIN state : IsNewest(c, j)
      BY <2>1, <2>3 DEF Settled
    <3>2. k \in DOMAIN c.delta /\ j \in DOMAIN c.delta
      BY <2>2, <3>1, IdsAre DEF IsNewest, Names, Writes
    <3>3. j # k
      <4> SUFFICES ASSUME j = k PROVE FALSE
        OBVIOUS
      <4>1. PICK e : IsNewest(e, k) /\ e.delta[k] = state[k]
        BY <3>1 DEF StateIsNewest
      <4>2. e = c
        <5>1. e.version = c.version
          BY <3>1, <4>1 DEF IsNewest, Ordered
        <5> QED
          BY <3>1, <4>1, <5>1 DEF IsNewest, Ordered
      <4>3. Names(state, k) /\ id = IdOf(k, state[k])
        BY <2>2, <3>1, <4>1, <4>2, IdsAre DEF Names, Writes
      <4> QED
        BY <4>3, IdsAre DEF ClearedGone
    <3>4. DOMAIN c.delta \subseteq Key
      BY <2>1, DeltaType DEF Ordered
    <3> QED
      BY <3>2, <3>3, <3>4, TwoKeys
  <2> QED
    BY <2>1, <2>2, <2>3 DEF Settled
<1>6. CASE Reconnect
  <2>1. ASSUME ApplyOpenSnapshot(latest, state) PROVE FALSE
    BY <1>3, <2>1 DEF ApplyOpenSnapshot, ClearedGone
  <2>2. UNCHANGED slots
    BY <1>6, <2>1 DEF Reconnect, StartReplay, vars, nodeVars
  <2> QED
    BY <1>2, <2>2
<1>7. CASE Boundary
  BY <1>1, <1>7, BoundaryFires
<1>8. CASE Restart
  <2>1. injection' = None /\ excision' = None /\ replan' = None
    BY <1>8 DEF Restart
  <2> QED
    BY <1>1, <2>1 DEF ArmedId, Slot, OneShotKey
<1>9. ASSUME NEW d, Order(d) PROVE FALSE
  BY <1>2, <1>9 DEF Order, nodeVars
<1>10. ASSUME NEW key, Clear(key) PROVE FALSE
  BY <1>2, <1>10 DEF Clear, vars, nodeVars
<1>11. CASE FinishReplay
  BY <1>2, <1>11 DEF FinishReplay
<1>12. CASE Disconnect \/ Hold \/ UNCHANGED allVars
  BY <1>2, <1>12 DEF Disconnect, Hold, allVars, vars, nodeVars
<1> QED
  BY <1>4, <1>5, <1>6, <1>7, <1>8, <1>9, <1>10, <1>11, <1>12 DEF ReconnectNext

\* A one-shot that fired before a restart and was cleared is armed again only
\* by a replay: by a chain of every command, or by a command kept for another
\* key it writes (session.py:83, 175-181).
THEOREM ClearedStaysGone == ReconnectSpec => AgainOnlyFromTheChain
<1>1. ReconnectInit => Settled
  BY DEF ReconnectInit, Init, Settled, idle
<1>2. ASSUME Ordered, StateIsNewest, Follows, Noted, Known, Settled,
             [ReconnectNext]_allVars
      PROVE  [\A id \in earlier \cap cleared \cap (Pending' \ Pending) :
                /\ keyed
                /\ compact => \E c \in issued :
                                 id \in Ids(c.delta) /\ Cardinality(DOMAIN c.delta) > 1]_allVars
  BY <1>2, AgainStep
<1> QED
  BY <1>1, <1>2, BackendIsOrdered, NodeFollows, OneShotsKnown, SettledStep, PTL
     DEF ReconnectSpec, AgainOnlyFromTheChain

-----------------------------------------------------------------------------
(***************************************************************************)
(* Each life of the node is a session: what comes from an honest backend   *)
(* is one of the commands any session copes with, or a state merged from   *)
(* them, and a restart is a session's start.                               *)
(***************************************************************************)
\* The commands issued and the state they merge into are bodies.
LEMMA MergedIsBody ==
    ASSUME Ordered, StateIsNewest
    PROVE  /\ \A c \in issued : c.version \in Nat /\ Body(c.delta)
           /\ latest \in Nat /\ Body(state)
<1>1. \A c \in issued : c.version \in Nat /\ Body(c.delta)
  BY DeltaIsBody DEF Ordered
<1>2. ASSUME NEW k \in DOMAIN state
      PROVE  \E c \in issued : Writes(c.delta, k) /\ c.delta[k] = state[k]
  BY <1>2 DEF StateIsNewest, IsNewest
<1>3. \A k : /\ Writes(state, k) =>
                   \E c \in issued : Writes(c.delta, k) /\ c.delta[k] = state[k]
             /\ Names(state, k) =>
                   \E c \in issued : Names(c.delta, k) /\ c.delta[k] = state[k]
  BY <1>2 DEF Writes, Names
<1>4. Body(state)
  BY <1>1, <1>3 DEF Body
<1> QED
  BY <1>1, <1>4 DEF Ordered

\* A step is one of the session's, a restart, or its client's hold.
LEMMA LifeForms ==
    ASSUME Ordered, StateIsNewest, Follows, [ReconnectNext]_allVars
    PROVE  SessionStep \/ Restart \/ Hold
<1> USE DEF SessionStep
<1>0. /\ applied \in Nat /\ snapVersion \in Nat /\ rest \subseteq issued
      /\ latest \in Nat /\ Body(state)
      /\ \A c \in issued : c.version \in Nat /\ Body(c.delta)
  BY MergedIsBody DEF Follows
<1>1. ASSUME UNCHANGED <<nodeVars, taken>> PROVE Idles
  <2>1. applied' = applied /\ outbox' = outbox
    BY <1>1 DEF nodeVars
  <2>2. UNCHANGED <<posture, slots, consumed, taken>>
    BY <1>1 DEF nodeVars
  <2> QED
    BY <1>0, <2>1, <2>2 DEF Idles
<1>2. ASSUME UNCHANGED vars PROVE Idles
  BY <1>1, <1>2 DEF vars
<1>3. ASSUME NEW d, Order(d) PROVE Idles
  BY <1>1, <1>3 DEF Order
<1>4. ASSUME NEW k, Clear(k) PROVE Idles
  BY <1>2, <1>4 DEF Clear
<1>5. CASE Disconnect
  BY <1>2, <1>5 DEF Disconnect
<1>6. ASSUME NEW c \in issued, Push(c) PROVE SessionStep
  <2>1. Apply(c.version, c.delta)
    BY <1>6 DEF Push, ApplyDelta, Verified
  <2> QED
    BY <1>0, <2>1
<1>7. CASE Reconnect
  <2>1. CASE StartReplay(latest, state, Chain)
    BY <1>1, <2>1 DEF StartReplay
  <2>2. CASE ApplyOpenSnapshot(latest, state)
    BY <1>0, <2>2 DEF ApplyOpenSnapshot
  <2> QED
    BY <1>2, <1>7, <2>1, <2>2 DEF Reconnect
<1>8. ASSUME NEW c \in rest, Replay(c) PROVE SessionStep
  <2>1. c \in issued /\ Apply(c.version, c.delta)
    BY <1>0, <1>8 DEF Replay, ReplayOne
  <2> QED
    BY <1>0, <2>1
<1>9. CASE FinishReplay
  BY <1>0, <1>9 DEF FinishReplay, Idles, slots
<1>10. CASE Boundary
  BY <1>10 DEF Boundary, Takes
<1>11. CASE UNCHANGED allVars
  BY <1>2, <1>11 DEF allVars
<1> QED
  BY <1>3, <1>4, <1>5, <1>6, <1>7, <1>8, <1>9, <1>10, <1>11 DEF ReconnectNext

\* A restart begins a session.
LEMMA RestartBegins ==
    ASSUME Restart
    PROVE  Started'
BY DEF Restart, Started

\* A hold touches nothing the session invariant speaks of.
LEMMA HoldKeeps ==
    ASSUME SessionInv, Hold
    PROVE  SessionInv'
<1>1. /\ paused' = TRUE
      /\ UNCHANGED <<applied, stopped, cap, slots, consumed, outbox, taken>>
  BY DEF Hold
<1>2. NodeOK' /\ TakenIsApplied'
  BY <1>1 DEF SessionInv, NodeOK, TakenIsApplied, slots
<1>3. StoppedFollowsTaken' /\ CapIsTightest'
  BY <1>1, FrameFollows DEF SessionInv
<1>4. ConsumedIsAcknowledged' /\ OneShotAtMostOnce'
  BY <1>1 DEF SessionInv, ConsumedIsAcknowledged, OneShotAtMostOnce
<1>5. ArmedByNewest'
  BY <1>1, SlotsEmpty DEF SessionInv, slots
<1> QED
  BY <1>2, <1>3, <1>4, <1>5 DEF SessionInv

\* A node is paused as the newest command taken says, or by a hold since.
PausedInLife == IF held THEN paused ELSE PausedFollowsTaken

\* Every step keeps it: only _apply, a hold and a restart touch `paused`.
LEMMA PausedInLifeStep ==
    ASSUME Ordered, StateIsNewest, Follows, SessionInv, PausedInLife,
           [ReconnectNext]_allVars
    PROVE  PausedInLife'
<1> USE DEF process, SessionInv
<1>0. /\ rest \subseteq issued /\ latest \in Nat /\ Body(state)
      /\ \A c \in issued : c.version \in Nat /\ Body(c.delta)
  BY MergedIsBody DEF Follows
<1>1. ASSUME UNCHANGED <<paused, taken, held>> PROVE PausedInLife'
  BY <1>1, FrameFollows DEF PausedInLife
<1>2. ASSUME NEW v \in Nat, NEW d, Body(d), Apply(v, d), TakesBackHold(v, d)
      PROVE  PausedInLife'
  BY <1>2, PausedApplies DEF PausedInLife, TakesBackHold
<1>3. ASSUME UNCHANGED vars, UNCHANGED held PROVE PausedInLife'
  BY <1>1, <1>3 DEF vars, nodeVars, posture
<1>4. ASSUME NEW d, Order(d) PROVE PausedInLife'
  BY <1>1, <1>4 DEF Order, nodeVars, posture
<1>5. ASSUME NEW k, Clear(k) PROVE PausedInLife'
  BY <1>3, <1>5 DEF Clear
<1>6. CASE Disconnect \/ UNCHANGED allVars
  BY <1>3, <1>6 DEF Disconnect, allVars
<1>7. ASSUME NEW c \in issued, Push(c) PROVE PausedInLife'
  <2>1. Apply(c.version, c.delta) /\ TakesBackHold(c.version, c.delta)
    BY <1>7 DEF Push, ApplyDelta, Verified
  <2> QED
    BY <1>0, <1>2, <2>1
<1>8. CASE Reconnect
  <2>1. CASE StartReplay(latest, state, Chain) /\ UNCHANGED held
    BY <1>1, <2>1 DEF StartReplay, nodeVars, posture
  <2>2. CASE ApplyOpenSnapshot(latest, state) /\ TakesBackHold(latest, state)
    BY <1>0, <1>2, <2>2 DEF ApplyOpenSnapshot
  <2> QED
    BY <1>3, <1>8, <2>1, <2>2 DEF Reconnect
<1>9. ASSUME NEW c \in rest, Replay(c) PROVE PausedInLife'
  <2>1. c \in issued /\ Apply(c.version, c.delta) /\ TakesBackHold(c.version, c.delta)
    BY <1>0, <1>9 DEF Replay, ReplayOne
  <2> QED
    BY <1>0, <1>2, <2>1
<1>10. CASE FinishReplay /\ UNCHANGED <<backend, process>>
  BY <1>1, <1>10 DEF FinishReplay, posture
<1>11. CASE Boundary
  BY <1>1, <1>11 DEF Boundary, take_pending_injection, take_pending_excision,
                     take_pending_replan, boundaryFrame, posture
<1>12. CASE Hold
  BY <1>12 DEF Hold, PausedInLife
<1>13. CASE Restart
  <2>1. paused' = FALSE /\ taken' = {} /\ held' = FALSE
    BY <1>13 DEF Restart
  <2> QED
    BY <2>1 DEF PausedInLife, PausedFollowsTaken, Writers
<1> QED
  BY <1>4, <1>5, <1>6, <1>7, <1>8, <1>9, <1>10, <1>11, <1>12, <1>13 DEF ReconnectNext

\* What holds of a session holds of each of the node's lives.
THEOREM EveryLife == ReconnectSpec => [](SessionInv /\ PausedInLife)
<1>1. ReconnectInit => SessionInv /\ PausedInLife
  BY SessionBegins DEF ReconnectInit, Init, Started, PausedInLife
<1>2. Started' => SessionInv'
  BY SessionBegins, PTL
<1>3. /\ Ordered /\ StateIsNewest /\ Follows /\ SessionInv
      /\ [ReconnectNext]_allVars
      => SessionInv'
  BY <1>2, LifeForms, RestartBegins, SessionKept, HoldKeeps
<1>4. /\ Ordered /\ StateIsNewest /\ Follows /\ SessionInv /\ PausedInLife
      /\ [ReconnectNext]_allVars
      => PausedInLife'
  BY PausedInLifeStep
<1> QED
  BY <1>1, <1>3, <1>4, BackendIsOrdered, NodeFollows, PTL DEF ReconnectSpec

\* However often a node loses its stream, is held or restarted, and however it
\* comes back, in each of its lives: it is stopped once a command taken stopped
\* it, paused as the newest command taken says or by its client's hold since,
\* and under the tightest cap named; no id fires twice; the ids it calls
\* consumed are those it acknowledged; what is pending is of the newest command
\* (session.py:106-110, 224-265, 371, client.py:333-337).
THEOREM EveryLifeIsASession ==
    ReconnectSpec => [](/\ StoppedFollowsTaken
                        /\ IF held THEN paused ELSE PausedFollowsTaken
                        /\ CapIsTightest
                        /\ ConsumedIsAcknowledged
                        /\ OneShotAtMostOnce
                        /\ ArmedByNewest)
<1>1. SessionInv /\ PausedInLife
        => /\ StoppedFollowsTaken
           /\ IF held THEN paused ELSE PausedFollowsTaken
           /\ CapIsTightest
           /\ ConsumedIsAcknowledged
           /\ OneShotAtMostOnce
           /\ ArmedByNewest
  BY DEF SessionInv, PausedInLife
<1> QED
  BY <1>1, EveryLife, PTL

\* The client's own pause: it moves no version, and only while it is away.
HeldAway ==
    /\ HoldAfter
    /\ ~synced
    /\ paused' = TRUE
    /\ UNCHANGED <<applied, stopped, cap>>

\* Only a restart frees a node: short of one the posture moves by newer commands
\* alone, or by a hold that pauses it, stopped absorbs and the cap narrows,
\* through disconnects, snapshots of either kind and cleared keys
\* (session.py:11-13, client.py:333-337).
PostureUntilRestart ==
    [][Posture!Next \/ HeldAway \/ restarts' = restarts + 1]_(Posture!vars)

\* Between restarts the node implements PlanePosture, but for that pause.
THEOREM EveryLifeImplementsPosture == ReconnectSpec => PostureUntilRestart
<1>1. /\ Ordered /\ StateIsNewest /\ Follows /\ SessionInv
      /\ [ReconnectNext]_allVars
      => [Posture!Next \/ HeldAway \/ restarts' = restarts + 1]_(Posture!vars)
  <2> SUFFICES ASSUME Ordered, StateIsNewest, Follows, SessionInv,
                      [ReconnectNext]_allVars
               PROVE  \/ Posture!Next \/ HeldAway \/ restarts' = restarts + 1
                      \/ UNCHANGED Posture!vars
    OBVIOUS
  <2>1. CASE SessionStep
    BY <2>1, PostureStep DEF SessionInv
  <2>2. CASE Restart
    BY <2>2 DEF Restart
  <2>3. CASE Hold
    BY <2>3 DEF Hold, HeldAway
  <2> QED
    BY <2>1, <2>2, <2>3, LifeForms
<1> QED
  BY <1>1, EveryLife, BackendIsOrdered, NodeFollows, PTL
     DEF ReconnectSpec, PostureUntilRestart

\* A stopped node is not steered in any of its lives (session.py:286-294,
\* 353-358).
THEOREM StoppedInEveryLife == ReconnectSpec => StoppedIsNotSteered
<1>1. /\ Ordered /\ StateIsNewest /\ Follows /\ SessionInv
      /\ [ReconnectNext]_allVars
      => [stopped => ~Appended({"injection_consumed", "replan_applied"})]_vars
  <2> SUFFICES ASSUME Ordered, StateIsNewest, Follows, SessionInv,
                      [ReconnectNext]_allVars, stopped
               PROVE  ~Appended({"injection_consumed", "replan_applied"})
    OBVIOUS
  <2>1. CASE SessionStep
    BY <2>1, StoppedStep DEF SessionInv
  <2>2. CASE Restart
    <3>1. outbox' = <<>> /\ Len(outbox) \in Nat
      BY <2>2 DEF Restart, SessionInv, NodeOK
    <3>2. Len(outbox') = 0
      BY <3>1
    <3> QED
      BY <3>1, <3>2 DEF Appended
  <2>3. CASE Hold
    <3>1. outbox' = outbox /\ Len(outbox) \in Nat
      BY <2>3 DEF Hold, SessionInv, NodeOK
    <3> QED
      BY <3>1 DEF Appended
  <2> QED
    BY <2>1, <2>2, <2>3, LifeForms
<1> QED
  BY <1>1, EveryLife, BackendIsOrdered, NodeFollows, PTL
     DEF ReconnectSpec, StoppedIsNotSteered

\* Commands are left to visit only while a replay is under way.
LEMMA RestOnlyStep ==
    ASSUME Ordered, RestOnlyInReplay, [ReconnectNext]_allVars
    PROVE  RestOnlyInReplay'
<1> USE DEF RestOnlyInReplay, idle
<1>1. ASSUME UNCHANGED <<rest, snapVersion>> PROVE RestOnlyInReplay'
  BY <1>1
<1>2. ASSUME UNCHANGED vars PROVE RestOnlyInReplay'
  BY <1>1, <1>2 DEF vars
<1>3. ASSUME NEW d, Order(d) PROVE RestOnlyInReplay'
  BY <1>1, <1>3 DEF Order
<1>4. ASSUME NEW k, Clear(k) PROVE RestOnlyInReplay'
  BY <1>2, <1>4 DEF Clear
<1>5. CASE Disconnect \/ UNCHANGED allVars
  BY <1>2, <1>5 DEF Disconnect, allVars
<1>6. ASSUME NEW c, Push(c) PROVE RestOnlyInReplay'
  BY <1>1, <1>6 DEF Push, ApplyDelta
<1>7. CASE Reconnect
  <2>1. CASE StartReplay(latest, state, Chain) /\ latest > 0
    BY <2>1 DEF StartReplay, Ordered
  <2>2. CASE ApplyOpenSnapshot(latest, state)
    BY <1>1, <2>2 DEF ApplyOpenSnapshot
  <2> QED
    BY <1>2, <1>7, <2>1, <2>2 DEF Reconnect
<1>8. ASSUME NEW c, Replay(c) PROVE RestOnlyInReplay'
  BY <1>8 DEF Replay, ReplayOne
<1>9. CASE FinishReplay
  BY <1>9 DEF FinishReplay
<1>10. CASE Boundary
  BY <1>1, <1>10 DEF Boundary, take_pending_injection, take_pending_excision,
                     take_pending_replan, boundaryFrame
<1>11. CASE Hold \/ Restart
  BY <1>1, <1>11 DEF Hold, Restart
<1> QED
  BY <1>3, <1>4, <1>5, <1>6, <1>7, <1>8, <1>9, <1>10, <1>11 DEF ReconnectNext

\* A replay passes no command over, in a chain of every command or of the newest
\* of each key, in the first life or a later one (session.py:147, 169-172).
THEOREM ReplayVisitsAllInEveryLife == ReconnectSpec => NoCommandPassedOver
<1>1. ReconnectInit => RestOnlyInReplay
  BY DEF ReconnectInit, Init, RestOnlyInReplay
<1>2. ASSUME Ordered, Follows, RestOnlyInReplay, [ReconnectNext]_allVars,
             NEW c \in rest, c.version > applied, c.version <= applied'
      PROVE  c.version = applied'
  <2>0. /\ applied \in Nat /\ \A e \in rest : e.version \in Nat
        /\ ~idle
    BY <1>2 DEF Follows, Ordered, RestOnlyInReplay
  <2>1. applied' # applied
    BY <1>2, <2>0
  <2>2. PICK e \in rest : Replay(e)
    BY <1>2, <2>0, <2>1
       DEF ReconnectNext, Order, Clear, Disconnect, Hold, Push, ApplyDelta, Reconnect,
           Replay, FinishReplay, Boundary, take_pending_injection, take_pending_excision,
           take_pending_replan, Restart, allVars, vars, nodeVars
  <2>3. e.version <= c.version /\ Apply(e.version, e.delta)
    BY <2>2 DEF Replay, ReplayOne, IsNext
  <2>4. applied' = e.version
    BY <2>0, <2>1, <2>3, ApplyAdvances
  <2> QED
    BY <1>2, <2>0, <2>3, <2>4
<1>3. Ordered /\ Follows /\ RestOnlyInReplay /\ [ReconnectNext]_allVars =>
        [\A c \in rest :
           c.version > applied /\ c.version <= applied' => c.version = applied']_vars
  BY <1>2
<1> QED
  BY <1>1, <1>3, RestOnlyStep, BackendIsOrdered, NodeFollows, PTL
     DEF ReconnectSpec, NoCommandPassedOver
=============================================================================
