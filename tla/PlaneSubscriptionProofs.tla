----------------------- MODULE PlaneSubscriptionProofs -----------------------
(***************************************************************************)
(* TLAPS proofs about PlaneSubscription, for any number of commands and    *)
(* failures: what PlaneConnector.run leaves behind, that the node obeys    *)
(* every command once, in the order of the log, and that it keeps the      *)
(* promises of PlanePosture, local holds apart.                            *)
(***************************************************************************)
EXTENDS PlaneSubscription, InductionLemmas, TLAPS

\* Past the cancellation of the subscription it stays over, and past that of
\* the heartbeat so does that.
WindingDown ==
    /\ runner \in {"ending_beat", "returned"} => client = "over"
    /\ runner = "returned" => beat = "over"

\* When PlaneConnector.run has returned neither task is left
\* (connect.py:316-321).
THEOREM NothingIsLeft == Spec => []RunLeavesNothing
<1>1. Init => WindingDown
  BY DEF Init, WindingDown
<1>2. WindingDown /\ [Next]_vars => WindingDown'
  <2> SUFFICES ASSUME WindingDown, [Next]_vars PROVE WindingDown'
    OBVIOUS
  <2> USE DEF WindingDown, tasks, session
  <2>1. ASSUME NEW c \in Command, Operator(c) PROVE WindingDown'
    BY <2>1 DEF Operator
  <2>2. CASE Garble
    BY <2>2 DEF Garble
  <2>3. CASE Subscribe \/ LeaveLoop \/ Redial \/ GraceOver
    BY <2>3 DEF Subscribe, LeaveLoop, Redial, GraceOver
  <2>4. CASE Receive
    BY <2>4 DEF Receive
  <2>5. CASE Refused \/ Disconnected
    BY <2>5 DEF Refused, Disconnected
  <2>6. CASE Stop
    BY <2>6 DEF Stop
  <2>7. CASE Tick \/ Flushed
    BY <2>7 DEF Tick, Flushed
  <2>8. CASE WindDown \/ EndClient \/ EndBeat
    BY <2>8 DEF WindDown, EndClient, EndBeat
  <2>9. CASE UNCHANGED vars
    BY <2>9 DEF vars
  <2> QED
    BY <2>1, <2>2, <2>3, <2>4, <2>5, <2>6, <2>7, <2>8, <2>9 DEF Next, ClientStep
<1>3. WindingDown => RunLeavesNothing
  BY DEF WindingDown, RunLeavesNothing
<1> QED
  BY <1>1, <1>2, <1>3, PTL DEF Spec

-----------------------------------------------------------------------------
(***************************************************************************)
(* The node and the operators' log.  The posture the node is in and the    *)
(* one the log asks for obey the same commands, one version after the      *)
(* other, however they are cut into snapshots and deltas.                  *)
(***************************************************************************)

\* A command takes a posture to a posture.
LEMMA ObeyType ==
    ASSUME NEW p \in Posture, NEW c
    PROVE  Obey(p, c) \in Posture
<1>1. /\ p.stopped \in BOOLEAN /\ p.paused \in BOOLEAN
      /\ (c = "pause" \/ (p.paused /\ c # "resume")) \in BOOLEAN
      /\ (c = "stop") \in BOOLEAN
  BY DEF Posture
<1> QED
  BY <1>1 DEF Obey, Posture

\* g obeys what commands has beyond a version, one after the other.
Obeys(g, p, from, commands) ==
    g = [v \in Nat |-> IF v <= from THEN p ELSE Obey(g[v - 1], commands[v])]

\* There is such a function, and what it does at each version.
LEMMA ObeysSteps ==
    ASSUME NEW p \in Posture, NEW from \in Nat, NEW commands
    PROVE  /\ \E g : Obeys(g, p, from, commands)
           /\ \A g : Obeys(g, p, from, commands) =>
                /\ \A v \in Nat : v <= from => g[v] = p
                /\ \A v \in Nat : v > from => g[v] = Obey(g[v - 1], commands[v])
                /\ \A v \in Nat : g[v] \in Posture
<1> DEFINE step == [x \in Nat \X Posture |->
                      IF x[1] + 1 <= from THEN p ELSE Obey(x[2], commands[x[1] + 1])]
<1>1. step \in [Nat \X Posture -> Posture]
  <2>1. ASSUME NEW x \in Nat \X Posture
        PROVE  (IF x[1] + 1 <= from THEN p ELSE Obey(x[2], commands[x[1] + 1])) \in Posture
    <3>1. x[2] \in Posture
      OBVIOUS
    <3> QED
      BY <3>1, ObeyType
  <2> QED
    BY <2>1
<1>2. \A n \in Nat, q \in Posture :
        step[<<n, q>>] = IF n + 1 <= from THEN p ELSE Obey(q, commands[n + 1])
  OBVIOUS
<1> HIDE DEF step
<1>3. PICK f : Recurs(f, Posture, p, step)
  BY <1>1, Recursion
<1>4. Obeys(f, p, from, commands)
  <2>1. ASSUME NEW v \in Nat
        PROVE  f[v] = IF v <= from THEN p ELSE Obey(f[v - 1], commands[v])
    <3>1. CASE v = 0
      BY <1>3, <3>1 DEF Recurs
    <3>2. CASE v # 0
      <4>1. PICK n \in Nat : v = n + 1 /\ v - 1 = n
        BY <3>2
      <4> QED
        BY <1>2, <1>3, <4>1 DEF Recurs
    <3> QED
      BY <3>1, <3>2
  <2>2. f = [v \in Nat |-> f[v]]
    BY <1>3 DEF Recurs
  <2> QED
    BY <2>1, <2>2 DEF Obeys
<1>5. ASSUME NEW g, Obeys(g, p, from, commands)
      PROVE  /\ \A v \in Nat : v <= from => g[v] = p
             /\ \A v \in Nat : v > from => g[v] = Obey(g[v - 1], commands[v])
             /\ \A v \in Nat : g[v] \in Posture
  <2>1. \A v \in Nat : g[v] = IF v <= from THEN p ELSE Obey(g[v - 1], commands[v])
    BY <1>5 DEF Obeys
  <2> DEFINE T == {v \in Nat : g[v] \in Posture}
  <2>2. 0 \in T
    BY <2>1
  <2>3. ASSUME NEW n \in Nat, n \in T PROVE n + 1 \in T
    <3>1. g[n] \in Posture /\ n + 1 \in Nat /\ (n + 1) - 1 = n
      BY <2>3
    <3>2. g[n + 1] = IF n + 1 <= from THEN p ELSE Obey(g[n], commands[n + 1])
      BY <2>1, <3>1
    <3> QED
      BY <3>1, <3>2, ObeyType
  <2>4. Nat \subseteq T
    <3> HIDE DEF T
    <3> QED
      BY <2>2, <2>3, Induction
  <2> QED
    BY <2>1, <2>4
<1> QED
  BY <1>4, <1>5

\* Obeyed, by its first value and by each from the one before.
LEMMA ObeyedSteps ==
    ASSUME NEW p \in Posture, NEW from \in Nat
    PROVE  /\ \A v \in Nat : v <= from => Obeyed(p, from, v) = p
           /\ \A v \in Nat : v > from =>
                Obeyed(p, from, v) = Obey(Obeyed(p, from, v - 1), log[v])
           /\ \A v \in Nat : Obeyed(p, from, v) \in Posture
<1> DEFINE g == CHOOSE h : Obeys(h, p, from, log)
<1>1. Obeys(g, p, from, log)
  BY ObeysSteps
<1>2. \A v : Obeyed(p, from, v) = g[v]
  BY DEF Obeyed, Obeys
<1> HIDE DEF g
<1>3. PICK h, c : h = g /\ c = log
  OBVIOUS
<1>4. Obeys(h, p, from, c)
  BY <1>1, <1>3
<1>5. /\ \A v \in Nat : v <= from => h[v] = p
      /\ \A v \in Nat : v > from => h[v] = Obey(h[v - 1], c[v])
      /\ \A v \in Nat : h[v] \in Posture
  BY <1>4, ObeysSteps
<1> QED
  BY <1>2, <1>3, <1>5

\* What the node and the operators want have in common, h a local hold.
Match(n, d, h) ==
    /\ n.stopped = d.stopped
    /\ ~n.stopped => n.paused = (d.paused \/ h)

\* A command obeyed by both sides keeps them matched and ends a hold it touches.
LEMMA MatchStep ==
    ASSUME NEW n \in Posture, NEW d \in Posture, NEW h \in BOOLEAN, NEW c \in Command,
           Match(n, d, h)
    PROVE  Match(Obey(n, c), Obey(d, c), h /\ c \notin {"pause", "resume"})
<1>1. /\ n.stopped \in BOOLEAN /\ n.paused \in BOOLEAN
      /\ d.stopped \in BOOLEAN /\ d.paused \in BOOLEAN
  BY DEF Posture
<1>2. CASE n.stopped
  BY <1>1, <1>2 DEF Match, Obey
<1>3. CASE ~n.stopped
  <2>1. CASE c = "pause"
    BY <1>1, <1>3, <2>1 DEF Match, Obey
  <2>2. CASE c = "resume"
    BY <1>1, <1>3, <2>2 DEF Match, Obey
  <2>3. CASE c = "stop"
    BY <1>1, <1>3, <2>3 DEF Match, Obey
  <2> QED
    BY <2>1, <2>2, <2>3 DEF Command
<1> QED
  BY <1>1, <1>2, <1>3

\* So do any number of them.
LEMMA MatchOverLog ==
    ASSUME log \in Seq(Command), NEW p \in Posture, NEW h \in BOOLEAN,
           NEW from \in Nat, NEW to \in Nat, from <= to, to <= Len(log),
           Match(p, Obeyed(Fresh, 0, from), h)
    PROVE  Match(Obeyed(p, from, to), Obeyed(Fresh, 0, to), h /\ ~Touches(from, to))
<1> DEFINE T == {w \in Nat : from <= w /\ w <= to =>
                    Match(Obeyed(p, from, w), Obeyed(Fresh, 0, w), h /\ ~Touches(from, w))}
<1>0. Fresh \in Posture /\ 0 \in Nat
  BY DEF Fresh, Posture
<1>1. /\ Obeyed(p, from, from) = p
      /\ \A v \in Nat : v > from => Obeyed(p, from, v) = Obey(Obeyed(p, from, v - 1), log[v])
      /\ \A v \in Nat : Obeyed(p, from, v) \in Posture
  BY ObeyedSteps
<1>2. /\ \A v \in Nat : v > 0 => Obeyed(Fresh, 0, v) = Obey(Obeyed(Fresh, 0, v - 1), log[v])
      /\ \A v \in Nat : Obeyed(Fresh, 0, v) \in Posture
  BY <1>0, ObeyedSteps
<1>3. Match(Obeyed(p, from, from), Obeyed(Fresh, 0, from), h /\ ~Touches(from, from))
  <2>1. ~Touches(from, from)
    BY DEF Touches
  <2> QED
    BY <1>1, <2>1
<1>4. 0 \in T
  <2>1. from <= 0 => from = 0
    OBVIOUS
  <2> QED
    BY <1>3, <2>1
<1>5. ASSUME NEW w \in Nat, w \in T PROVE w + 1 \in T
  <2> SUFFICES ASSUME from <= w + 1, w + 1 <= to
               PROVE  Match(Obeyed(p, from, w + 1), Obeyed(Fresh, 0, w + 1),
                            h /\ ~Touches(from, w + 1))
    OBVIOUS
  <2>1. CASE from = w + 1
    BY <1>3, <2>1
  <2>2. CASE from # w + 1
    <3>1. PICK v \in Nat : v = w + 1 /\ v - 1 = w /\ v > from /\ v > 0
      BY <2>2
    <3>2. PICK c \in Command : c = log[v]
      BY <3>1
    <3>3. PICK n \in Posture, d \in Posture :
             n = Obeyed(p, from, w) /\ d = Obeyed(Fresh, 0, w)
      BY <1>1, <1>2
    <3>4. PICK k \in BOOLEAN : k = (h /\ ~Touches(from, w))
      OBVIOUS
    <3>5. Match(n, d, k)
      BY <1>5, <2>2, <3>3, <3>4
    <3>6. Match(Obey(n, c), Obey(d, c), k /\ c \notin {"pause", "resume"})
      BY <3>5, MatchStep
    <3>7. (k /\ c \notin {"pause", "resume"}) = (h /\ ~Touches(from, v))
      <4>1. (from + 1)..v = (from + 1)..w \cup {v}
        BY <3>1
      <4> QED
        BY <3>2, <3>4, <4>1 DEF Touches
    <3>8. Obeyed(p, from, v) = Obey(n, c) /\ Obeyed(Fresh, 0, v) = Obey(d, c)
      BY <1>1, <1>2, <3>1, <3>2, <3>3
    <3> QED
      BY <3>1, <3>6, <3>7, <3>8
  <2> QED
    BY <2>1, <2>2
<1>6. Nat \subseteq T
  <2> HIDE DEF T
  <2> QED
    BY <1>4, <1>5, Induction
<1> QED
  BY <1>6

\* What two logs have in common they make the same.
LEMMA ObeysAgree ==
    ASSUME NEW p \in Posture, NEW from \in Nat, NEW c, NEW e, NEW g, NEW h,
           Obeys(g, p, from, c), Obeys(h, p, from, e),
           NEW n \in Nat, \A v \in 1..n : c[v] = e[v]
    PROVE  \A v \in 0..n : g[v] = h[v]
<1> DEFINE T == {v \in Nat : v <= n => g[v] = h[v]}
<1>1. /\ \A v \in Nat : v <= from => g[v] = p /\ h[v] = p
      /\ \A v \in Nat : v > from => g[v] = Obey(g[v - 1], c[v]) /\ h[v] = Obey(h[v - 1], e[v])
  <2>1. /\ \A v \in Nat : v <= from => g[v] = p
        /\ \A v \in Nat : v > from => g[v] = Obey(g[v - 1], c[v])
    BY ObeysSteps
  <2>2. /\ \A v \in Nat : v <= from => h[v] = p
        /\ \A v \in Nat : v > from => h[v] = Obey(h[v - 1], e[v])
    BY ObeysSteps
  <2> QED
    BY <2>1, <2>2
<1>2. 0 \in T
  BY <1>1
<1>3. ASSUME NEW w \in Nat, w \in T PROVE w + 1 \in T
  <2>1. PICK v \in Nat : v = w + 1 /\ v - 1 = w
    OBVIOUS
  <2>2. CASE v <= from
    BY <1>1, <2>1, <2>2
  <2>3. CASE v > from /\ v <= n
    BY <1>1, <1>3, <2>1, <2>3
  <2> QED
    BY <2>1, <2>2, <2>3
<1>4. Nat \subseteq T
  <2> HIDE DEF T
  <2> QED
    BY <1>2, <1>3, Induction
<1> QED
  BY <1>4

\* A command issued does not change what the ones before it want.
LEMMA NewCommandIsLast ==
    ASSUME log \in Seq(Command), NEW c \in Command, log' = Append(log, c),
           NEW v \in 0..Len(log)
    PROVE  Obeyed(Fresh, 0, v)' = Obeyed(Fresh, 0, v)
<1>0. Fresh \in Posture /\ 0 \in Nat
  BY DEF Fresh, Posture
<1> DEFINE G(l) == CHOOSE h : Obeys(h, Fresh, 0, l)
<1>1. \A l : Obeys(G(l), Fresh, 0, l)
  BY <1>0, ObeysSteps
<1>2. Obeyed(Fresh, 0, v) = G(log)[v] /\ Obeyed(Fresh, 0, v)' = G(log')[v]
  BY DEF Obeyed, Obeys
<1>3. PICK l, m : l = log /\ m = log'
  OBVIOUS
<1> HIDE DEF G
<1>4. PICK g, h : g = G(l) /\ h = G(m)
  OBVIOUS
<1>5. Obeys(g, Fresh, 0, l) /\ Obeys(h, Fresh, 0, m)
  BY <1>1, <1>4
<1>6. PICK n \in Nat : n = Len(log)
  OBVIOUS
<1>7. \A i \in 1..n : l[i] = m[i]
  BY <1>3, <1>6
<1>8. \A i \in 0..n : g[i] = h[i]
  BY <1>0, <1>5, <1>7, ObeysAgree
<1> QED
  BY <1>2, <1>3, <1>4, <1>6, <1>8

-----------------------------------------------------------------------------
(***************************************************************************)
(* The stream.  An open one carries no delta without what goes before it.  *)
(***************************************************************************)
\* What the backend sends.
Sent == [kind : {"snapshot", "delta"}, version : Nat] \cup [kind : {"unreadable"}]

\* The node has command v or a message among the first n on the stream brings it.
Reaches(n, v) ==
    \/ applied >= v
    \/ \E j \in 1..n : wire[j].kind # "unreadable" /\ wire[j].version >= v

\* What an open stream carries: nothing the log has not, no delta without what
\* goes before it, and all there is.
Connected ==
    /\ \A i \in 1..Len(wire) : wire[i].kind # "unreadable" =>
          wire[i].version \in 0..Len(log)
    /\ \A i \in 1..Len(wire) : wire[i].kind = "delta" =>
          /\ wire[i].version >= 1
          /\ Reaches(i - 1, wire[i].version - 1)
    /\ Reaches(Len(wire), Len(log))

Shape ==
    /\ log \in Seq(Command)
    /\ wire \in Seq(Sent)
    /\ applied \in 0..Len(log)
    /\ node \in Posture
    /\ held \in BOOLEAN

\* A command is issued: an open stream brings it behind the others.
LEMMA OperatorKeeps ==
    ASSUME Shape, client = "streaming" => Connected, NodeIsAtAPrefix,
           NEW c \in Command, Operator(c)
    PROVE  Shape' /\ (client = "streaming" => Connected)' /\ NodeIsAtAPrefix'
<1>1. /\ log' = Append(log, c) /\ log \in Seq(Command) /\ wire \in Seq(Sent)
      /\ applied \in 0..Len(log) /\ UNCHANGED <<node, applied, held, client>>
  BY DEF Operator, Shape, session
<1>2. Len(log) \in Nat /\ log' \in Seq(Command) /\ Len(log') = Len(log) + 1
  BY <1>1
<1>3. PICK m \in Sent : m = [kind |-> "delta", version |-> Len(log) + 1]
  <2>1. PICK n \in Nat : n = Len(log) + 1
    BY <1>2
  <2>2. [kind |-> "delta", version |-> n] \in [kind : {"snapshot", "delta"}, version : Nat]
    OBVIOUS
  <2> QED
    BY <2>1, <2>2 DEF Sent
<1>4. IF client = "streaming" THEN wire' = Append(wire, m) ELSE wire' = wire
  BY <1>3 DEF Operator
<1>5. Shape'
  <2>1. Append(wire, m) \in Seq(Sent)
    BY <1>1
  <2>2. wire' \in Seq(Sent)
    BY <1>1, <1>4, <2>1
  <2>3. applied' \in 0..Len(log')
    BY <1>1, <1>2
  <2> QED
    BY <1>1, <1>2, <2>2, <2>3 DEF Shape
<1>6. NodeIsAtAPrefix'
  <2>1. Obeyed(Fresh, 0, applied)' = Obeyed(Fresh, 0, applied)
    <3>1. PICK v \in 0..Len(log) : v = applied
      BY <1>1
    <3>2. Obeyed(Fresh, 0, v)' = Obeyed(Fresh, 0, v)
      BY <1>1, NewCommandIsLast
    <3> QED
      BY <1>1, <3>1, <3>2 DEF Obeyed
  <2> QED
    BY <1>1, <2>1 DEF NodeIsAtAPrefix
<1>7. ASSUME client = "streaming" PROVE Connected'
  <2>1. /\ Len(wire) \in Nat /\ Len(wire') = Len(wire) + 1
        /\ wire'[Len(wire) + 1] = m
        /\ \A i \in 1..Len(wire) : wire'[i] = wire[i]
        /\ \A i \in 1..(Len(wire) + 1) : i \in 1..Len(wire) \/ i = Len(wire) + 1
    BY <1>1, <1>4, <1>7
  <2>2. m.kind = "delta" /\ m.version = Len(log) + 1
    BY <1>3
  <2>3. \A n \in 0..Len(wire), v \in Int : Reaches(n, v) => Reaches(n, v)'
    BY <1>1, <2>1 DEF Reaches
  <2>4. ASSUME NEW i \in 1..Len(wire), wire[i].kind = "delta"
        PROVE  wire[i].version >= 1 /\ Reaches(i - 1, wire[i].version - 1)'
    <3>1. PICK v \in Int, n \in 0..Len(wire) : v = wire[i].version - 1 /\ n = i - 1
      <4>1. wire[i].version \in 0..Len(log)
        BY <1>7, <2>4 DEF Connected
      <4> QED
        BY <1>2, <2>1, <4>1
    <3>2. Reaches(n, v)'
      BY <1>7, <2>3, <2>4, <3>1 DEF Connected
    <3>3. wire'[i] = wire[i]
      BY <2>1
    <3> QED
      BY <1>7, <2>4, <3>1, <3>2, <3>3 DEF Connected, Reaches
  <2>5. Reaches(Len(wire), Len(log))'
    <3>1. Len(wire) + 1 \in 1..Len(wire') /\ Len(wire') = Len(wire) + 1
      BY <2>1
    <3>2. wire'[Len(wire')].kind # "unreadable" /\ wire'[Len(wire')].version >= Len(log')
      BY <1>2, <2>1, <2>2, <3>1
    <3> QED
      BY <3>1, <3>2 DEF Reaches
  <2>6. \A i \in 1..Len(wire') : wire'[i].kind = "delta" =>
          /\ wire'[i].version >= 1
          /\ Reaches(i - 1, wire[i].version - 1)'
    <3> TAKE i \in 1..Len(wire')
    <3>1. CASE i \in 1..Len(wire)
      BY <2>1, <2>4, <3>1
    <3>2. CASE i = Len(wire) + 1
      <4>1. PICK n \in 0..Len(wire), v \in Int : n = Len(wire) /\ v = Len(log)
        BY <1>2, <2>1
      <4>2. Reaches(n, v)'
        BY <1>7, <2>3, <4>1 DEF Connected
      <4>3. wire'[i] = m /\ i - 1 = n /\ m.version - 1 = v /\ m.version >= 1
        BY <1>2, <2>1, <2>2, <3>2, <4>1
      <4> QED
        BY <4>2, <4>3 DEF Reaches
    <3> QED
      BY <2>1, <3>1, <3>2
  <2>7. \A i \in 1..Len(wire') : wire'[i].kind # "unreadable" =>
          wire'[i].version \in 0..Len(log')
    <3> TAKE i \in 1..Len(wire')
    <3>1. CASE i \in 1..Len(wire)
      BY <1>2, <1>7, <2>1, <3>1 DEF Connected
    <3>2. CASE i = Len(wire) + 1
      BY <1>2, <2>1, <2>2, <3>2
    <3> QED
      BY <2>1, <3>1, <3>2
  <2> QED
    BY <2>5, <2>6, <2>7 DEF Connected
<1> QED
  BY <1>1, <1>5, <1>6, <1>7

\* A line comes that says nothing.
LEMMA GarbleKeeps ==
    ASSUME Shape, client = "streaming" => Connected, NodeIsAtAPrefix, Garble
    PROVE  Shape' /\ (client = "streaming" => Connected)' /\ NodeIsAtAPrefix'
<1>1. /\ client = "streaming" /\ wire \in Seq(Sent)
      /\ UNCHANGED <<log, node, applied, held, client>>
  BY DEF Garble, Shape, session
<1>2. PICK m \in Sent : m = [kind |-> "unreadable"]
  BY DEF Sent
<1>3. wire' = Append(wire, m) /\ m.kind = "unreadable"
  BY <1>2 DEF Garble
<1>4. /\ Len(wire) \in Nat /\ Len(wire') = Len(wire) + 1 /\ wire' \in Seq(Sent)
      /\ wire'[Len(wire) + 1] = m
      /\ \A i \in 1..Len(wire) : wire'[i] = wire[i]
      /\ \A i \in 1..(Len(wire) + 1) : i \in 1..Len(wire) \/ i = Len(wire) + 1
  BY <1>1, <1>3
<1>5. Shape'
  BY <1>1, <1>4 DEF Shape
<1>6. \A n \in 0..Len(wire) : \A v : Reaches(n, v) => Reaches(n, v)'
  BY <1>1, <1>4 DEF Reaches
<1>7. Reaches(Len(wire), Len(log))'
  <2>1. PICK n, v : n = Len(wire) /\ v = Len(log)
    OBVIOUS
  <2>2. n \in 0..Len(wire) /\ Reaches(n, v)
    BY <1>1, <1>4, <2>1 DEF Connected
  <2>3. Reaches(n, v)'
    BY <1>6, <2>2
  <2> QED
    BY <1>1, <1>4, <2>1, <2>3 DEF Reaches
<1>8. \A i \in 1..Len(wire') : wire'[i].kind = "delta" =>
        /\ wire'[i].version >= 1
        /\ Reaches(i - 1, wire[i].version - 1)'
  <2> SUFFICES ASSUME NEW i \in 1..Len(wire'), wire'[i].kind = "delta"
               PROVE  wire'[i].version >= 1 /\ Reaches(i - 1, wire[i].version - 1)'
    OBVIOUS
  <2>1. i \in 1..Len(wire) /\ wire'[i] = wire[i]
    BY <1>3, <1>4
  <2>2. PICK n, v : n = i - 1 /\ v = wire[i].version - 1
    OBVIOUS
  <2>3. n \in 0..Len(wire)
    BY <1>4, <2>1, <2>2
  <2>4. Reaches(n, v) /\ wire[i].version >= 1
    BY <1>1, <2>1, <2>2 DEF Connected
  <2>5. Reaches(n, v)'
    BY <1>6, <2>3, <2>4
  <2> QED
    BY <2>1, <2>2, <2>4, <2>5 DEF Reaches
<1>9. \A i \in 1..Len(wire') : wire'[i].kind # "unreadable" =>
        wire'[i].version \in 0..Len(log')
  BY <1>1, <1>3, <1>4 DEF Connected
<1>10. NodeIsAtAPrefix'
  <2>1. Obeyed(Fresh, 0, applied)' = Obeyed(Fresh, 0, applied)
    BY <1>1 DEF Obeyed
  <2> QED
    BY <1>1, <2>1 DEF NodeIsAtAPrefix
<1> QED
  BY <1>5, <1>7, <1>8, <1>9, <1>10 DEF Connected

\* A stream opens: the snapshot reaches to the last command.
LEMMA SubscribeKeeps ==
    ASSUME Shape, NodeIsAtAPrefix, Subscribe
    PROVE  Shape' /\ (client = "streaming" => Connected)' /\ NodeIsAtAPrefix'
<1>1. UNCHANGED <<log, node, applied, held>> /\ Len(log) \in Nat
  BY DEF Subscribe, session, Shape
<1>2. PICK from \in 0..Len(log) :
        wire' = <<[kind |-> "snapshot", version |-> Len(log)]>>
                \o [i \in 1..(Len(log) - from) |->
                      [kind |-> "delta", version |-> from + i]]
  BY DEF Subscribe
<1>3. PICK m \in Sent : m = [kind |-> "snapshot", version |-> Len(log)]
  <2>1. PICK n \in Nat : n = Len(log)
    BY <1>1
  <2>2. [kind |-> "snapshot", version |-> n] \in [kind : {"snapshot", "delta"}, version : Nat]
    OBVIOUS
  <2> QED
    BY <2>1, <2>2 DEF Sent
<1>4. PICK d \in Seq(Sent) :
        d = [i \in 1..(Len(log) - from) |-> [kind |-> "delta", version |-> from + i]]
  <2>1. \A i \in 1..(Len(log) - from) : [kind |-> "delta", version |-> from + i] \in Sent
    <3> TAKE i \in 1..(Len(log) - from)
    <3>1. PICK n \in Nat : n = from + i
      BY <1>1
    <3>2. [kind |-> "delta", version |-> n] \in [kind : {"snapshot", "delta"}, version : Nat]
      OBVIOUS
    <3> QED
      BY <3>1, <3>2 DEF Sent
  <2>2. PICK n \in Nat : n = Len(log) - from
    BY <1>1
  <2>3. PICK e : e = [i \in 1..n |-> [kind |-> "delta", version |-> from + i]]
    OBVIOUS
  <2>4. e \in [1..n -> Sent]
    BY <2>1, <2>2, <2>3
  <2>5. e \in Seq(Sent)
    BY <2>4
  <2> QED
    BY <2>2, <2>3, <2>5
<1>5. /\ Len(d) = Len(log) - from /\ Len(d) \in Nat
      /\ \A i \in 1..Len(d) : d[i].kind = "delta" /\ d[i].version = from + i
  <2>1. Len(log) - from \in Nat
    BY <1>1
  <2> QED
    BY <1>4, <2>1
<1>6. wire' = <<m>> \o d
  BY <1>2, <1>3, <1>4
<1>7. /\ wire' \in Seq(Sent) /\ Len(wire') = Len(d) + 1 /\ wire'[1] = m
      /\ \A i \in 1..Len(d) : wire'[i + 1] = d[i]
  BY <1>5, <1>6
<1>8. \A i \in 1..Len(wire') : i = 1 \/ (i - 1 \in 1..Len(d) /\ (i - 1) + 1 = i)
  BY <1>5, <1>7
<1>9. Shape'
  BY <1>1, <1>7 DEF Shape
<1>10. m.kind = "snapshot" /\ m.version = Len(log)
  BY <1>3
<1>11. \A n \in 1..Len(wire'), v \in Int : v <= Len(log) => Reaches(n, v)'
  <2> SUFFICES ASSUME NEW n \in 1..Len(wire'), NEW v \in Int, v <= Len(log)
               PROVE  Reaches(n, v)'
    OBVIOUS
  <2>1. 1 \in 1..n /\ wire'[1].kind # "unreadable" /\ wire'[1].version >= v
    BY <1>1, <1>7, <1>10
  <2> QED
    BY <2>1 DEF Reaches
<1>12. Reaches(Len(wire), Len(log))'
  <2>0. Len(wire') \in 1..Len(wire') /\ Len(log) \in Int
    BY <1>1, <1>5, <1>7
  <2>1. PICK n \in 1..Len(wire'), v \in Int : n = Len(wire') /\ v = Len(log)
    BY <2>0
  <2>2. Reaches(n, v)'
    BY <1>1, <1>11, <2>1
  <2> QED
    BY <1>1, <2>1, <2>2 DEF Reaches
<1>13. ASSUME NEW i \in 1..Len(wire'), wire'[i].kind = "delta"
       PROVE  wire'[i].version >= 1 /\ Reaches(i - 1, wire[i].version - 1)'
  <2>1. i # 1
    BY <1>7, <1>10, <1>13
  <2>2. i - 1 \in 1..Len(d) /\ wire'[i] = d[i - 1] /\ i - 1 \in 1..Len(wire')
    BY <1>5, <1>7, <1>8, <2>1
  <2>3. wire'[i].version = from + (i - 1)
    BY <1>5, <2>2
  <2>4. PICK n \in 1..Len(wire'), v \in Int : n = i - 1 /\ v = wire'[i].version - 1
    BY <1>1, <2>2, <2>3
  <2>5. v <= Len(log) /\ wire'[i].version >= 1
    BY <1>1, <1>5, <2>2, <2>3, <2>4
  <2>6. Reaches(n, v)'
    BY <1>11, <2>5
  <2> QED
    BY <2>4, <2>5, <2>6 DEF Reaches
<1>14. ASSUME NEW i \in 1..Len(wire') PROVE wire'[i].version \in 0..Len(log')
  <2>1. CASE i = 1
    BY <1>1, <1>7, <1>10, <2>1
  <2>2. CASE i # 1
    <3>1. i - 1 \in 1..Len(d) /\ wire'[i] = d[i - 1]
      BY <1>7, <1>8, <2>2
    <3>2. wire'[i].version = from + (i - 1)
      BY <1>5, <3>1
    <3> QED
      BY <1>1, <1>5, <3>1, <3>2
  <2> QED
    BY <2>1, <2>2
<1>15. NodeIsAtAPrefix'
  <2>1. Obeyed(Fresh, 0, applied)' = Obeyed(Fresh, 0, applied)
    BY <1>1 DEF Obeyed
  <2> QED
    BY <1>1, <2>1 DEF NodeIsAtAPrefix
<1> QED
  BY <1>9, <1>12, <1>13, <1>14, <1>15 DEF Connected

\* What dispatching the first message does to the session.
LEMMA ReceiveMatches ==
    ASSUME Shape, Connected, NodeIsAtAPrefix, wire # <<>>,
           NEW m, m = wire[1], UNCHANGED log,
           \/ m.kind = "snapshot" /\ Snapshot(m.version)
           \/ m.kind = "delta" /\ Delta(m.version)
    PROVE  /\ NodeIsAtAPrefix'
           /\ node' \in Posture /\ held' \in BOOLEAN /\ applied' \in 0..Len(log)
           /\ applied' >= applied /\ applied' >= m.version
<1>0. /\ 1 \in 1..Len(wire) /\ Len(wire) \in Nat /\ Len(log) \in Nat
      /\ log \in Seq(Command) /\ node \in Posture /\ held \in BOOLEAN
      /\ applied \in 0..Len(log)
  BY DEF Shape
<1>1. m.version \in 0..Len(log)
  BY <1>0 DEF Connected
<1>2. PICK v \in Nat, a \in Nat : v = m.version /\ a = applied /\ v <= Len(log) /\ a <= Len(log)
  BY <1>0, <1>1
<1>3. PICK p \in Posture, h \in BOOLEAN : p = node /\ h = held
  BY <1>0
<1>4. Match(p, Obeyed(Fresh, 0, a), h)
  BY <1>2, <1>3 DEF NodeIsAtAPrefix, Match
<1>5. \A w : Obeyed(Fresh, 0, w)' = Obeyed(Fresh, 0, w)
  BY DEF Obeyed
<1>6. Fresh \in Posture /\ 0 \in Nat
  BY DEF Fresh, Posture
<1>7. ASSUME UNCHANGED session, v <= a
      PROVE  /\ NodeIsAtAPrefix'
             /\ node' \in Posture /\ held' \in BOOLEAN /\ applied' \in 0..Len(log)
             /\ applied' >= applied /\ applied' >= m.version
  <2>1. Obeyed(Fresh, 0, applied)' = Obeyed(Fresh, 0, applied)
    BY <1>7 DEF Obeyed, session
  <2> QED
    BY <1>0, <1>2, <1>7, <2>1 DEF NodeIsAtAPrefix, session
<1>8. ASSUME applied' = v, a <= v, NEW q \in Posture, node' = q,
             NEW k \in BOOLEAN, held' = k, Match(q, Obeyed(Fresh, 0, v), k)
      PROVE  /\ NodeIsAtAPrefix'
             /\ node' \in Posture /\ held' \in BOOLEAN /\ applied' \in 0..Len(log)
             /\ applied' >= applied /\ applied' >= m.version
  <2>1. Obeyed(Fresh, 0, applied)' = Obeyed(Fresh, 0, v)
    BY <1>8 DEF Obeyed
  <2>2. NodeIsAtAPrefix'
    BY <1>8, <2>1 DEF NodeIsAtAPrefix, Match
  <2> QED
    BY <1>2, <1>8, <2>2
<1>9. CASE m.kind = "snapshot" /\ Snapshot(m.version)
  <2>1. /\ applied' = IF v > a THEN v ELSE a
        /\ node' = Obeyed(p, a, v)
        /\ held' = (h /\ ~Touches(a, v))
    BY <1>2, <1>3, <1>9 DEF Snapshot
  <2>2. CASE v <= a
    <3>1. Obeyed(p, a, v) = p
      BY <2>2, ObeyedSteps
    <3>2. ~Touches(a, v)
      BY <2>2 DEF Touches
    <3> QED
      BY <1>2, <1>3, <1>7, <2>1, <2>2, <3>1, <3>2 DEF session
  <2>3. CASE ~(v <= a)
    <3>1. Match(Obeyed(p, a, v), Obeyed(Fresh, 0, v), h /\ ~Touches(a, v))
      BY <1>0, <1>2, <1>4, <2>3, MatchOverLog
    <3>2. PICK q \in Posture, k \in BOOLEAN : q = Obeyed(p, a, v) /\ k = (h /\ ~Touches(a, v))
      BY ObeyedSteps
    <3>3. Match(q, Obeyed(Fresh, 0, v), k)
      BY <3>1, <3>2 DEF Match
    <3>4. applied' = v /\ a <= v /\ node' = q /\ held' = k
      BY <2>1, <2>3, <3>2
    <3> QED
      BY <1>8, <3>3, <3>4
  <2> QED
    BY <2>2, <2>3
<1>10. CASE m.kind = "delta" /\ Delta(m.version)
  <2>1. CASE v <= a
    BY <1>2, <1>7, <1>10, <2>1 DEF Delta
  <2>2. CASE ~(v <= a)
    <3>1. v = a + 1
      <4>1. v >= 1 /\ Reaches(0, v - 1)
        BY <1>0, <1>2, <1>10 DEF Connected
      <4>2. a >= v - 1
        BY <1>2, <4>1 DEF Reaches
      <4> QED
        BY <2>2, <4>2
    <3>2. PICK c \in Command : c = log[v]
      BY <1>0, <1>2, <3>1
    <3>3. applied' = v /\ node' = Obey(p, c) /\ held' = (h /\ c = "stop")
      BY <1>2, <1>3, <1>10, <2>2, <3>2 DEF Delta
    <3>4. PICK d \in Posture : d = Obeyed(Fresh, 0, a)
      BY <1>6, ObeyedSteps
    <3>5. Obeyed(Fresh, 0, v) = Obey(d, c)
      <4>1. v > 0 /\ v - 1 = a
        BY <3>1
      <4> QED
        BY <1>6, <3>2, <3>4, <4>1, ObeyedSteps
    <3>6. Match(Obey(p, c), Obey(d, c), h /\ c \notin {"pause", "resume"})
      BY <1>4, <3>4, MatchStep
    <3>7. (h /\ c \notin {"pause", "resume"}) = (h /\ c = "stop")
      BY DEF Command
    <3>8. PICK q \in Posture, k \in BOOLEAN : q = Obey(p, c) /\ k = (h /\ c = "stop")
      BY ObeyType
    <3>9. Match(q, Obeyed(Fresh, 0, v), k)
      BY <3>5, <3>6, <3>7, <3>8 DEF Match
    <3>10. a <= v /\ node' = q /\ held' = k
      BY <3>1, <3>3, <3>8
    <3> QED
      BY <1>8, <3>3, <3>9, <3>10
  <2> QED
    BY <2>1, <2>2
<1> QED
  BY <1>9, <1>10

\* A message is read: the stream goes on with the others.
LEMMA ReceiveKeeps ==
    ASSUME Shape, client = "streaming" => Connected, NodeIsAtAPrefix, Receive
    PROVE  Shape' /\ (client = "streaming" => Connected)' /\ NodeIsAtAPrefix'
<1>1. /\ client = "streaming" /\ wire # <<>> /\ wire' = Tail(wire) /\ UNCHANGED log
      /\ wire \in Seq(Sent) /\ Connected
  BY DEF Receive, Shape
<1>2. PICK m \in Sent : m = wire[1] /\ m = Head(wire)
  BY <1>1
<1>3. /\ wire' \in Seq(Sent) /\ Len(wire') \in Nat /\ Len(wire') = Len(wire) - 1
      /\ \A i \in 1..Len(wire') : wire'[i] = wire[i + 1] /\ i + 1 \in 1..Len(wire)
  BY <1>1
<1>4. CASE UNCHANGED session /\ client' # "streaming"
  <2>1. Obeyed(Fresh, 0, applied)' = Obeyed(Fresh, 0, applied)
    BY <1>1, <1>4 DEF Obeyed, session
  <2>2. NodeIsAtAPrefix'
    BY <1>4, <2>1 DEF NodeIsAtAPrefix, session
  <2>3. Shape'
    BY <1>1, <1>3, <1>4 DEF Shape, session
  <2> QED
    BY <1>4, <2>2, <2>3
<1>5. CASE /\ client' = "streaming"
           /\ \/ m.kind = "snapshot" /\ Snapshot(m.version)
              \/ m.kind = "delta" /\ Delta(m.version)
  <2>1. /\ NodeIsAtAPrefix'
        /\ node' \in Posture /\ held' \in BOOLEAN /\ applied' \in 0..Len(log)
        /\ applied' >= applied /\ applied' >= m.version
    BY <1>1, <1>2, <1>5, ReceiveMatches
  <2>2. Shape'
    BY <1>1, <1>3, <2>1 DEF Shape
  <2>3. /\ applied \in Int /\ applied' \in Int /\ m.version \in Int
        /\ m.kind # "unreadable"
    <3>1. 1 \in 1..Len(wire)
      BY <1>1
    <3>2. m.kind # "unreadable"
      BY <1>5
    <3> QED
      BY <1>1, <1>2, <2>1, <3>1, <3>2 DEF Connected, Shape
  <2>4. ASSUME NEW n \in 0..Len(wire'), NEW k, k = n + 1, NEW v \in Int, Reaches(k, v)
        PROVE  Reaches(n, v)'
    <3>1. CASE applied >= v
      BY <2>1, <2>3, <3>1 DEF Reaches
    <3>2. ASSUME NEW j \in 1..k, wire[j].kind # "unreadable", wire[j].version >= v
          PROVE  Reaches(n, v)'
      <4>1. CASE j = 1
        BY <1>2, <2>1, <2>3, <3>2, <4>1 DEF Reaches
      <4>2. CASE j # 1
        <5>1. PICK i \in 1..n : i = j - 1 /\ i + 1 = j /\ i \in 1..Len(wire')
          BY <1>3, <2>4, <4>2
        <5>2. wire'[i].kind # "unreadable" /\ wire'[i].version >= v
          BY <1>3, <3>2, <5>1
        <5> QED
          BY <5>2 DEF Reaches
      <4> QED
        BY <4>1, <4>2
    <3> QED
      BY <2>4, <3>1, <3>2 DEF Reaches
  <2>5. Reaches(Len(wire), Len(log))'
    <3>1. PICK n \in 0..Len(wire'), k, v \in Int :
             n = Len(wire') /\ k = n + 1 /\ k = Len(wire) /\ v = Len(log)
      <4>1. Len(wire') \in 0..Len(wire') /\ Len(wire') + 1 = Len(wire)
        BY <1>1, <1>3
      <4>2. Len(log) \in Int /\ Len(wire) \in Int
        BY <1>1 DEF Shape
      <4> QED
        BY <4>1, <4>2
    <3>2. Reaches(n, v)'
      BY <1>1, <2>4, <3>1 DEF Connected
    <3> QED
      BY <1>1, <3>1, <3>2 DEF Reaches
  <2>6. ASSUME NEW i \in 1..Len(wire'), wire'[i].kind = "delta"
        PROVE  wire'[i].version >= 1 /\ Reaches(i - 1, wire[i].version - 1)'
    <3>1. PICK j \in 1..Len(wire) : j = i + 1 /\ wire'[i] = wire[j]
      BY <1>3
    <3>2. /\ wire[j].version \in 0..Len(log) /\ wire[j].version >= 1
          /\ Reaches(j - 1, wire[j].version - 1)
      BY <1>1, <2>6, <3>1 DEF Connected
    <3>3. PICK n \in 0..Len(wire'), k, v \in Int :
             n = i - 1 /\ k = n + 1 /\ k = j - 1 /\ v = wire[j].version - 1
      <4>1. i - 1 \in 0..Len(wire') /\ (i - 1) + 1 = j - 1 /\ j - 1 \in Int
        BY <1>3, <3>1
      <4>2. wire[j].version - 1 \in Int
        BY <1>1, <3>2 DEF Shape
      <4> QED
        BY <4>1, <4>2
    <3>4. Reaches(n, v)'
      BY <2>4, <3>2, <3>3
    <3> QED
      BY <3>1, <3>2, <3>3, <3>4 DEF Reaches
  <2>7. ASSUME NEW i \in 1..Len(wire'), wire'[i].kind # "unreadable"
        PROVE  wire'[i].version \in 0..Len(log')
    BY <1>1, <1>3, <2>7 DEF Connected
  <2> QED
    BY <2>1, <2>2, <2>5, <2>6, <2>7 DEF Connected
<1> QED
  BY <1>1, <1>2, <1>4, <1>5 DEF Receive

\* A node held for a disconnect shows paused, whatever the operators want.
LEMMA GraceKeeps ==
    ASSUME Shape, NodeIsAtAPrefix, GraceOver
    PROVE  Shape' /\ (client = "streaming" => Connected)' /\ NodeIsAtAPrefix'
<1>1. UNCHANGED <<log, wire, applied>> /\ client' # "streaming"
  BY DEF GraceOver, session
<1>2. Obeyed(Fresh, 0, applied)' = Obeyed(Fresh, 0, applied)
  BY <1>1 DEF Obeyed
<1>3. \/ node' = [node EXCEPT !.paused = TRUE] /\ held' = TRUE
      \/ UNCHANGED <<node, held>>
  BY DEF GraceOver, session
<1>4. node' \in Posture /\ held' \in BOOLEAN
  BY <1>3 DEF Shape, Posture
<1>5. NodeIsAtAPrefix'
  BY <1>1, <1>2, <1>3 DEF NodeIsAtAPrefix, Shape, Posture
<1> QED
  BY <1>1, <1>4, <1>5 DEF Shape

\* The steps that move neither log nor session, and open no stream.
LEMMA StillKeeps ==
    ASSUME Shape, client = "streaming" => Connected, NodeIsAtAPrefix,
           UNCHANGED <<log, node, applied, held>>, wire' = wire \/ wire' = <<>>,
           client' = "streaming" => client = "streaming" /\ wire' = wire
    PROVE  Shape' /\ (client = "streaming" => Connected)' /\ NodeIsAtAPrefix'
<1>1. Obeyed(Fresh, 0, applied)' = Obeyed(Fresh, 0, applied)
  BY DEF Obeyed
<1>2. NodeIsAtAPrefix'
  BY <1>1 DEF NodeIsAtAPrefix
<1>3. Shape'
  <2>1. <<>> \in Seq(Sent)
    OBVIOUS
  <2> QED
    BY <2>1 DEF Shape
<1>4. ASSUME client' = "streaming" PROVE Connected'
  BY <1>4 DEF Connected, Reaches
<1> QED
  BY <1>2, <1>3, <1>4

\* The inductive invariant of the subscription.  The node has obeyed a
\* beginning of the log, an open stream brings the rest, and only a client
\* with a grace period set waits for one to pass.
Follows ==
    /\ Shape
    /\ client = "streaming" => Connected
    /\ NodeIsAtAPrefix
    /\ client = "grace" => hold_after

\* It holds from the start and every step keeps it.
LEMMA FollowsHolds == Spec => []Follows
<1>1. Init => Follows
  <2> SUFFICES ASSUME Init PROVE Follows
    OBVIOUS
  <2>1. Fresh \in Posture /\ 0 \in Nat
    BY DEF Fresh, Posture
  <2>2. Obeyed(Fresh, 0, 0) = Fresh
    BY <2>1, ObeyedSteps
  <2>3. node = Fresh /\ applied = 0 /\ held = FALSE /\ log = <<>> /\ wire = <<>>
    BY DEF Init
  <2>4. NodeIsAtAPrefix
    <3>1. Obeyed(Fresh, 0, applied) = Fresh
      BY <2>2, <2>3
    <3>2. Fresh.paused = FALSE
      BY DEF Fresh
    <3> QED
      BY <2>3, <3>1, <3>2 DEF NodeIsAtAPrefix
  <2>5. Shape
    <3>1. log \in Seq(Command) /\ wire \in Seq(Sent) /\ 0 \in 0..Len(log)
      BY <2>3
    <3> QED
      BY <2>1, <2>3, <3>1 DEF Shape
  <2> QED
    BY <2>4, <2>5 DEF Init, Follows
<1>2. Follows /\ [Next]_vars => Follows'
  <2> SUFFICES ASSUME Follows, [Next]_vars PROVE Follows'
    OBVIOUS
  <2>1. /\ Shape /\ NodeIsAtAPrefix
        /\ client = "streaming" => Connected
        /\ client = "grace" => hold_after
    BY DEF Follows
  <2>2. CASE LeaveLoop \/ Redial \/ Refused \/ Disconnected
    <3>1. /\ UNCHANGED <<log, node, applied, held>> /\ (wire' = wire \/ wire' = <<>>)
          /\ client' # "streaming"
      BY <2>2 DEF LeaveLoop, Redial, Refused, Disconnected, session
    <3>2. client' = "grace" => hold_after'
      BY <2>2 DEF LeaveLoop, Redial, Refused, Disconnected
    <3> QED
      BY <2>1, <3>1, <3>2, StillKeeps DEF Follows
  <2>3. CASE Stop \/ Tick \/ Flushed \/ WindDown \/ EndClient \/ EndBeat \/ UNCHANGED vars
    <3>1. /\ UNCHANGED <<hold_after, log, node, applied, held, wire>>
          /\ client' = client \/ client' = "over"
      BY <2>3 DEF Stop, Tick, Flushed, WindDown, EndClient, EndBeat, vars, session, tasks
    <3> QED
      BY <2>1, <3>1, StillKeeps DEF Follows
  <2>4. CASE (\E c \in Command : Operator(c)) \/ Garble \/ Subscribe \/ GraceOver \/ Receive
    <3>1. UNCHANGED hold_after /\ (client' = client \/ client' # "grace")
      BY <2>4 DEF Operator, Garble, Subscribe, GraceOver, Receive, tasks
    <3>2. Shape' /\ (client = "streaming" => Connected)' /\ NodeIsAtAPrefix'
      BY <2>1, <2>4, OperatorKeeps, GarbleKeeps, SubscribeKeeps, ReceiveKeeps,
         GraceKeeps
    <3> QED
      BY <2>1, <3>1, <3>2 DEF Follows
  <2> QED
    BY <2>2, <2>3, <2>4 DEF Next, ClientStep
<1> QED
  BY <1>1, <1>2, PTL DEF Spec

\* For any number of commands, disconnects, repeats, refusals and holds, the
\* node's posture is what the operators' first `applied` commands leave, but
\* for a local hold: none is skipped and none obeyed twice
\* (session.py:106-110, client.py:334-337).
THEOREM NodeFollowsTheLog == Spec => []NodeIsAtAPrefix
<1>1. Follows => NodeIsAtAPrefix
  BY DEF Follows
<1> QED
  BY <1>1, FollowsHolds, PTL

-----------------------------------------------------------------------------
(***************************************************************************)
(* The reduced session keeps the promises of the whole one.                *)
(***************************************************************************)
\* The posture without a cap: the commands here carry none.
Promise == INSTANCE PlanePosture
    WITH ver <- applied, stopped <- node.stopped, paused <- node.paused,
         cap <- "no cap", LocalCap <- "no cap", None <- "no cap"

\* hold_on_disconnect: the client itself pauses the node, under no version.
LocalHold ==
    /\ client = "grace" /\ hold_after
    /\ UNCHANGED applied
    /\ node' = [node EXCEPT !.paused = TRUE]

\* The node moves by taking a newer command and by holding for a disconnect,
\* never otherwise, and no command moves a stopped one (session.py:11-13,
\* client.py:334-337).
PostureButForHolds ==
    Promise!Init /\ [][Promise!Next \/ LocalHold]_(Promise!vars)

\* A stopped node obeys nothing, however many commands a snapshot replays.
LEMMA StoppedObeysNothing ==
    ASSUME NEW p \in Posture, p.stopped, NEW from \in Nat
    PROVE  \A v \in Nat : Obeyed(p, from, v) = p
<1> DEFINE T == {v \in Nat : Obeyed(p, from, v) = p}
<1>1. 0 \in T
  BY ObeyedSteps
<1>2. ASSUME NEW n \in Nat, n \in T PROVE n + 1 \in T
  <2>1. Obeyed(p, from, n) = p /\ n + 1 \in Nat /\ (n + 1) - 1 = n
    BY <1>2
  <2>2. CASE n + 1 <= from
    BY <2>1, <2>2, ObeyedSteps
  <2>3. CASE n + 1 > from
    <3>1. Obeyed(p, from, n + 1) = Obey(p, log[n + 1])
      BY <2>1, <2>3, ObeyedSteps
    <3> QED
      BY <2>1, <3>1 DEF Obey
  <2> QED
    BY <2>1, <2>2, <2>3
<1>3. Nat \subseteq T
  <2> HIDE DEF T
  <2> QED
    BY <1>1, <1>2, Induction
<1> QED
  BY <1>3

\* A message that moves the node takes a newer version; a stopped one it leaves.
LEMMA ReceiveTakes ==
    ASSUME Follows, Receive, ~UNCHANGED <<applied, node>>
    PROVE  Promise!Take
<1>1. /\ Shape /\ Connected /\ applied \in Nat /\ node \in Posture
  BY DEF Follows, Receive, Shape
<1>2. PICK m \in Sent : m = wire[1] /\ m = Head(wire)
  BY <1>1 DEF Receive, Shape
<1>3. \/ m.kind = "snapshot" /\ Snapshot(m.version)
      \/ m.kind = "delta" /\ Delta(m.version)
  BY <1>2 DEF Receive, session
<1>4. m.version \in Nat
  <2>1. 1 \in 1..Len(wire) /\ Len(log) \in Nat
    BY <1>1 DEF Receive, Shape
  <2> QED
    BY <1>1, <1>2, <1>3, <2>1 DEF Connected
<1>5. CASE m.version <= applied
  <2>1. Obeyed(node, applied, m.version) = node
    BY <1>1, <1>4, <1>5, ObeyedSteps
  <2>2. UNCHANGED <<applied, node>>
    BY <1>1, <1>3, <1>4, <1>5, <2>1 DEF Snapshot, Delta, session
  <2> QED
    BY <2>2
<1>6. CASE m.version > applied
  <2>1. applied' = m.version
    BY <1>1, <1>3, <1>4, <1>6 DEF Snapshot, Delta
  <2>2. node' \in Posture
    BY <1>1, <1>3, <1>4, <1>6, ObeyedSteps, ObeyType DEF Snapshot, Delta
  <2>3. node.stopped => node' = node
    BY <1>1, <1>3, <1>4, <1>6, StoppedObeysNothing DEF Snapshot, Delta, Obey
  <2>4. /\ node'.stopped \in BOOLEAN /\ node'.paused \in BOOLEAN
    BY <2>2 DEF Posture
  <2> QED
    BY <1>4, <1>6, <2>1, <2>3, <2>4
    DEF Promise!Take, Promise!Absorb, Promise!Obey, Promise!Narrower
<1> QED
  BY <1>1, <1>4, <1>5, <1>6

\* For any commands, failures and repeats, the node that PlaneSubscription
\* reduces the session to moves as PlanePosture allows, local holds apart: what
\* PlaneSession promises of the whole session its reduction promises too
\* (session.py:11-13).
THEOREM SubscriptionKeepsThePosture == Spec => PostureButForHolds
<1>1. Init => Promise!Init
  BY DEF Init, Promise!Init, Fresh
<1>2. ASSUME Follows, [Next]_vars
      PROVE  [Promise!Next \/ LocalHold]_(Promise!vars)
  <2>1. ASSUME UNCHANGED <<applied, node>>
        PROVE  [Promise!Next \/ LocalHold]_(Promise!vars)
    BY <2>1 DEF Promise!vars
  <2>2. CASE \/ \E c \in Command : Operator(c)
             \/ Garble \/ Subscribe \/ LeaveLoop \/ Redial \/ Refused \/ Disconnected
             \/ Stop \/ Tick \/ Flushed \/ WindDown \/ EndClient \/ EndBeat
             \/ UNCHANGED vars
    <3>1. UNCHANGED <<applied, node>>
      BY <2>2 DEF Operator, Garble, Subscribe, LeaveLoop, Redial, Refused,
                  Disconnected, Stop, Tick, Flushed, WindDown, EndClient, EndBeat,
                  vars, session, tasks
    <3> QED
      BY <2>1, <3>1
  <2>3. CASE GraceOver
    BY <1>2, <2>1, <2>3 DEF GraceOver, LocalHold, Follows, session
  <2>4. CASE Receive
    BY <1>2, <2>1, <2>4, ReceiveTakes DEF Promise!Next
  <2> QED
    BY <1>2, <2>2, <2>3, <2>4 DEF Next, ClientStep
<1> QED
  BY <1>1, <1>2, FollowsHolds, PTL DEF Spec, PostureButForHolds
=============================================================================
