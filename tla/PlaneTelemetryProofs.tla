------------------------ MODULE PlaneTelemetryProofs ------------------------
(***************************************************************************)
(* TLAPS proofs about PlaneTelemetry, for any number of tasks, failures,   *)
(* cancellations and process deaths: types; what is held while the process *)
(* lives, in memory and with a spool file; that no line is taken for       *)
(* another one's duplicate, no batch is posted again after its answer, no  *)
(* event leaves the spool file unstored; the order of the backend's log;   *)
(* and that the backend clears only what it has the evidence for.          *)
(***************************************************************************)
EXTENDS PlaneTelemetry, FiniteSetTheorems, TLAPS

\* The frames of the actions.
USE DEF posted, counts, answers

\* What the proof needs of the types: sequences are sequences, keys are keys.
Shape ==
    /\ emitted \in Seq(Event)
    /\ outbox \in Seq(Event)
    /\ spool = <<>>
    /\ requests \in Seq(Seq(Event))
    /\ DOMAIN pc = Flusher
    /\ key \in [Flusher -> Int]
    /\ \A f \in Flusher : key[f] \in 0..Len(requests)
    /\ \A f \in Flusher : pc[f] = "posting" => key[f] # 0
    /\ answered \subseteq 1..Len(requests)

\* An event appended is a member, and so are the old ones.
LEMMA MembersAppend ==
    ASSUME NEW S, NEW s \in Seq(S), NEW e
    PROVE  Members(Append(s, e)) = Members(s) \cup {e}
<1>1. /\ DOMAIN Append(s, e) = DOMAIN s \cup {Len(s) + 1}
      /\ Append(s, e)[Len(s) + 1] = e
      /\ \A i \in DOMAIN s : Append(s, e)[i] = s[i]
  <2>1. Len(s) \in Nat /\ DOMAIN s = 1..Len(s)
    OBVIOUS
  <2> QED
    BY <2>1
<1> QED
  BY <1>1 DEF Members

\* A concatenation has the members of both.
LEMMA MembersConcat ==
    ASSUME NEW S, NEW s \in Seq(S), NEW t \in Seq(S)
    PROVE  Members(s \o t) = Members(s) \cup Members(t)
<1>1. /\ Len(s) \in Nat /\ DOMAIN s = 1..Len(s)
      /\ Len(t) \in Nat /\ DOMAIN t = 1..Len(t)
      /\ DOMAIN (s \o t) = 1..(Len(s) + Len(t))
      /\ \A i \in 1..(Len(s) + Len(t)) :
            (s \o t)[i] = IF i <= Len(s) THEN s[i] ELSE t[i - Len(s)]
  OBVIOUS
<1>2. \A i \in 1..Len(s) : (s \o t)[i] = s[i] /\ i \in DOMAIN (s \o t)
  BY <1>1
<1>3. \A i \in 1..Len(t) :
          (s \o t)[Len(s) + i] = t[i] /\ Len(s) + i \in DOMAIN (s \o t)
  BY <1>1
<1>4. Members(s \o t) \subseteq Members(s) \cup Members(t)
  <2> SUFFICES ASSUME NEW i \in 1..(Len(s) + Len(t))
               PROVE  (s \o t)[i] \in Members(s) \cup Members(t)
    BY <1>1 DEF Members
  <2>1. CASE i <= Len(s)
    BY <1>1, <2>1 DEF Members
  <2>2. CASE ~(i <= Len(s))
    <3>1. i - Len(s) \in 1..Len(t)
      BY <1>1, <2>2
    <3> QED
      BY <1>1, <2>2, <3>1 DEF Members
  <2> QED
    BY <2>1, <2>2
<1>5. \A e \in Members(s) : e \in Members(s \o t)
  <2>1. \A i \in 1..Len(s) : s[i] \in Members(s \o t)
    BY <1>2 DEF Members
  <2> QED
    BY <1>1, <2>1 DEF Members
<1>6. \A e \in Members(t) : e \in Members(s \o t)
  <2>1. \A i \in 1..Len(t) : t[i] \in Members(s \o t)
    BY <1>3 DEF Members
  <2> QED
    BY <1>1, <2>1 DEF Members
<1> QED
  BY <1>4, <1>5, <1>6

\* A flush that posts, or was cancelled after its first request.
InFlight(f) == pc[f] \in {"posting", "cancelled"} /\ key[f] # 0

InRequest(e) == \E f \in Flusher : InFlight(f) /\ e \in Members(Batch(f))

\* What LossIsInFlight asks of one event.
Safe(e) ==
    \/ e \in Members(outbox)
    \/ e \in Members(spool)
    \/ InRequest(e)
    \/ \E k \in answered : e \in Members(requests[k])

Held == \A e \in Members(emitted) : Safe(e)

\* Where pc and key go when one flush moves.
LEMMA OneFlushMoves ==
    ASSUME NEW f \in Flusher, NEW v, DOMAIN pc = Flusher,
           pc' = [pc EXCEPT ![f] = v]
    PROVE  /\ DOMAIN pc' = Flusher
           /\ pc'[f] = v
           /\ \A g \in Flusher : g # f => pc'[g] = pc[g]
OBVIOUS

\* Emitting an event.
LEMMA EmitSafe ==
    ASSUME Shape, Held, NEW e \in Event, Emit(e)
    PROVE  Shape' /\ Held'
<1>1. /\ Members(emitted') = Members(emitted) \cup {e}
      /\ Members(outbox') = Members(outbox) \cup {e}
  BY MembersAppend DEF Emit, Shape
<1>2. UNCHANGED <<spool, pc, key, requests, answered>>
  BY DEF Emit
<1>3. Shape'
  BY <1>2 DEF Shape, Emit
<1>4. ASSUME NEW x \in Members(emitted), Safe(x) PROVE Safe(x)'
  BY <1>1, <1>2, <1>4 DEF Safe, InRequest, InFlight, Batch
<1>5. Safe(e)'
  BY <1>1 DEF Safe
<1> QED
  BY <1>1, <1>3, <1>4, <1>5 DEF Held

\* A flush begins: what the outbox held is in its request.
LEMMA FlushSafe ==
    ASSUME Shape, Held, NEW f \in Flusher, Flush(f)
    PROVE  Shape' /\ Held'
<1> DEFINE n == Len(requests) + 1
<1>0. /\ requests \in Seq(Seq(Event)) /\ outbox \in Seq(Event) /\ spool \in Seq(Event)
      /\ spool = <<>> /\ DOMAIN pc = Flusher /\ key \in [Flusher -> Int]
      /\ pc[f] = "idle"
  BY DEF Shape, Flush
<1>1. durable \in Seq(Event) /\ Members(durable) = Members(spool) \cup Members(outbox)
  <2>1. durable = spool \o outbox
    BY DEF durable
  <2>2. spool \o outbox \in Seq(Event)
    BY <1>0
  <2> QED
    BY <1>0, <2>1, <2>2, MembersConcat
<1>2. /\ requests' \in Seq(Seq(Event))
      /\ Len(requests') = n /\ n \in Nat
      /\ 1..n = 1..Len(requests) \cup {n}
      /\ requests'[n] = durable
      /\ \A k \in 1..Len(requests) : requests'[k] = requests[k]
  <2>1. requests' = Append(requests, durable)
    BY DEF Flush
  <2>2. n \in Nat /\ 1..n = 1..Len(requests) \cup {n}
    BY <1>0
  <2> HIDE DEF durable
  <2> QED
    BY <1>0, <1>1, <2>1, <2>2
<1>3. /\ DOMAIN pc' = Flusher /\ pc'[f] = "posting"
      /\ key' \in [Flusher -> Int] /\ key'[f] = n
      /\ \A g \in Flusher : g # f => pc'[g] = pc[g] /\ key'[g] = key[g]
  BY <1>0, <1>2, OneFlushMoves DEF Flush
<1>4. Shape'
  <2>1. \A g \in Flusher :
            key'[g] \in 0..n /\ (pc'[g] = "posting" => key'[g] # 0)
    <3> TAKE g \in Flusher
    <3>1. n = Len(requests) + 1 /\ Len(requests) \in Nat
      BY <1>0
    <3>2. CASE g = f
      BY <1>3, <3>1, <3>2
    <3>3. CASE g # f
      <4>1. pc'[g] = pc[g] /\ key'[g] = key[g] /\ key[g] \in 0..Len(requests)
        BY <1>3, <3>3 DEF Shape
      <4> QED
        BY <3>1, <4>1 DEF Shape
    <3> QED
      BY <3>2, <3>3
  <2> QED
    BY <1>2, <1>3, <2>1 DEF Shape, Flush
<1>5. ASSUME NEW e \in Members(emitted), Safe(e) PROVE Safe(e)'
  <2>1. CASE e \in Members(outbox) \cup Members(spool)
    <3>1. e \in Members(requests'[key'[f]])
      BY <1>1, <1>2, <1>3, <2>1
    <3> QED
      BY <1>3, <3>1 DEF Safe, InRequest, InFlight, Batch
  <2>2. ASSUME NEW g \in Flusher, InFlight(g), e \in Members(Batch(g))
        PROVE  Safe(e)'
    <3>1. g # f /\ key[g] \in 1..Len(requests)
      BY <1>0, <2>2 DEF Shape, InFlight
    <3>2. InFlight(g)' /\ e \in Members(requests'[key'[g]])
      BY <1>2, <1>3, <2>2, <3>1 DEF Batch, InFlight
    <3> QED
      BY <3>2 DEF Safe, InRequest, Batch
  <2>3. ASSUME NEW k \in answered, e \in Members(requests[k]) PROVE Safe(e)'
    <3>1. k \in answered' /\ k \in 1..Len(requests)
      BY DEF Flush, Shape
    <3> QED
      BY <1>2, <2>3, <3>1 DEF Safe
  <2> QED
    BY <1>5, <2>1, <2>2, <2>3 DEF Safe, InRequest
<1>6. emitted' = emitted
  BY DEF Flush
<1> QED
  BY <1>4, <1>5, <1>6 DEF Held

\* A flush is answered: its request counts as answered from the same step on.
LEMMA AnsweredSafe ==
    ASSUME Shape, Held, NEW f \in Flusher, Answered(f)
    PROVE  Shape' /\ Held'
<1>1. /\ pc[f] = "posting" /\ key[f] \in 1..Len(requests)
      /\ answered' = answered \cup {key[f]}
      /\ spool' = spool /\ spool = <<>>
      /\ UNCHANGED <<emitted, outbox, key, requests>>
  BY DEF Shape, Answered
<1>2. /\ DOMAIN pc' = Flusher /\ pc'[f] # "posting"
      /\ \A g \in Flusher : g # f => pc'[g] = pc[g]
  BY OneFlushMoves DEF Shape, Answered
<1>3. Shape'
  BY <1>1, <1>2 DEF Shape
<1>4. ASSUME NEW e, Safe(e) PROVE Safe(e)'
  <2>1. ASSUME NEW g \in Flusher, InFlight(g), e \in Members(Batch(g))
        PROVE  Safe(e)'
    <3>1. CASE g = f
      BY <1>1, <2>1, <3>1 DEF Safe, Batch
    <3>2. CASE g # f
      BY <1>1, <1>2, <2>1, <3>2 DEF Safe, InRequest, InFlight, Batch
    <3> QED
      BY <3>1, <3>2
  <2>2. CASE e \in Members(outbox) \cup Members(spool)
    BY <1>1, <2>2 DEF Safe
  <2>3. ASSUME NEW k \in answered, e \in Members(requests[k]) PROVE Safe(e)'
    BY <1>1, <2>3 DEF Safe
  <2> QED
    BY <1>4, <2>1, <2>2, <2>3 DEF Safe, InRequest
<1> QED
  BY <1>1, <1>3, <1>4 DEF Held

\* A flush gives up: without a spool file its batch is back in the outbox.
LEMMA GiveUpSafe ==
    ASSUME ~setting.spooled, Shape, Held, NEW f \in Flusher, GiveUp(f)
    PROVE  Shape' /\ Held'
<1>1. /\ pc[f] = "posting" /\ key[f] \in 1..Len(requests)
      /\ requests \in Seq(Seq(Event)) /\ outbox \in Seq(Event)
      /\ outbox' = Batch(f) \o outbox
      /\ UNCHANGED <<spool, emitted, key, requests, answered>>
  BY DEF Shape, GiveUp, Hold
<1>2. Batch(f) \in Seq(Event)
  BY <1>1 DEF Batch
<1>3. /\ Members(outbox') = Members(Batch(f)) \cup Members(outbox)
      /\ outbox' \in Seq(Event)
  <2>1. Batch(f) \o outbox \in Seq(Event)
    BY <1>1, <1>2
  <2> QED
    BY <1>1, <1>2, <2>1, MembersConcat
<1>4. /\ DOMAIN pc' = Flusher /\ pc'[f] # "posting"
      /\ \A g \in Flusher : g # f => pc'[g] = pc[g]
  BY OneFlushMoves DEF Shape, GiveUp
<1>5. Shape'
  BY <1>1, <1>3, <1>4 DEF Shape
<1>6. ASSUME NEW e, Safe(e) PROVE Safe(e)'
  <2>1. ASSUME NEW g \in Flusher, InFlight(g), e \in Members(Batch(g))
        PROVE  Safe(e)'
    <3>1. CASE g = f
      BY <1>3, <2>1, <3>1 DEF Safe
    <3>2. CASE g # f
      BY <1>1, <1>4, <2>1, <3>2 DEF Safe, InRequest, InFlight, Batch
    <3> QED
      BY <3>1, <3>2
  <2>2. CASE e \in Members(outbox)
    BY <1>3, <2>2 DEF Safe
  <2>3. CASE e \in Members(spool)
    BY <1>1, <2>3 DEF Safe
  <2>4. ASSUME NEW k \in answered, e \in Members(requests[k]) PROVE Safe(e)'
    BY <1>1, <2>4 DEF Safe
  <2> QED
    BY <1>6, <2>1, <2>2, <2>3, <2>4 DEF Safe, InRequest
<1> QED
  BY <1>1, <1>5, <1>6 DEF Held

\* The other steps move nothing the property looks at: no flush starts to
\* post, and one that stops posting was cancelled.
LEMMA FrameSafe ==
    ASSUME Shape, Held,
           UNCHANGED <<emitted, outbox, spool, key, requests, answered>>,
           DOMAIN pc' = Flusher,
           \A g \in Flusher : pc'[g] = "posting" => pc[g] = "posting",
           \A g \in Flusher : InFlight(g) => InFlight(g)'
    PROVE  Shape' /\ Held'
<1>1. Shape'
  BY DEF Shape
<1>2. ASSUME NEW e, Safe(e) PROVE Safe(e)'
  BY <1>2 DEF Safe, InRequest, Batch
<1> QED
  BY <1>1, <1>2 DEF Held

\* A flush is cancelled: what it had in flight is what LossIsInFlight allows.
LEMMA CancelSafe ==
    ASSUME Shape, Held, NEW f \in Flusher, Cancel(f)
    PROVE  Shape' /\ Held'
<1>1. /\ DOMAIN pc' = Flusher /\ pc'[f] = "cancelled"
      /\ \A g \in Flusher : g # f => pc'[g] = pc[g]
  BY OneFlushMoves DEF Shape, Cancel
<1>2. UNCHANGED <<emitted, outbox, spool, key, requests, answered>>
  BY DEF Cancel
<1>3. \A g \in Flusher : pc'[g] = "posting" => pc[g] = "posting"
  BY <1>1
<1>4. \A g \in Flusher : InFlight(g) => InFlight(g)'
  BY <1>1, <1>2 DEF InFlight
<1> QED
  BY <1>1, <1>2, <1>3, <1>4, FrameSafe

\* Once the process has died there is nothing to show.
InMemoryLife == ~setting.spooled /\ crashes = 0

\* Without a spool file, for any number of tasks flushing at once and any
\* failures, every report is held or was answered for while the process lives,
\* but for what a cancelled flush had in flight (client.py:116-120, 132-135).
THEOREM HeldInMemory == Spec => []LossIsInFlight
<1> DEFINE IInv == crashes \in Nat /\ (InMemoryLife => Shape /\ Held)
<1>1. Init => IInv
  <2> SUFFICES ASSUME Init PROVE IInv
    OBVIOUS
  <2>1. /\ emitted = <<>> /\ outbox = <<>> /\ spool = <<>> /\ requests = <<>>
        /\ answered = {} /\ pc = [f \in Flusher |-> "idle"]
        /\ key = [f \in Flusher |-> 0] /\ crashes = 0
    BY DEF Init
  <2>2. Shape
    BY <2>1 DEF Shape
  <2>3. Members(emitted) = {}
    BY <2>1 DEF Members
  <2> QED
    BY <2>1, <2>2, <2>3 DEF Held
<1>2. IInv /\ [Next]_vars => IInv'
  <2> SUFFICES ASSUME IInv, [Next]_vars PROVE IInv'
    OBVIOUS
  <2>1. CASE Crash
    BY <2>1 DEF Crash, InMemoryLife
  <2>2. CASE ~Crash /\ ~InMemoryLife
    BY <2>2 DEF Next, Continue, Emit, Flush, Answered, RemoveSpool, RemoveFails,
                Retry, GiveUp, Consumed, Return, Deliver, Cancel, vars, InMemoryLife
  <2>3. ASSUME Shape, Held, ~Crash, ~setting.spooled PROVE Shape' /\ Held'
    <3> USE <2>3
    <3>1. ASSUME NEW e \in Event, Emit(e) PROVE Shape' /\ Held'
      BY <3>1, EmitSafe
    <3>2. ASSUME NEW f \in Flusher, Flush(f) PROVE Shape' /\ Held'
      BY <3>2, FlushSafe
    <3>3. ASSUME NEW f \in Flusher, Answered(f) PROVE Shape' /\ Held'
      BY <3>3, AnsweredSafe
    <3>4. ASSUME NEW f \in Flusher, Retry(f) PROVE Shape' /\ Held'
      BY <3>4, FrameSafe DEF Retry, Shape, InFlight
    <3>5. ASSUME NEW f \in Flusher, GiveUp(f) PROVE Shape' /\ Held'
      BY <3>5, GiveUpSafe
    <3>6. ASSUME NEW f \in Flusher, Consumed(f) PROVE Shape' /\ Held'
      BY <3>6, FrameSafe DEF Consumed, Shape, InFlight
    <3>7. ASSUME NEW f \in Flusher, Return(f) \/ RemoveSpool(f) PROVE Shape' /\ Held'
      <4>1. /\ pc[f] \in {"acking", "answered"} /\ pc'[f] \in {"idle", "acking"}
            /\ DOMAIN pc' = Flusher
            /\ \A g \in Flusher : g # f => pc'[g] = pc[g]
            /\ UNCHANGED <<emitted, outbox, spool, key, requests, answered>>
        BY <3>7, OneFlushMoves DEF Return, RemoveSpool, Shape
      <4>2. \A g \in Flusher : InFlight(g) => InFlight(g)'
        BY <4>1 DEF InFlight
      <4>3. \A g \in Flusher : pc'[g] = "posting" => pc[g] = "posting"
        BY <4>1
      <4> QED
        BY <4>1, <4>2, <4>3, FrameSafe
    <3>8. ASSUME NEW k, Deliver(k) PROVE Shape' /\ Held'
      BY <3>8, FrameSafe DEF Deliver, client, Shape, InFlight
    <3>9. CASE UNCHANGED vars
      BY <3>9, FrameSafe DEF vars, client, Shape, InFlight
    <3>10. ASSUME NEW f \in Flusher, Cancel(f) PROVE Shape' /\ Held'
      BY <3>10, CancelSafe
    <3>11. \A f \in Flusher : ~RemoveFails(f)
      BY DEF RemoveFails, Shape
    <3> QED
      BY <3>1, <3>2, <3>3, <3>4, <3>5, <3>6, <3>7, <3>8, <3>9, <3>10, <3>11
         DEF Next, Continue
  <2>4. ASSUME ~Crash PROVE crashes' = crashes
    BY <2>4 DEF Next, Continue, Emit, Flush, Answered, RemoveSpool, RemoveFails,
                Retry, GiveUp, Consumed, Return, Deliver, Cancel, vars
  <2> QED
    BY <2>1, <2>2, <2>3, <2>4 DEF InMemoryLife
<1>3. IInv => LossIsInFlight
  <2> SUFFICES ASSUME Shape, Held, NEW e \in Members(emitted), Safe(e),
                      ~(e \in Members(outbox))
               PROVE  \/ Posting(e)
                      \/ \E k \in answered : e \in Members(requests[k])
                      \/ \E f \in Flusher :
                            pc[f] = "cancelled" /\ key[f] # 0 /\ e \in Members(Batch(f))
    BY DEF Held, LossIsInFlight, InMemoryLife
  <2>1. e \notin Members(spool)
    BY DEF Shape, Members
  <2> QED
    BY <2>1 DEF Safe, InRequest, InFlight, Posting
<1> QED
  BY <1>1, <1>2, <1>3, PTL DEF Spec

-----------------------------------------------------------------------------
(***************************************************************************)
(* Run ids and sequence numbers.  A batch owns the numbers from its first  *)
(* line's to its heartbeat's; later batches of its process start beyond.   *)
(***************************************************************************)
\* The number after those of batch k.
Beyond(k) == first[k].seq + Len(requests[k]) + 1

\* What the proof needs of the types.
Typed ==
    /\ outbox \in Seq(Event)
    /\ spool \in Seq(Event)
    /\ requests \in Seq(Seq(Event))
    /\ first \in Seq([run : Nat, seq : Nat])
    /\ Len(first) = Len(requests)
    /\ DOMAIN pc = Flusher
    /\ key \in [Flusher -> Int]
    /\ \A f \in Flusher : key[f] \in 0..Len(requests)
    /\ \A f \in Flusher : pc[f] = "posting" => key[f] # 0
    /\ crashes \in Nat
    /\ seq \in Nat
    /\ seen \subseteq 1..Len(requests)

\* Batches of earlier processes have other run ids, those of this one are
\* numbered below seq, in the order they were built.
Numbered ==
    /\ \A k \in 1..Len(requests) :
          /\ first[k].run <= crashes
          /\ first[k].run = crashes => Beyond(k) <= seq
    /\ \A j, k \in 1..Len(requests) :
          j < k /\ first[j].run = first[k].run => Beyond(j) <= first[k].seq

\* The log holds the lines of delivered batches and no others.
LoggedWasSeen ==
    \A l \in logged : \E k \in seen : \E i \in 1..(Len(requests[k]) + 1) :
        l = Line(k, i)

\* A member of a sequence.
LEMMA SeqMember ==
    ASSUME NEW S, NEW s \in Seq(S), NEW k \in 1..Len(s)
    PROVE  s[k] \in S /\ Len(s) \in Nat
OBVIOUS

\* A sequence after an append.
LEMMA AppendMembers ==
    ASSUME NEW S, NEW s \in Seq(S), NEW e \in S
    PROVE  /\ Append(s, e) \in Seq(S)
           /\ Len(Append(s, e)) = Len(s) + 1
           /\ Append(s, e)[Len(s) + 1] = e
           /\ \A k \in 1..Len(s) : Append(s, e)[k] = s[k]
OBVIOUS

\* A batch and its first line.
LEMMA BatchTypes ==
    ASSUME Typed, NEW k \in 1..Len(requests)
    PROVE  /\ first[k] \in [run : Nat, seq : Nat]
           /\ first[k].run \in Nat
           /\ first[k].seq \in Nat
           /\ Len(requests[k]) \in Nat
           /\ Len(requests) \in Nat
           /\ Beyond(k) = first[k].seq + Len(requests[k]) + 1
           /\ Beyond(k) \in Nat
<1> DEFINE Numbers == [run : Nat, seq : Nat]
<1>1. /\ first \in Seq(Numbers) /\ k \in 1..Len(first)
      /\ requests \in Seq(Seq(Event))
  BY DEF Typed
<1>2. first[k] \in Numbers
  <2> HIDE DEF Numbers
  <2> QED
    BY <1>1, SeqMember
<1>3. requests[k] \in Seq(Event) /\ Len(requests) \in Nat
  BY <1>1, SeqMember
<1>4. Len(requests[k]) \in Nat
  BY <1>3
<1>5. first[k].run \in Nat /\ first[k].seq \in Nat
  BY <1>2
<1> QED
  BY <1>2, <1>3, <1>4, <1>5 DEF Beyond

\* The lines of batch k.
LEMMA LineFields ==
    ASSUME Typed, NEW k \in 1..Len(requests), NEW i \in Int
    PROVE  Line(k, i).run = first[k].run /\ Line(k, i).seq = first[k].seq + i - 1
<1>1. first[k] \in [run : Nat, seq : Nat]
  BY BatchTypes
<1> QED
  BY <1>1 DEF Line

\* Numbers of a batch that begins at a, and of one that ends before it.
LEMMA NoOverlap ==
    ASSUME NEW a \in Nat, NEW b \in Nat, NEW p \in Nat,
           NEW i \in Int, NEW m \in Int, i >= 1, m <= p + 1,
           b + p + 1 <= a
    PROVE  a + i - 1 # b + m - 1
OBVIOUS

\* A batch that is not in the log shares no line with it.
LEMMA OwnLines ==
    ASSUME Typed, Numbered, LoggedWasSeen
    PROVE  LinesAreTheirOwn
<1> SUFFICES ASSUME NEW k \in (1..Len(requests)) \ seen,
                    NEW i \in 1..(Len(requests[k]) + 1),
                    NEW j \in seen,
                    NEW m \in 1..(Len(requests[j]) + 1),
                    Line(k, i) = Line(j, m)
             PROVE  FALSE
  BY DEF LinesAreTheirOwn, LoggedWasSeen
<1>0. j \in 1..Len(requests) /\ j # k
  BY DEF Typed
<1>1. /\ Len(requests[k]) \in Nat /\ Len(requests[j]) \in Nat
      /\ first[k].seq \in Nat /\ first[j].seq \in Nat
      /\ Len(requests) \in Nat
      /\ Beyond(k) = first[k].seq + Len(requests[k]) + 1
      /\ Beyond(j) = first[j].seq + Len(requests[j]) + 1
  BY <1>0, BatchTypes
<1>2. /\ first[k].run = first[j].run
      /\ first[k].seq + i - 1 = first[j].seq + m - 1
      /\ i \in Int /\ m \in Int
  <2>1. i \in Int /\ m \in Int
    BY <1>1
  <2>2. /\ Line(k, i).run = first[k].run /\ Line(j, m).run = first[j].run
        /\ Line(k, i).seq = first[k].seq + i - 1
        /\ Line(j, m).seq = first[j].seq + m - 1
    BY <1>0, <2>1, LineFields
  <2> QED
    BY <2>1, <2>2
<1>3. CASE j < k
  <2>1. first[j].seq + Len(requests[j]) + 1 <= first[k].seq
    BY <1>0, <1>1, <1>2, <1>3 DEF Numbered
  <2>2. i >= 1 /\ m <= Len(requests[j]) + 1
    BY <1>1
  <2> QED
    BY <1>1, <1>2, <2>1, <2>2, NoOverlap
<1>4. CASE k < j
  <2>1. first[k].seq + Len(requests[k]) + 1 <= first[j].seq
    BY <1>0, <1>1, <1>2, <1>4 DEF Numbered
  <2>2. m >= 1 /\ i <= Len(requests[k]) + 1
    BY <1>1
  <2> QED
    BY <1>1, <1>2, <2>1, <2>2, NoOverlap
<1> QED
  BY <1>0, <1>1, <1>3, <1>4

\* A flush numbers its lines from seq on, beyond those of all before it.
LEMMA FlushNumbers ==
    ASSUME Typed, Numbered, LoggedWasSeen, NEW f \in Flusher, Flush(f)
    PROVE  Typed' /\ Numbered' /\ LoggedWasSeen'
<1> PICK n : n = Len(requests) + 1
  OBVIOUS
<1>0. /\ outbox \in Seq(Event) /\ spool \in Seq(Event)
      /\ requests \in Seq(Seq(Event)) /\ first \in Seq([run : Nat, seq : Nat])
      /\ Len(first) = Len(requests) /\ Len(requests) \in Nat
      /\ crashes \in Nat /\ seq \in Nat
      /\ DOMAIN pc = Flusher /\ key \in [Flusher -> Int]
  BY DEF Typed
<1>1. durable \in Seq(Event) /\ Len(durable) \in Nat
  BY <1>0 DEF durable
<1>2. /\ n \in Nat /\ n = Len(requests) + 1
      /\ 1..n = 1..Len(requests) \cup {n}
  <2>1. Len(requests) \in Nat
    BY <1>0
  <2> QED
    BY <2>1
<1>3. /\ requests' \in Seq(Seq(Event)) /\ Len(requests') = n
      /\ requests'[n] = durable
      /\ \A k \in 1..Len(requests) : requests'[k] = requests[k]
  <2>1. requests' = Append(requests, durable)
    BY DEF Flush
  <2> HIDE DEF durable
  <2> QED
    BY <1>0, <1>1, <1>2, <2>1, AppendMembers
<1>4. /\ first' \in Seq([run : Nat, seq : Nat]) /\ Len(first') = n
      /\ first'[n].run = crashes /\ first'[n].seq = seq
      /\ \A k \in 1..Len(requests) : first'[k] = first[k]
  <2> DEFINE r == [run |-> crashes, seq |-> seq]
  <2> DEFINE R == [run : Nat, seq : Nat]
  <2>1. first' = Append(first, r) /\ first \in Seq(R) /\ Len(first) = Len(requests)
    BY DEF Flush, run_id, Typed
  <2>2. r \in R /\ r.run = crashes /\ r.seq = seq
    BY <1>0
  <2>3. first' \in Seq(R) /\ Len(first') = n /\ first'[n] = r
        /\ \A k \in 1..Len(requests) : first'[k] = first[k]
    <3> HIDE DEF r, R
    <3> QED
      BY <1>2, <2>1, <2>2, AppendMembers
  <2> QED
    BY <2>2, <2>3
<1>5. /\ seq' = seq + Len(durable) + 1
      /\ UNCHANGED <<spool, crashes, seen, logged>>
      /\ outbox' = <<>>
  BY DEF Flush, backend
<1>6. /\ DOMAIN pc' = Flusher
      /\ key' \in [Flusher -> Int]
      /\ \A g \in Flusher : key'[g] \in 0..n /\ (pc'[g] = "posting" => key'[g] # 0)
  <2>1. /\ DOMAIN pc' = Flusher
        /\ key' \in [Flusher -> Int] /\ key'[f] = n
        /\ \A g \in Flusher : g # f => pc'[g] = pc[g] /\ key'[g] = key[g]
    BY <1>0, <1>2, OneFlushMoves DEF Flush
  <2>2. ASSUME NEW g \in Flusher, g # f
        PROVE  key'[g] \in 0..n /\ (pc'[g] = "posting" => key'[g] # 0)
    <3>1. /\ key[g] \in 0..Len(requests)
          /\ pc[g] = "posting" => key[g] # 0
      BY DEF Typed
    <3> QED
      BY <1>0, <1>2, <2>1, <2>2, <3>1
  <2> QED
    BY <1>0, <1>2, <2>1, <2>2
<1>7. Typed'
  <2>1. seq' \in Nat /\ outbox' \in Seq(Event)
    BY <1>0, <1>1, <1>5
  <2>2. seen' \subseteq 1..Len(requests')
    BY <1>2, <1>3, <1>5 DEF Typed
  <2> QED
    BY <1>0, <1>3, <1>4, <1>5, <1>6, <2>1, <2>2 DEF Typed
<1>8. \A k \in 1..Len(requests) : Beyond(k)' = Beyond(k) /\ Beyond(k) \in Nat
  BY <1>3, <1>4, BatchTypes DEF Beyond
<1>9. Beyond(n)' = seq'
  BY <1>3, <1>4, <1>5 DEF Beyond
<1>10. Numbered'
  <2>1. ASSUME NEW k \in 1..n
        PROVE  /\ first'[k].run <= crashes'
               /\ first'[k].run = crashes' => Beyond(k)' <= seq'
    <3>1. CASE k = n
      BY <1>0, <1>1, <1>4, <1>5, <1>9, <3>1
    <3>2. CASE k # n
      <4>1. /\ k \in 1..Len(requests)
            /\ first[k].run <= crashes
            /\ first[k].run = crashes => Beyond(k) <= seq
        BY <1>2, <3>2 DEF Numbered
      <4>2. crashes' = crashes /\ first'[k] = first[k]
        BY <1>4, <1>5, <4>1
      <4>3. Beyond(k)' = Beyond(k) /\ Beyond(k) \in Nat
        BY <1>8, <4>1
      <4>4. seq' = seq + Len(durable) + 1
        BY <1>5
      <4>5. Beyond(k) <= seq => Beyond(k)' <= seq'
        <5> HIDE DEF durable
        <5> QED
          BY <1>0, <1>1, <4>3, <4>4
      <4> QED
        BY <4>1, <4>2, <4>5
    <3> QED
      BY <3>1, <3>2
  <2>2. ASSUME NEW j \in 1..n, NEW k \in 1..n, j < k, first'[j].run = first'[k].run
        PROVE  Beyond(j)' <= first'[k].seq
    <3>1. j \in 1..Len(requests)
      BY <1>0, <1>2, <2>2
    <3>2. CASE k = n
      BY <1>0, <1>4, <1>8, <2>2, <3>1, <3>2 DEF Numbered
    <3>3. CASE k # n
      <4>1. k \in 1..Len(requests)
        BY <1>2, <3>3
      <4> QED
        BY <1>4, <1>8, <2>2, <3>1, <4>1 DEF Numbered
    <3> QED
      BY <3>2, <3>3
  <2> QED
    BY <1>3, <2>1, <2>2 DEF Numbered
<1>11. LoggedWasSeen'
  <2>1. \A k \in seen : requests'[k] = requests[k] /\ \A i : Line(k, i)' = Line(k, i)
    BY <1>3, <1>4 DEF Typed, Line
  <2> QED
    BY <1>5, <2>1 DEF LoggedWasSeen
<1> QED
  BY <1>7, <1>10, <1>11

\* The backend stores a batch: its lines are those of a delivered one.
LEMMA DeliverNumbers ==
    ASSUME Typed, Numbered, LoggedWasSeen,
           NEW k \in 1..Len(requests), Deliver(k)
    PROVE  Typed' /\ Numbered' /\ LoggedWasSeen'
<1>1. /\ seen' = seen \cup {k}
      /\ logged' = logged \cup {Line(k, i) : i \in 1..(Len(requests[k]) + 1)}
      /\ UNCHANGED <<requests, first, seq, outbox, spool, pc, key, crashes>>
  BY DEF Deliver, client
<1>2. Typed'
  BY <1>1 DEF Typed
<1>3. Numbered'
  BY <1>1 DEF Numbered, Beyond
<1>4. LoggedWasSeen'
  BY <1>1 DEF LoggedWasSeen, Line
<1> QED
  BY <1>2, <1>3, <1>4

\* The other steps of a living process build no batch and log no line.
LEMMA FrameNumbers ==
    ASSUME Typed, Numbered, LoggedWasSeen,
           UNCHANGED <<requests, first, seq, key, crashes, seen, logged>>,
           outbox' \in Seq(Event), spool' \in Seq(Event),
           DOMAIN pc' = Flusher,
           \A g \in Flusher : pc'[g] = "posting" => pc[g] = "posting"
    PROVE  Typed' /\ Numbered' /\ LoggedWasSeen'
<1>1. Typed'
  BY DEF Typed
<1>2. Numbered'
  BY DEF Numbered, Beyond
<1>3. LoggedWasSeen'
  BY DEF LoggedWasSeen, Line
<1> QED
  BY <1>1, <1>2, <1>3

\* A new process has a run id of its own.
LEMMA CrashNumbers ==
    ASSUME Typed, Numbered, LoggedWasSeen, Crash
    PROVE  Typed' /\ Numbered' /\ LoggedWasSeen'
<1>1. /\ crashes' = crashes + 1 /\ seq' = 0 /\ outbox' = <<>>
      /\ pc' = [f \in Flusher |-> "idle"]
      /\ UNCHANGED <<requests, first, spool, key, seen, logged>>
  BY DEF Crash, backend
<1>2. Typed'
  BY <1>1 DEF Typed
<1>3. \A k \in 1..Len(requests) : first[k].run \in Nat /\ first[k].run <= crashes
  BY BatchTypes DEF Numbered
<1>4. Numbered'
  <2>1. \A k \in 1..Len(requests) :
          first[k].run <= crashes + 1 /\ first[k].run # crashes + 1
    BY <1>3 DEF Typed
  <2>2. \A k : Beyond(k)' = Beyond(k)
    BY <1>1 DEF Beyond
  <2>3. \A j, k \in 1..Len(requests) :
          j < k /\ first[j].run = first[k].run => Beyond(j) <= first[k].seq
    BY DEF Numbered
  <2> QED
    BY <1>1, <2>1, <2>2, <2>3 DEF Numbered
<1>5. LoggedWasSeen'
  BY <1>1 DEF LoggedWasSeen, Line
<1> QED
  BY <1>2, <1>4, <1>5

\* Batches are numbered apart and the log holds delivered ones.
THEOREM BatchesAreNumbered == Spec => [](Typed /\ Numbered /\ LoggedWasSeen)
<1>1. Init => Typed /\ Numbered /\ LoggedWasSeen
  BY DEF Init, Typed, Numbered, LoggedWasSeen
<1>2. Typed /\ Numbered /\ LoggedWasSeen /\ [Next]_vars
        => (Typed /\ Numbered /\ LoggedWasSeen)'
  <2> SUFFICES ASSUME Typed, Numbered, LoggedWasSeen, [Next]_vars
               PROVE  Typed' /\ Numbered' /\ LoggedWasSeen'
    OBVIOUS
  <2>0. /\ outbox \in Seq(Event) /\ spool \in Seq(Event)
        /\ DOMAIN pc = Flusher
    BY DEF Typed
  <2>1. ASSUME NEW e \in Event, Emit(e) PROVE Typed' /\ Numbered' /\ LoggedWasSeen'
    <3>1. /\ outbox' \in Seq(Event)
          /\ UNCHANGED <<requests, first, seq, key, crashes, seen, logged, spool, pc>>
      BY <2>0, <2>1 DEF Emit, backend
    <3> QED
      BY <2>0, <3>1, FrameNumbers
  <2>2. ASSUME NEW f \in Flusher,
               \/ Answered(f) \/ RemoveSpool(f) \/ RemoveFails(f)
               \/ Return(f) \/ Cancel(f) \/ Consumed(f)
        PROVE  Typed' /\ Numbered' /\ LoggedWasSeen'
    <3>1. /\ UNCHANGED <<requests, first, seq, key, crashes, seen, logged, outbox>>
          /\ spool' = spool \/ spool' = <<>>
      BY <2>2 DEF Answered, RemoveSpool, RemoveFails, Return, Cancel, Consumed,
                  backend
    <3>3. spool' \in Seq(Event)
      <4>1. <<>> \in Seq(Event)
        OBVIOUS
      <4> QED
        BY <2>0, <3>1, <4>1
    <3>2. /\ DOMAIN pc' = Flusher
          /\ \A g \in Flusher : pc'[g] = "posting" => pc[g] = "posting"
      BY <2>0, <2>2, OneFlushMoves
         DEF Answered, RemoveSpool, RemoveFails, Return, Cancel, Consumed
    <3> QED
      BY <2>0, <3>1, <3>2, <3>3, FrameNumbers
  <2>3. ASSUME NEW f \in Flusher, Retry(f) PROVE Typed' /\ Numbered' /\ LoggedWasSeen'
    BY <2>0, <2>3, FrameNumbers DEF Retry, backend
  <2>4. ASSUME NEW f \in Flusher, GiveUp(f) PROVE Typed' /\ Numbered' /\ LoggedWasSeen'
    <3>1. Batch(f) \in Seq(Event)
      <4>1. key[f] \in 1..Len(requests) /\ requests \in Seq(Seq(Event))
        BY <2>4 DEF GiveUp, Typed
      <4> QED
        BY <4>1 DEF Batch
    <3>2. outbox' \in Seq(Event) /\ spool' \in Seq(Event)
      <4>1. Batch(f) \o outbox \in Seq(Event)
        BY <2>0, <3>1
      <4>2. /\ spool' = Batch(f) \/ spool' = spool
            /\ outbox' = outbox \/ outbox' = Batch(f) \o outbox
        BY <2>4 DEF GiveUp, Hold
      <4> QED
        BY <2>0, <3>1, <4>1, <4>2
    <3>3. UNCHANGED <<requests, first, seq, key, crashes, seen, logged>>
      BY <2>4 DEF GiveUp, backend
    <3>4. /\ DOMAIN pc' = Flusher
          /\ \A g \in Flusher : pc'[g] = "posting" => pc[g] = "posting"
      BY <2>0, <2>4, OneFlushMoves DEF GiveUp
    <3> QED
      BY <3>2, <3>3, <3>4, FrameNumbers
  <2>5. CASE UNCHANGED vars
    BY <2>0, <2>5, FrameNumbers DEF vars, client, backend
  <2> QED
    BY <2>1, <2>2, <2>3, <2>4, <2>5, FlushNumbers, DeliverNumbers, CrashNumbers
       DEF Next, Continue
<1> QED
  BY <1>1, <1>2, PTL DEF Spec

\* The backend never takes a line for another one's duplicate, for any number
\* of tasks, restarts, retries and late deliveries (client.py:69-75, 263-268).
THEOREM LinesStayApart == Spec => []LinesAreTheirOwn
<1>1. Typed /\ Numbered /\ LoggedWasSeen => LinesAreTheirOwn
  BY OwnLines
<1> QED
  BY <1>1, BatchesAreNumbered, PTL

-----------------------------------------------------------------------------
(***************************************************************************)
(* Types, and the evidence behind a /consumed call.                        *)
(***************************************************************************)
\* A flush past the answer has seen it for its own key.
AnswerSeen == \A f \in Flusher : pc[f] = "answered" => key[f] \in answered

\* Answers are not forgotten, and a flush has its key until it begins again.
LEMMA AnswerIsSeen == Spec => []AnswerSeen
<1>1. Init => AnswerSeen
  BY DEF Init, AnswerSeen
<1>2. Typed /\ AnswerSeen /\ [Next]_vars => AnswerSeen'
  <2> SUFFICES ASSUME DOMAIN pc = Flusher, AnswerSeen, [Next]_vars,
                      key \in [Flusher -> Int]
               PROVE  AnswerSeen'
    BY DEF Typed
  <2>1. ASSUME NEW f \in Flusher, Flush(f) PROVE AnswerSeen'
    <3>1. /\ pc'[f] = "posting" /\ answered' = answered
          /\ \A g \in Flusher : g # f => pc'[g] = pc[g] /\ key'[g] = key[g]
      BY <2>1, OneFlushMoves DEF Flush
    <3> QED
      BY <3>1 DEF AnswerSeen
  <2>2. ASSUME NEW f \in Flusher, Answered(f) PROVE AnswerSeen'
    <3>1. /\ \A g \in Flusher : g # f => pc'[g] = pc[g]
          /\ answered' = answered \cup {key[f]} /\ key' = key
      BY <2>2, OneFlushMoves DEF Answered
    <3> QED
      BY <3>1 DEF AnswerSeen
  <2>3. ASSUME UNCHANGED <<key, answered>>,
               \A g \in Flusher : pc'[g] = "answered" => pc[g] = "answered"
        PROVE  AnswerSeen'
    BY <2>3 DEF AnswerSeen
  <2>4. ASSUME NEW f \in Flusher,
               \/ RemoveSpool(f) \/ RemoveFails(f) \/ GiveUp(f)
               \/ Return(f) \/ Cancel(f)
        PROVE  AnswerSeen'
    <3>1. \A g \in Flusher : pc'[g] = "answered" => pc[g] = "answered"
      BY <2>4, OneFlushMoves DEF RemoveSpool, RemoveFails, GiveUp, Return, Cancel
    <3>2. UNCHANGED <<key, answered>>
      BY <2>4 DEF RemoveSpool, RemoveFails, GiveUp, Return, Cancel
    <3> QED
      BY <2>3, <3>1, <3>2
  <2>5. CASE Crash
    BY <2>3, <2>5 DEF Crash
  <2>6. ASSUME NEW f \in Flusher, Retry(f) \/ Consumed(f) PROVE AnswerSeen'
    BY <2>3, <2>6 DEF Retry, Consumed
  <2>7. ASSUME NEW e, Emit(e) PROVE AnswerSeen'
    BY <2>3, <2>7 DEF Emit
  <2>8. ASSUME NEW k, Deliver(k) PROVE AnswerSeen'
    BY <2>3, <2>8 DEF Deliver, client
  <2>9. CASE UNCHANGED vars
    BY <2>3, <2>9 DEF vars, client
  <2> QED
    BY <2>1, <2>2, <2>4, <2>5, <2>6, <2>7, <2>8, <2>9 DEF Next, Continue
<1> QED
  BY <1>1, <1>2, BatchesAreNumbered, PTL DEF Spec

\* A batch none of whose lines is in the log is stored as it is.
LEMMA AcceptedWhole ==
    ASSUME Typed, LinesAreTheirOwn, NEW k \in (1..Len(requests)) \ seen
    PROVE  Accepted(k) = requests[k]
<1>1. PICK b \in Seq(Event) : b = requests[k]
  BY DEF Typed
<1>2. PICK n \in Nat : n = Len(b) /\ DOMAIN b = 1..n
  BY <1>1
<1>3. {i \in DOMAIN b : Line(k, i) \notin logged} = 1..n
  BY <1>1, <1>2 DEF LinesAreTheirOwn
<1>4. \A i \in 0..n : Cardinality(1..i) = i
  BY FS_Interval
<1>5. ASSUME NEW j \in 1..n PROVE Nth(1..n, j) = j
  <2>1. ASSUME NEW i \in 1..n PROVE Cardinality({m \in 1..n : m <= i}) = i
    <3>1. PICK S : S = {m \in 1..n : m <= i}
      OBVIOUS
    <3>2. S = 1..i /\ i \in 0..n
      BY <2>1, <3>1
    <3>3. Cardinality(S) = i
      BY <1>4, <3>2
    <3> QED
      BY <3>1, <3>3
  <2> QED
    BY <2>1 DEF Nth
<1>6. Accepted(k) = [j \in 1..n |-> b[Nth(1..n, j)]]
  <2>1. Cardinality(1..n) = n
    BY <1>4
  <2> QED
    BY <1>1, <1>3, <2>1 DEF Accepted
<1>7. [j \in 1..n |-> b[Nth(1..n, j)]] = [j \in 1..n |-> b[j]]
  BY <1>5
<1>8. [j \in 1..n |-> b[j]] = b
  BY <1>2
<1> QED
  BY <1>1, <1>6, <1>7, <1>8

\* The end of a sequence.
LEMMA EndOfSeq ==
    ASSUME NEW S, NEW s \in Seq(S), NEW n \in DOMAIN s
    PROVE  /\ SubSeq(s, n + 1, Len(s)) \in Seq(S)
           /\ Members(SubSeq(s, n + 1, Len(s))) \subseteq Members(s)
<1>1. n \in 1..Len(s) /\ Len(s) \in Nat /\ DOMAIN s = 1..Len(s)
  OBVIOUS
<1>2. PICK t : t = SubSeq(s, n + 1, Len(s))
  OBVIOUS
<1>3. /\ t \in Seq(S) /\ Len(t) = Len(s) - n
      /\ \A i \in 1..Len(t) : t[i] = s[n + i]
  BY <1>1, <1>2
<1>4. Members(t) \subseteq Members(s)
  <2> SUFFICES ASSUME NEW i \in DOMAIN t PROVE \E j \in DOMAIN s : t[i] = s[j]
    BY DEF Members
  <2>1. i \in 1..Len(t) /\ Len(t) \in Nat /\ n + i \in DOMAIN s
    BY <1>1, <1>3
  <2> QED
    BY <1>3, <2>1
<1> QED
  BY <1>2, <1>3, <1>4

\* What Consumed leaves to acknowledge, and what it clears.
LEMMA ConsumedTypes ==
    ASSUME toAck \in [Flusher -> Seq(Event)], NEW f \in Flusher, Consumed(f)
    PROVE  /\ toAck' \in [Flusher -> Seq(Event)]
           /\ \A g \in Flusher : Members(toAck'[g]) \subseteq Members(toAck[g])
           /\ cleared' \subseteq cleared \cup Members(toAck[f])
<1>1. PICK n \in DOMAIN toAck[f] :
        /\ cleared' \in {cleared, cleared \cup {toAck[f][n]}}
        /\ toAck' = [toAck EXCEPT ![f] = SubSeq(@, n + 1, Len(@))]
  BY DEF Consumed
<1>2. PICK t : t = SubSeq(toAck[f], n + 1, Len(toAck[f]))
  OBVIOUS
<1>3. t \in Seq(Event) /\ Members(t) \subseteq Members(toAck[f])
  BY <1>2, EndOfSeq
<1>4. toAck' = [toAck EXCEPT ![f] = t]
  BY <1>1, <1>2
<1> QED
  BY <1>1, <1>3, <1>4 DEF Members

\* What a flush does to requests, numbers and keys.
LEMMA FlushTypes ==
    ASSUME TypeOK, NEW f \in Flusher, Flush(f)
    PROVE  /\ requests' \in Seq(Seq(Event)) /\ Len(requests') = Len(requests) + 1
           /\ first' \in Seq([run : Nat, seq : Nat])
           /\ seq' \in Nat
           /\ key' \in [Flusher -> 0..Len(requests')]
           /\ attempt' \in [Flusher -> 0..(Attempts - 1)]
           /\ pc' \in [Flusher -> {"idle", "posting", "answered", "acking", "cancelled"}]
<1> USE DEF TypeOK
<1>0. Attempts \in Nat \ {0} /\ crashes \in Nat
  BY TelemetryConfig, SettingType
<1>1. PICK d \in Seq(Event) : d = durable
  <2>1. spool \o outbox \in Seq(Event)
    OBVIOUS
  <2> QED
    BY <2>1 DEF durable
<1>2. requests' = Append(requests, d) /\ seq' = seq + Len(d) + 1
      /\ key' = [key EXCEPT ![f] = Len(requests) + 1]
      /\ attempt' = [attempt EXCEPT ![f] = 0]
      /\ pc' = [pc EXCEPT ![f] = "posting"]
  BY <1>1 DEF Flush
<1>3. requests' \in Seq(Seq(Event)) /\ Len(requests') = Len(requests) + 1
      /\ Len(requests) \in Nat
  BY <1>2
<1>4. first' \in Seq([run : Nat, seq : Nat])
  <2>1. PICK r \in [run : Nat, seq : Nat] : r = [run |-> crashes, seq |-> seq]
    BY <1>0
  <2>2. first' = Append(first, r)
    BY <2>1 DEF Flush, run_id
  <2> QED
    BY <2>2
<1>5. key' \in [Flusher -> 0..Len(requests')]
  <2>1. 0..Len(requests) \subseteq 0..Len(requests')
        /\ Len(requests) + 1 \in 0..Len(requests')
    BY <1>3
  <2> QED
    BY <1>2, <2>1
<1>6. attempt' \in [Flusher -> 0..(Attempts - 1)]
  <2>1. 0 \in 0..(Attempts - 1)
    BY <1>0
  <2> QED
    BY <1>2, <2>1
<1>7. seq' \in Nat
  BY <1>1, <1>2
<1> QED
  BY <1>2, <1>3, <1>4, <1>5, <1>6, <1>7

\* The numbers of a batch's lines.
LEMMA LineType ==
    ASSUME Typed, NEW k \in 1..Len(requests), NEW i \in Nat \ {0}
    PROVE  Line(k, i) \in [run : Nat, seq : Nat]
<1>1. PICK r \in [run : Nat, seq : Nat] : r = first[k]
  BY BatchTypes
<1>2. r.seq + i - 1 \in Nat
  BY <1>1
<1>3. [r EXCEPT !.seq = r.seq + i - 1] \in [run : Nat, seq : Nat]
  BY <1>1, <1>2
<1> QED
  BY <1>1, <1>3 DEF Line

\* Every step keeps the types.
LEMMA TypesStep ==
    ASSUME TypeOK, Typed, LinesAreTheirOwn, AnswerSeen, [Next]_vars
    PROVE  TypeOK'
<1>0. /\ setting.maxFail \in Nat /\ setting.maxCrash \in Nat
      /\ Attempts \in Nat \ {0} /\ Ackable \subseteq Event
      /\ Len(requests) \in Nat
  BY TelemetryConfig, SettingType DEF TypeOK
<1>1. ASSUME NEW e \in Event, Emit(e) PROVE TypeOK'
  <2>1. emitted' \in Seq(Event) /\ outbox' \in Seq(Event)
    BY <1>1 DEF Emit, TypeOK
  <2> QED
    BY <1>1, <2>1 DEF Emit, TypeOK, backend
<1>2. ASSUME NEW f \in Flusher, Flush(f) PROVE TypeOK'
  <2>1. outbox' \in Seq(Event)
    BY <1>2 DEF Flush
  <2>2. UNCHANGED <<setting, emitted, spool, toAck, answered, cut, stored, logged,
                    seen, cleared, fails, crashes>>
    BY <1>2 DEF Flush, backend
  <2>3. seen' \subseteq 1..Len(requests')
    <3>1. Len(requests') = Len(requests) + 1
      BY <1>2, FlushTypes
    <3>2. seen' = seen /\ seen \subseteq 1..Len(requests)
      BY <2>2 DEF TypeOK
    <3>3. 1..Len(requests) \subseteq 1..Len(requests')
      BY <1>0, <3>1
    <3> QED
      BY <3>2, <3>3
  <2> QED
    BY <1>2, <2>1, <2>2, <2>3, FlushTypes DEF TypeOK
<1>3. ASSUME NEW k \in 1..Len(requests), Deliver(k) PROVE TypeOK'
  <2>1. stored' \in Seq(Event)
    <3>1. requests[k] \in Seq(Event)
      BY DEF TypeOK
    <3>2. stored' = stored \o requests[k]
      BY <1>3, AcceptedWhole DEF Deliver
    <3> QED
      BY <3>1, <3>2 DEF TypeOK
  <2>2. logged' \subseteq [run : Nat, seq : Nat]
    <3>1. Len(requests[k]) \in Nat
      BY BatchTypes
    <3>2. \A i \in 1..(Len(requests[k]) + 1) : Line(k, i) \in [run : Nat, seq : Nat]
      BY <3>1, LineType
    <3> QED
      BY <1>3, <3>2 DEF Deliver, TypeOK
  <2>3. seen' = seen \cup {k}
        /\ UNCHANGED <<posted, emitted, client, spool, answers, cleared, counts>>
    BY <1>3 DEF Deliver
  <2> QED
    BY <2>1, <2>2, <2>3 DEF client, TypeOK
<1>4. ASSUME NEW f \in Flusher, Answered(f) PROVE TypeOK'
  BY <1>4 DEF Answered, TypeOK, backend
<1>5. ASSUME NEW f \in Flusher, Retry(f) PROVE TypeOK'
  <2>1. attempt' \in [Flusher -> 0..(Attempts - 1)]
    <3>1. attempt[f] \in Nat /\ attempt[f] + 1 < Attempts
      BY <1>0, <1>5 DEF Retry, TypeOK
    <3>2. attempt[f] + 1 \in 0..(Attempts - 1)
      BY <1>0, <3>1
    <3> QED
      BY <1>5, <3>2 DEF Retry, TypeOK
  <2>2. fails' \in 0..setting.maxFail
    BY <1>0, <1>5 DEF Retry, TypeOK
  <2> QED
    BY <1>5, <2>1, <2>2 DEF Retry, TypeOK, backend
<1>6. ASSUME NEW f \in Flusher, GiveUp(f) PROVE TypeOK'
  <2>1. Batch(f) \in Seq(Event)
    <3>1. key[f] \in 1..Len(requests)
      BY <1>6 DEF GiveUp, Typed
    <3> QED
      BY <3>1 DEF Batch, TypeOK
  <2>2. outbox' \in Seq(Event) /\ spool' \in Seq(Event)
    <3>1. Batch(f) \o outbox \in Seq(Event)
      BY <2>1 DEF TypeOK
    <3> QED
      BY <1>6, <2>1, <3>1 DEF GiveUp, Hold, TypeOK
  <2>3. fails' \in 0..setting.maxFail
    BY <1>0, <1>6 DEF GiveUp, TypeOK
  <2> QED
    BY <1>6, <2>2, <2>3 DEF GiveUp, TypeOK, backend
<1>7. ASSUME NEW f \in Flusher, Consumed(f) PROVE TypeOK'
  <2>1. /\ toAck' \in [Flusher -> Seq(Event)]
        /\ cleared' \subseteq cleared \cup Members(toAck[f])
    BY <1>7, ConsumedTypes DEF TypeOK
  <2>2. Members(toAck[f]) \subseteq Event
    BY DEF TypeOK, Members
  <2>3. UNCHANGED <<posted, emitted, outbox, spool, pc, key, attempt, answers,
                    stored, logged, seen, counts>>
    BY <1>7 DEF Consumed
  <2> QED
    BY <2>1, <2>2, <2>3 DEF TypeOK
<1>8. ASSUME NEW f \in Flusher, Return(f) PROVE TypeOK'
  <2>1. <<>> \in Seq(Event)
    OBVIOUS
  <2>2. /\ toAck' \in [Flusher -> Seq(Event)]
        /\ pc' \in [Flusher -> {"idle", "posting", "answered", "acking", "cancelled"}]
    BY <1>8, <2>1 DEF Return, TypeOK
  <2> QED
    BY <1>8, <2>2 DEF Return, TypeOK, backend
<1>9. ASSUME NEW f \in Flusher, Cancel(f) PROVE TypeOK'
  <2>1. <<>> \in Seq(Event)
    OBVIOUS
  <2>2. /\ toAck' \in [Flusher -> Seq(Event)]
        /\ pc' \in [Flusher -> {"idle", "posting", "answered", "acking", "cancelled"}]
    BY <1>9, <2>1 DEF Cancel, TypeOK
  <2>3. cut' \subseteq answered
    BY <1>9 DEF Cancel, CutIn, AnswerSeen, TypeOK
  <2> QED
    BY <1>9, <2>2, <2>3 DEF Cancel, TypeOK, backend
<1>10. CASE Crash
  <2>1. crashes' \in 0..setting.maxCrash
    BY <1>0, <1>10 DEF Crash, TypeOK
  <2>2. cut' \subseteq answered
    BY <1>10 DEF Crash, CutIn, AnswerSeen, TypeOK
  <2> QED
    BY <1>10, <2>1, <2>2 DEF Crash, TypeOK, backend
<1>11. CASE UNCHANGED vars
  BY <1>11 DEF vars, client, backend, TypeOK
<1>12. ASSUME NEW f \in Flusher, RemoveSpool(f) PROVE TypeOK'
  <2>1. key[f] \in 1..Len(requests)
    BY <1>12 DEF RemoveSpool, AnswerSeen, TypeOK
  <2>2. Batch(f) \in Seq(Event) /\ <<>> \in Seq(Event)
    BY <2>1 DEF Batch, TypeOK
  <2>3. /\ toAck' \in [Flusher -> Seq(Event)] /\ spool' \in Seq(Event)
        /\ pc' \in [Flusher -> {"idle", "posting", "answered", "acking", "cancelled"}]
    BY <1>12, <2>2 DEF RemoveSpool, TypeOK
  <2> QED
    BY <1>12, <2>3 DEF RemoveSpool, TypeOK, backend
<1>13. ASSUME NEW f \in Flusher, RemoveFails(f) PROVE TypeOK'
  <2>1. cut' \subseteq answered
    BY <1>13 DEF RemoveFails, AnswerSeen, TypeOK
  <2>2. fails' \in 0..setting.maxFail
    BY <1>0, <1>13 DEF RemoveFails, TypeOK
  <2> QED
    BY <1>13, <2>1, <2>2 DEF RemoveFails, TypeOK, backend
<1> QED
  BY <1>1, <1>2, <1>3, <1>4, <1>5, <1>6, <1>7, <1>8, <1>9, <1>10, <1>11, <1>12, <1>13
     DEF Next, Continue

\* The client and the backend keep their types, for any number of tasks,
\* attempts, failures and process deaths.
THEOREM TypeCorrect == Spec => []TypeOK
<1>1. ASSUME Init PROVE TypeOK
  <2>1. setting.maxFail \in Nat /\ setting.maxCrash \in Nat /\ Attempts \in Nat \ {0}
    BY <1>1, TelemetryConfig, SettingType DEF Init
  <2> QED
    BY <1>1, <2>1 DEF Init, TypeOK
<1> QED
  BY <1>1, BatchesAreNumbered, LinesStayApart, AnswerIsSeen, TypesStep, PTL DEF Spec

\* Batches are written once, and the backend's log only grows.
LEMMA OnlyGrows ==
    ASSUME TypeOK, Typed, LinesAreTheirOwn, [Next]_vars
    PROVE  /\ \A k \in 1..Len(requests) : requests'[k] = requests[k]
           /\ Members(stored) \subseteq Members(stored')
<1>1. ASSUME NEW f \in Flusher, Flush(f)
      PROVE  \A k \in 1..Len(requests) : requests'[k] = requests[k]
  <2>1. PICK d \in Seq(Event) : d = durable
    <3>1. spool \o outbox \in Seq(Event)
      BY DEF TypeOK
    <3> QED
      BY <3>1 DEF durable
  <2>2. requests' = Append(requests, d)
    BY <1>1, <2>1 DEF Flush
  <2> QED
    BY <2>2 DEF TypeOK
<1>2. ASSUME NEW k \in 1..Len(requests), Deliver(k)
      PROVE  Members(stored) \subseteq Members(stored')
  <2>1. requests[k] \in Seq(Event) /\ stored \in Seq(Event)
    BY DEF TypeOK
  <2>2. stored' = stored \o requests[k]
    BY <1>2, AcceptedWhole DEF Deliver
  <2> QED
    BY <2>1, <2>2, MembersConcat
<1>3. \/ UNCHANGED <<requests, stored>>
      \/ \E f \in Flusher : Flush(f) /\ UNCHANGED stored
      \/ \E k \in 1..Len(requests) : Deliver(k) /\ UNCHANGED requests
  BY DEF Next, Continue, Emit, Flush, Deliver, Answered, RemoveSpool, RemoveFails,
         Retry, GiveUp, Consumed, Return, Cancel, Crash, vars, backend
<1> QED
  BY <1>1, <1>2, <1>3

\* What the backend took it stored, and a flush acknowledges what was stored.
Evidence ==
    /\ \A k \in seen : Members(requests[k]) \subseteq Members(stored)
    /\ \A f \in Flusher : Members(toAck[f]) \subseteq Members(stored)
    /\ cleared \subseteq Members(stored)

\* Every step keeps the evidence.
LEMMA EvidenceStep ==
    ASSUME TypeOK, Typed, LinesAreTheirOwn, AnswerSeen, Evidence, [Next]_vars
    PROVE  Evidence'
<1>0. /\ \A k \in 1..Len(requests) : requests'[k] = requests[k]
      /\ Members(stored) \subseteq Members(stored')
      /\ seen \subseteq 1..Len(requests)
  <2>1. seen \subseteq 1..Len(requests)
    BY DEF TypeOK
  <2> QED
    BY <2>1, OnlyGrows
<1>1. ASSUME NEW k \in seen PROVE Members(requests'[k]) \subseteq Members(stored')
  BY <1>0 DEF Evidence
<1>2. Members(<<>>) = {}
  BY DEF Members
<1>3. ASSUME UNCHANGED seen,
             \A f \in Flusher : \/ Members(toAck'[f]) \subseteq Members(toAck[f])
                                \/ Members(toAck'[f]) \subseteq Members(stored),
             \/ cleared' \subseteq cleared
             \/ \E f \in Flusher : cleared' \subseteq cleared \cup Members(toAck[f])
      PROVE  Evidence'
  <2>1. \A f \in Flusher : Members(toAck'[f]) \subseteq Members(stored')
    BY <1>0, <1>3 DEF Evidence
  <2>2. cleared' \subseteq Members(stored')
    BY <1>0, <1>3 DEF Evidence
  <2> QED
    BY <1>1, <1>3, <2>1, <2>2 DEF Evidence
<1>4. ASSUME NEW f \in Flusher, RemoveSpool(f) PROVE Evidence'
  <2>1. Members(Batch(f)) \subseteq Members(stored)
    BY <1>4 DEF RemoveSpool, Batch, Evidence, AnswerSeen, TypeOK
  <2>2. UNCHANGED <<seen, cleared>> /\ toAck' = [toAck EXCEPT ![f] = Batch(f)]
    BY <1>4 DEF RemoveSpool, backend
  <2>3. \A g \in Flusher : \/ Members(toAck'[g]) \subseteq Members(toAck[g])
                           \/ Members(toAck'[g]) \subseteq Members(stored)
    BY <2>1, <2>2 DEF TypeOK
  <2> QED
    BY <1>3, <2>2, <2>3
<1>5. ASSUME NEW f \in Flusher, Consumed(f) PROVE Evidence'
  <2>1. /\ \A g \in Flusher : Members(toAck'[g]) \subseteq Members(toAck[g])
        /\ cleared' \subseteq cleared \cup Members(toAck[f])
    BY <1>5, ConsumedTypes DEF TypeOK
  <2>2. UNCHANGED seen
    BY <1>5 DEF Consumed
  <2> QED
    BY <1>3, <2>1, <2>2
<1>6. ASSUME NEW k \in 1..Len(requests), Deliver(k) PROVE Evidence'
  <2>1. requests[k] \in Seq(Event) /\ stored \in Seq(Event)
    BY DEF TypeOK
  <2>2. /\ stored' = stored \o requests[k] /\ seen' = seen \cup {k}
        /\ UNCHANGED <<toAck, cleared, requests>>
    BY <1>6, AcceptedWhole DEF Deliver, client
  <2>3. Members(requests[k]) \subseteq Members(stored')
    BY <2>1, <2>2, MembersConcat
  <2> QED
    BY <1>0, <1>1, <2>2, <2>3 DEF Evidence
<1>7. CASE /\ UNCHANGED <<seen, cleared>>
           /\ \A f \in Flusher : toAck'[f] = toAck[f] \/ toAck'[f] = <<>>
  BY <1>2, <1>3, <1>7
<1>8. \/ \E f \in Flusher : RemoveSpool(f) \/ Consumed(f)
      \/ \E k \in 1..Len(requests) : Deliver(k)
      \/ /\ UNCHANGED <<seen, cleared>>
         /\ \A f \in Flusher : toAck'[f] = toAck[f] \/ toAck'[f] = <<>>
  <2>1. ASSUME NEW f \in Flusher, Return(f) \/ Cancel(f)
        PROVE  /\ UNCHANGED <<seen, cleared>>
               /\ \A g \in Flusher : toAck'[g] = toAck[g] \/ toAck'[g] = <<>>
    BY <2>1 DEF Return, Cancel, backend, TypeOK
  <2>2. ASSUME Crash
        PROVE  /\ UNCHANGED <<seen, cleared>>
               /\ \A g \in Flusher : toAck'[g] = toAck[g] \/ toAck'[g] = <<>>
    BY <2>2 DEF Crash, backend
  <2>3. CASE UNCHANGED vars
    BY <2>3 DEF vars, client, backend
  <2> QED
    BY <2>1, <2>2, <2>3
       DEF Next, Continue, Emit, Flush, Answered, RemoveFails, Retry, GiveUp,
           vars, backend
<1> QED
  BY <1>4, <1>5, <1>6, <1>7, <1>8

\* The evidence is there at every step.
LEMMA EvidenceAlways == Spec => []Evidence
<1>1. Init => Evidence
  BY DEF Init, Evidence, Members
<1> QED
  BY <1>1, EvidenceStep, TypeCorrect, BatchesAreNumbered, LinesStayApart,
     AnswerIsSeen, PTL DEF Spec

\* The backend is asked to clear a one-shot only when it has the evidence that
\* it fired, for any number of tasks, lost answers and restarts
\* (client.py:141-153).
THEOREM ClearsOnEvidence == Spec => []ClearedHasEvidence
<1>1. Evidence => ClearedHasEvidence
  BY DEF Evidence, ClearedHasEvidence
<1> QED
  BY <1>1, EvidenceAlways, PTL

-----------------------------------------------------------------------------
(***************************************************************************)
(* Batches that share nothing.  With a spool file one task flushes; then   *)
(* the events of a batch that was answered, or may yet be, are in no later *)
(* batch, nor in the outbox or the spool file, unless its flush ended      *)
(* between the answer and the removal of the file.                         *)
(***************************************************************************)
\* The spool file is written by one task alone.
SpoolUnshared == setting.spooled => \A f, g \in setting.tasks : f = g

\* The batches that were answered, and those that still may be; but for those a
\* spool file may bring back.
Open(j) ==
    \/ j \in answered /\ ~(setting.spooled /\ j \in cut)
    \/ \E f \in Flusher : pc[f] = "posting" /\ key[f] = j

Disjoint(s, t) == Members(s) \cap Members(t) = {}

\* Batches and buffers hold what was reported.
Reported ==
    /\ Members(outbox) \subseteq Members(emitted)
    /\ Members(spool) \subseteq Members(emitted)
    /\ \A k \in 1..Len(requests) : Members(requests[k]) \subseteq Members(emitted)

\* A flush that posts answers for a key of its own and for the spool file, up
\* to the removal of the file.
Once ==
    /\ SpoolUnshared
    /\ ~setting.spooled => spool = <<>>
    /\ \A f \in Flusher : pc[f] \in {"posting", "answered"} =>
          /\ f \in setting.tasks
          /\ key[f] \in 1..Len(requests)
          /\ Members(spool) \subseteq Members(Batch(f))
    /\ \A f \in Flusher : pc[f] = "posting" => key[f] \notin answered
    /\ \A f, g \in Flusher : key[f] # 0 /\ key[f] = key[g] => f = g

\* A flush has still to remove the spool file, which may hold batch j.
Removing(j) == \E f \in Flusher : pc[f] = "answered" /\ key[f] = j

\* An open batch shares nothing with a later one or with what the next takes.
Apart ==
    /\ \A j, k \in 1..Len(requests) :
          j < k /\ Open(j) => Disjoint(requests[j], requests[k])
    /\ \A j \in 1..Len(requests) : Open(j) => Disjoint(requests[j], outbox)
    /\ \A j \in answered : Open(j) /\ ~Removing(j) => Disjoint(requests[j], spool)

Lone == Reported /\ Once /\ Apart

\* The batch a flush builds.
LEMMA FlushBuilds ==
    ASSUME TypeOK, NEW f \in Flusher, Flush(f)
    PROVE  /\ Len(requests) \in Nat /\ Len(requests') = Len(requests) + 1
           /\ \A k \in 1..Len(requests) : requests'[k] = requests[k]
           /\ Members(requests'[Len(requests')]) = Members(spool) \cup Members(outbox)
           /\ Members(outbox') = {}
           /\ pc[f] = "idle" /\ pc'[f] = "posting" /\ key'[f] = Len(requests')
           /\ \A g \in Flusher : g # f => pc'[g] = pc[g] /\ key'[g] = key[g]
           /\ f \in setting.tasks
           /\ UNCHANGED <<setting, emitted, spool, answered, cut>>
<1>1. PICK d \in Seq(Event) : d = durable /\ Members(d) = Members(spool) \cup Members(outbox)
  <2>1. spool \o outbox \in Seq(Event)
    BY DEF TypeOK
  <2>2. Members(spool \o outbox) = Members(spool) \cup Members(outbox)
    BY MembersConcat DEF TypeOK
  <2> QED
    BY <2>1, <2>2 DEF durable
<1>2. requests' = Append(requests, d) /\ outbox' = <<>>
  BY <1>1 DEF Flush
<1>3. /\ Len(requests) \in Nat /\ Len(requests') = Len(requests) + 1
      /\ \A k \in 1..Len(requests) : requests'[k] = requests[k]
      /\ requests'[Len(requests')] = d
  BY <1>2 DEF TypeOK
<1>4. Members(outbox') = {}
  BY <1>2 DEF Members
<1>5. /\ pc[f] = "idle" /\ pc'[f] = "posting" /\ key'[f] = Len(requests')
      /\ \A g \in Flusher : g # f => pc'[g] = pc[g] /\ key'[g] = key[g]
  BY <1>3 DEF Flush, TypeOK
<1>6. f \in setting.tasks /\ UNCHANGED <<setting, emitted, spool, answered, cut>>
  BY DEF Flush
<1> QED
  BY <1>1, <1>3, <1>4, <1>5, <1>6

\* A flush keeps what holds of the batches: its own begins as the last one.
LEMMA FlushLone ==
    ASSUME TypeOK, Lone, NEW f \in Flusher, Flush(f)
    PROVE  Lone'
<1> DEFINE n == Len(requests')
<1>0. /\ Len(requests) \in Nat /\ n = Len(requests) + 1
      /\ \A k \in 1..Len(requests) : requests'[k] = requests[k]
      /\ Members(requests'[n]) = Members(spool) \cup Members(outbox)
      /\ Members(outbox') = {}
      /\ pc[f] = "idle" /\ pc'[f] = "posting" /\ key'[f] = n
      /\ \A g \in Flusher : g # f => pc'[g] = pc[g] /\ key'[g] = key[g]
      /\ f \in setting.tasks
      /\ UNCHANGED <<setting, emitted, spool, answered, cut>>
  BY FlushBuilds
<1>1. /\ \A k \in 1..n : k = n \/ k \in 1..Len(requests)
      /\ n \in 1..n /\ 1..Len(requests) \subseteq 1..n
      /\ \A k \in 1..Len(requests) : k < n
  BY <1>0
<1>2. /\ answered \subseteq 1..Len(requests)
      /\ \A g \in Flusher : key[g] \in 0..Len(requests)
  BY DEF TypeOK
<1> HIDE DEF n
<1>3. Reported'
  <2>1. \A k \in 1..n : Members(requests'[k]) \subseteq Members(emitted)
    BY <1>0, <1>1 DEF Lone, Reported
  <2> QED
    BY <1>0, <2>1 DEF Lone, Reported, n
<1>4. Once'
  <2>1. SpoolUnshared' /\ (~setting'.spooled => spool' = <<>>)
    BY <1>0 DEF Lone, Once, SpoolUnshared
  <2>2. ASSUME NEW g \in Flusher, pc'[g] \in {"posting", "answered"}
        PROVE  /\ g \in setting.tasks
               /\ key'[g] \in 1..n
               /\ pc'[g] = "posting" => key'[g] \notin answered
               /\ Members(spool) \subseteq Members(requests'[key'[g]])
    <3>1. CASE g = f
      BY <1>0, <1>1, <1>2, <3>1
    <3>2. CASE g # f
      BY <1>0, <1>1, <2>2, <3>2 DEF Lone, Once, Batch
    <3> QED
      BY <3>1, <3>2
  <2>3. ASSUME NEW g \in Flusher, NEW h \in Flusher, key'[g] # 0, key'[g] = key'[h]
        PROVE  g = h
    <3>1. \A x \in Flusher : x # f => key'[x] # n
      BY <1>0, <1>2
    <3> QED
      BY <1>0, <2>3, <3>1 DEF Lone, Once
  <2> QED
    BY <1>0, <2>1, <2>2, <2>3 DEF Once, n, Batch
<1>5. ASSUME NEW j \in 1..Len(requests), Open(j)'
      PROVE  Open(j) /\ Disjoint(requests[j], spool) /\ Disjoint(requests[j], outbox)
  <2>1. Open(j)
    BY <1>0, <1>1, <1>5 DEF Open
  <2>2. Disjoint(requests[j], spool)
    <3>1. CASE j \in answered /\ ~Removing(j)
      BY <2>1, <3>1 DEF Lone, Apart
    <3>2. CASE ~(j \in answered /\ ~Removing(j))
      <4>1. PICK g \in Flusher : pc[g] \in {"posting", "answered"} /\ key[g] = j
        BY <2>1, <3>2 DEF Open, Removing
      <4>2. g # f /\ g \in setting.tasks
        BY <1>0, <4>1 DEF Lone, Once
      <4>3. ~setting.spooled
        BY <1>0, <4>2 DEF Lone, Once, SpoolUnshared
      <4> QED
        BY <4>3 DEF Lone, Once, Disjoint, Members
    <3> QED
      BY <3>1, <3>2
  <2> QED
    BY <2>1, <2>2 DEF Lone, Apart
<1>6. Apart'
  <2>1. ASSUME NEW j \in 1..n, NEW k \in 1..n, j < k, Open(j)'
        PROVE  Disjoint(requests'[j], requests'[k])
    <3>1. j \in 1..Len(requests)
      BY <1>0, <1>1, <2>1
    <3>2. CASE k = n
      BY <1>0, <1>5, <2>1, <3>1, <3>2 DEF Disjoint
    <3>3. CASE k \in 1..Len(requests)
      BY <1>0, <1>5, <2>1, <3>1, <3>3 DEF Lone, Apart
    <3> QED
      BY <1>1, <3>2, <3>3
  <2>2. \A j \in 1..n : Disjoint(requests'[j], outbox')
    BY <1>0 DEF Disjoint
  <2>3. \A j \in answered : Open(j)' => Disjoint(requests'[j], spool)
    BY <1>0, <1>2, <1>5
  <2> QED
    BY <1>0, <2>1, <2>2, <2>3 DEF Apart, n
<1> QED
  BY <1>3, <1>4, <1>6 DEF Lone

\* A report is new.
LEMMA EmitLone ==
    ASSUME TypeOK, Lone, NEW e \in Event, Emit(e)
    PROVE  Lone'
<1>1. /\ Members(emitted') = Members(emitted) \cup {e}
      /\ Members(outbox') = Members(outbox) \cup {e}
      /\ e \notin Members(emitted)
  BY MembersAppend DEF Emit, TypeOK
<1>2. UNCHANGED <<setting, requests, spool, pc, key, answered, cut>>
  BY DEF Emit
<1>3. Reported'
  BY <1>1, <1>2 DEF Lone, Reported
<1>4. Once'
  BY <1>2 DEF Lone, Once, SpoolUnshared, Batch
<1>5. \A j : Open(j)' = Open(j) /\ Removing(j)' = Removing(j)
  BY <1>2 DEF Open, Removing
<1>6. ASSUME NEW j \in 1..Len(requests), Open(j) PROVE Disjoint(requests[j], outbox')
  BY <1>1, <1>6 DEF Lone, Apart, Reported, Disjoint
<1>7. Apart'
  BY <1>2, <1>5, <1>6 DEF Lone, Apart, Disjoint
<1> QED
  BY <1>3, <1>4, <1>7 DEF Lone

\* An answered batch stays open.
LEMMA AnsweredLone ==
    ASSUME TypeOK, Lone, NEW f \in Flusher, Answered(f)
    PROVE  Lone'
<1>1. /\ pc[f] = "posting" /\ pc'[f] = "answered"
      /\ \A g \in Flusher : g # f => pc'[g] = pc[g]
      /\ answered' = answered \cup {key[f]}
      /\ UNCHANGED <<setting, requests, emitted, outbox, spool, key, cut>>
  BY DEF Answered, TypeOK
<1>2. Reported'
  BY <1>1 DEF Lone, Reported
<1>3. Once'
  <2>1. \A g \in Flusher : pc'[g] = "posting" => g # f /\ key[g] # key[f]
    BY <1>1 DEF Lone, Once
  <2> QED
    BY <1>1, <2>1 DEF Lone, Once, SpoolUnshared, Batch
<1>4. \A j : Open(j)' => Open(j)
  BY <1>1 DEF Open
<1>5. \A j \in answered' : ~Removing(j)' => j \in answered /\ ~Removing(j)
  BY <1>1 DEF Removing
<1>6. Apart'
  BY <1>1, <1>4, <1>5 DEF Lone, Apart, Disjoint
<1> QED
  BY <1>2, <1>3, <1>6 DEF Lone

\* The spool file is removed: nothing is in it.
LEMMA RemoveLone ==
    ASSUME TypeOK, Lone, NEW f \in Flusher, RemoveSpool(f)
    PROVE  Lone'
<1>1. /\ pc[f] = "answered" /\ pc'[f] = "acking"
      /\ \A g \in Flusher : g # f => pc'[g] = pc[g]
      /\ UNCHANGED <<setting, requests, emitted, outbox, key, answered, cut>>
  BY DEF RemoveSpool, TypeOK
<1>2. spool' = <<>> /\ Members(spool') = {}
  BY DEF RemoveSpool, Members
<1>3. Reported'
  BY <1>1, <1>2 DEF Lone, Reported
<1>4. Once'
  BY <1>1, <1>2 DEF Lone, Once, SpoolUnshared
<1>5. \A j : Open(j)' => Open(j)
  BY <1>1 DEF Open
<1>6. Apart'
  BY <1>1, <1>2, <1>5 DEF Lone, Apart, Disjoint
<1> QED
  BY <1>3, <1>4, <1>6 DEF Lone

\* A batch given up is no longer open, and shares nothing with those that are.
LEMMA GiveUpLone ==
    ASSUME TypeOK, Lone, NEW f \in Flusher, GiveUp(f)
    PROVE  Lone'
<1>1. /\ pc[f] = "posting" /\ pc'[f] = "idle"
      /\ \A g \in Flusher : g # f => pc'[g] = pc[g]
      /\ UNCHANGED <<setting, requests, emitted, key, answered, cut>>
  BY DEF GiveUp, TypeOK
<1>2. key[f] \in 1..Len(requests) /\ key[f] \notin answered /\ Open(key[f])
  BY <1>1 DEF Lone, Once, Open
<1>3. /\ ~setting.spooled => /\ spool' = spool
                             /\ Members(outbox') = Members(Batch(f)) \cup Members(outbox)
      /\ setting.spooled => spool' = Batch(f) /\ outbox' = outbox
  <2>1. Batch(f) \in Seq(Event) /\ outbox \in Seq(Event)
    BY <1>2 DEF Batch, TypeOK
  <2> QED
    BY <2>1, MembersConcat DEF GiveUp, Hold
<1>4. Members(Batch(f)) \subseteq Members(emitted)
  BY <1>2 DEF Lone, Reported, Batch
<1>5. Reported'
  BY <1>1, <1>3, <1>4 DEF Lone, Reported
<1>6. Once'
  <2>1. ASSUME NEW g \in Flusher, pc'[g] \in {"posting", "answered"}
        PROVE  g # f /\ pc[g] = pc'[g] /\ g \in setting.tasks /\ ~setting.spooled
    BY <1>1, <2>1 DEF Lone, Once, SpoolUnshared
  <2> QED
    BY <1>1, <1>3, <2>1 DEF Lone, Once, SpoolUnshared, Batch
<1>7. ASSUME NEW j \in 1..Len(requests), Open(j)'
      PROVE  Open(j) /\ Disjoint(requests[j], Batch(f))
  <2>1. Open(j) /\ j # key[f]
    BY <1>1, <1>2, <1>7 DEF Open, Lone, Once
  <2>2. j < key[f] \/ key[f] < j
    BY <1>2, <2>1 DEF TypeOK
  <2> QED
    BY <1>2, <2>1, <2>2 DEF Lone, Apart, Disjoint, Batch
<1>8. \A j \in answered : j \in 1..Len(requests) /\ (~Removing(j)' => ~Removing(j))
  BY <1>1 DEF TypeOK, Removing
<1>9. Apart'
  <2>1. \A j, k \in 1..Len(requests) :
            j < k /\ Open(j)' => Disjoint(requests[j], requests[k])
    BY <1>7 DEF Lone, Apart
  <2>2. ASSUME NEW j \in 1..Len(requests), Open(j)' PROVE Disjoint(requests[j], outbox')
    BY <1>3, <1>7, <2>2 DEF Lone, Apart, Disjoint
  <2>3. ASSUME NEW j \in answered, Open(j)', ~Removing(j)'
        PROVE  Disjoint(requests[j], spool')
    BY <1>3, <1>7, <1>8, <2>3 DEF Lone, Apart
  <2> QED
    BY <1>1, <2>1, <2>2, <2>3 DEF Apart, Disjoint
<1> QED
  BY <1>5, <1>6, <1>9 DEF Lone

\* The other steps start no post and move no batch.  A flush that ends between
\* the answer and the removal is cut.
LEMMA FrameLone ==
    ASSUME TypeOK, Lone,
           UNCHANGED <<setting, requests, emitted, spool, key, answered>>,
           outbox' = outbox \/ outbox' = <<>>,
           \A g \in Flusher : pc'[g] \in {"posting", "answered"} => pc'[g] = pc[g],
           cut \subseteq cut',
           \A g \in Flusher :
               pc[g] = "answered" => pc'[g] = "answered" \/ key[g] \in cut'
    PROVE  Lone'
<1>1. Members(outbox') \subseteq Members(outbox)
  BY DEF Members
<1>2. Reported'
  BY <1>1 DEF Lone, Reported
<1>3. Once'
  BY DEF Lone, Once, SpoolUnshared, Batch
<1>4. \A j : Open(j)' => Open(j)
  BY DEF Open
<1>5. ASSUME NEW j \in answered, Open(j)', ~Removing(j)', setting.spooled
      PROVE  ~Removing(j)
  <2>1. j \notin cut'
    <3>1. \A g \in Flusher : pc'[g] = "posting" => key'[g] # j
      BY DEF Lone, Once
    <3> QED
      BY <1>5, <3>1 DEF Open
  <2> QED
    BY <1>5, <2>1 DEF Removing
<1>6. ASSUME NEW j \in answered, Open(j)', ~Removing(j)'
      PROVE  Disjoint(requests[j], spool)
  <2>1. CASE setting.spooled
    BY <1>4, <1>5, <1>6, <2>1 DEF Lone, Apart
  <2>2. CASE ~setting.spooled
    BY <2>2 DEF Lone, Once, Disjoint, Members
  <2> QED
    BY <2>1, <2>2
<1>7. Apart'
  BY <1>1, <1>4, <1>6 DEF Lone, Apart, Disjoint
<1> QED
  BY <1>2, <1>3, <1>7 DEF Lone

\* Every step keeps the batches apart.
LEMMA LoneStep ==
    ASSUME TypeOK, Lone, [Next]_vars
    PROVE  Lone'
<1>1. ASSUME NEW f \in Flusher, Retry(f) \/ Consumed(f) PROVE Lone'
  BY <1>1, FrameLone DEF Retry, Consumed
<1>2. ASSUME NEW f \in Flusher, Return(f) \/ Cancel(f) \/ RemoveFails(f) PROVE Lone'
  <2>1. /\ \A g \in Flusher : g # f => pc'[g] = pc[g]
        /\ pc'[f] \in {"idle", "cancelled"}
        /\ pc[f] = "answered" => key[f] \in cut'
        /\ cut \subseteq cut'
    BY <1>2 DEF Return, Cancel, RemoveFails, CutIn, TypeOK
  <2>2. UNCHANGED <<setting, requests, emitted, spool, key, answered, outbox>>
    BY <1>2 DEF Return, Cancel, RemoveFails
  <2> QED
    BY <2>1, <2>2, FrameLone
<1>3. ASSUME NEW k, Deliver(k) PROVE Lone'
  BY <1>3, FrameLone DEF Deliver, client
<1>4. CASE Crash
  <2>1. /\ \A g \in Flusher : pc'[g] = "idle"
        /\ \A g \in Flusher : pc[g] = "answered" => key[g] \in cut'
        /\ cut \subseteq cut'
    BY <1>4 DEF Crash, CutIn
  <2>2. /\ UNCHANGED <<setting, requests, emitted, spool, key, answered>>
        /\ outbox' = <<>>
    BY <1>4 DEF Crash
  <2> QED
    BY <2>1, <2>2, FrameLone
<1>5. CASE UNCHANGED vars
  BY <1>5, FrameLone DEF vars, client
<1> QED
  BY <1>1, <1>2, <1>3, <1>4, <1>5, EmitLone, FlushLone, AnsweredLone, RemoveLone,
     GiveUpLone DEF Next, Continue

\* Batches are apart.
LEMMA LoneAlways == Spec /\ SpoolUnshared => []Lone
<1>1. Init /\ SpoolUnshared => Lone
  BY DEF Init, Lone, Reported, Once, Apart, Open, Members
<1> QED
  BY <1>1, LoneStep, TypeCorrect, PTL DEF Spec

\* A batch the client saw answered is posted again under another key only from
\* a spool file whose removal a process death, a cancellation or the file system
\* prevented; for any number of tasks without a spool file and for the one task
\* that has it (client.py:141, 155-158).
THEOREM AnsweredIsNotResent == Spec /\ SpoolUnshared => []NoResendAfterAnswer
<1>1. TypeOK /\ Lone => NoResendAfterAnswer
  BY DEF TypeOK, Lone, Apart, Open, Disjoint, NoResendAfterAnswer
<1> QED
  BY <1>1, LoneAlways, TypeCorrect, PTL

-----------------------------------------------------------------------------
(***************************************************************************)
(* Nothing leaves the spool file or the outbox but into a request that its *)
(* flush answers for.                                                      *)
(***************************************************************************)
\* The spool file loses only what the backend has.
LEMMA SpoolStep ==
    ASSUME TypeOK, AnswerSeen, Lone, Evidence, [Next]_vars, NEW e \in Members(spool)
    PROVE  e \in Members(spool') \cup Members(stored)
<1>1. ASSUME NEW f \in Flusher, RemoveSpool(f)
      PROVE  e \in Members(spool') \cup Members(stored)
  BY <1>1 DEF RemoveSpool, AnswerSeen, TypeOK, Lone, Once, Evidence, Batch
<1>2. ASSUME NEW f \in Flusher, GiveUp(f)
      PROVE  e \in Members(spool') \cup Members(stored)
  BY <1>2 DEF GiveUp, Hold, Lone, Once
<1>3. \/ \E f \in Flusher : RemoveSpool(f) \/ GiveUp(f)
      \/ UNCHANGED spool
  BY DEF Next, Continue, Emit, Flush, Deliver, Answered, RemoveFails, Retry,
         Consumed, Return, Cancel, Crash, vars
<1> QED
  BY <1>1, <1>2, <1>3

\* An event leaves the spool file only once the backend has it, for every
\* order of failures, late deliveries and process deaths, when a single task
\* has the file (client.py:77-80, 132-141).
THEOREM SpoolIsKept == Spec /\ SpoolUnshared => SpoolKeepsUntilStored
<1>1. TypeOK /\ AnswerSeen /\ Lone /\ Evidence /\ [Next]_vars =>
        [\A e \in Members(spool) : e \in Members(spool') \cup Members(stored)]_vars
  BY SpoolStep
<1> QED
  BY <1>1, LoneAlways, EvidenceAlways, AnswerIsSeen, TypeCorrect,
     PTL DEF Spec, SpoolKeepsUntilStored

\* Where NothingLost looks for an event.
Accounted(e) ==
    \/ e \in Members(outbox)
    \/ e \in Members(spool)
    \/ e \in Members(stored)
    \/ Posting(e)

\* A flush takes what it finds with it.
LEMMA FlushAccounts ==
    ASSUME TypeOK, Lone, NEW f \in Flusher, Flush(f), NEW e, Accounted(e),
           Members(stored) \subseteq Members(stored')
    PROVE  Accounted(e)'
<1>1. CASE e \in Members(outbox) \/ e \in Members(spool)
  <2>1. pc'[f] = "posting" /\ e \in Members(requests'[key'[f]])
    BY <1>1, FlushBuilds
  <2> QED
    BY <2>1 DEF Accounted, Posting, Batch
<1>2. CASE e \in Members(stored)
  BY <1>2 DEF Accounted
<1>3. CASE Posting(e)
  <2>1. PICK g \in Flusher : pc[g] = "posting" /\ e \in Members(Batch(g))
    BY <1>3 DEF Posting
  <2>2. key[g] \in 1..Len(requests)
    BY <2>1 DEF Lone, Once
  <2>3. pc'[g] = "posting" /\ e \in Members(requests'[key'[g]])
    BY <2>1, <2>2, FlushBuilds DEF Batch
  <2> QED
    BY <2>3 DEF Accounted, Posting, Batch
<1> QED
  BY <1>1, <1>2, <1>3 DEF Accounted

\* A post that ends leaves its batch stored or held.
LEMMA EndAccounts ==
    ASSUME TypeOK, Lone, Evidence, NEW f \in Flusher, Answered(f) \/ GiveUp(f),
           NEW e, Accounted(e), UNCHANGED stored
    PROVE  Accounted(e)'
<1>1. /\ pc[f] = "posting"
      /\ \A g \in Flusher : g # f => pc'[g] = pc[g]
      /\ UNCHANGED <<key, requests>>
  BY DEF Answered, GiveUp, TypeOK
<1>2. key[f] \in 1..Len(requests) /\ Members(spool) \subseteq Members(Batch(f))
  BY <1>1 DEF Lone, Once
<1>3. \/ /\ UNCHANGED <<outbox, spool>>
         /\ Members(Batch(f)) \subseteq Members(stored)
      \/ /\ ~setting.spooled /\ UNCHANGED spool
         /\ Members(outbox') = Members(Batch(f)) \cup Members(outbox)
      \/ spool' = Batch(f) /\ outbox' = outbox
  <2>1. Batch(f) \in Seq(Event) /\ outbox \in Seq(Event)
    BY <1>2 DEF Batch, TypeOK
  <2>2. CASE Answered(f)
    BY <2>2 DEF Answered, Evidence, Batch
  <2>3. CASE GiveUp(f)
    BY <2>1, <2>3, MembersConcat DEF GiveUp, Hold
  <2> QED
    BY <2>2, <2>3
<1>4. CASE e \in Members(Batch(f))
  BY <1>3, <1>4 DEF Accounted
<1>5. CASE e \in Members(outbox) \/ e \in Members(spool)
  BY <1>2, <1>3, <1>4, <1>5 DEF Accounted
<1>6. CASE e \in Members(stored)
  BY <1>6 DEF Accounted
<1>7. ASSUME NEW g \in Flusher, pc[g] = "posting", e \in Members(Batch(g)), g # f
      PROVE  Accounted(e)'
  BY <1>1, <1>7 DEF Accounted, Posting, Batch
<1> QED
  BY <1>4, <1>5, <1>6, <1>7 DEF Accounted, Posting

\* While no flush is cancelled and the process lives, a step loses nothing.
LEMMA LossStep ==
    ASSUME TypeOK, AnswerSeen, Lone, Evidence, NothingLost, [Next]_vars,
           Members(stored) \subseteq Members(stored'), crashes \in Nat
    PROVE  NothingLost'
<1> SUFFICES ASSUME crashes' = 0, setting'.cancels = {}, NEW e \in Members(emitted')
             PROVE  Accounted(e)'
  BY DEF NothingLost, Accounted
<1>1. ~Crash
  BY DEF Crash
<1>2. UNCHANGED setting /\ crashes = 0 /\ setting.cancels = {}
  BY <1>1 DEF Next, Continue, Emit, Flush, Deliver, Answered, RemoveSpool,
         RemoveFails, Retry, GiveUp, Consumed, Return, Cancel, vars
<1>3. \A x \in Members(emitted) : Accounted(x)
  BY <1>2 DEF NothingLost, Accounted
<1>4. ASSUME NEW x \in Event, Emit(x) PROVE Accounted(e)'
  <2>1. /\ Members(emitted') = Members(emitted) \cup {x}
        /\ Members(outbox') = Members(outbox) \cup {x}
    BY <1>4, MembersAppend DEF Emit, TypeOK
  <2>2. UNCHANGED <<requests, spool, pc, key>>
    BY <1>4 DEF Emit
  <2> QED
    BY <1>3, <2>1, <2>2 DEF Accounted, Posting, Batch
<1>5. ASSUME UNCHANGED <<emitted, requests, outbox, spool, key>>,
             \A g \in Flusher : pc[g] = "posting" => pc'[g] = "posting"
      PROVE  Accounted(e)'
  BY <1>3, <1>5 DEF Accounted, Posting, Batch
<1>6. ASSUME NEW f \in Flusher, Flush(f) PROVE Accounted(e)'
  <2>1. e \in Members(emitted)
    BY <1>6 DEF Flush
  <2> QED
    BY <1>3, <1>6, <2>1, FlushAccounts
<1>7. ASSUME NEW f \in Flusher, Answered(f) \/ GiveUp(f) PROVE Accounted(e)'
  <2>1. UNCHANGED <<emitted, stored>>
    BY <1>7 DEF Answered, GiveUp, backend
  <2> QED
    BY <1>3, <1>7, <2>1, EndAccounts
<1>8. ASSUME NEW f \in Flusher, Retry(f) \/ Consumed(f) PROVE Accounted(e)'
  BY <1>5, <1>8 DEF Retry, Consumed
<1>9. ASSUME NEW f \in Flusher, Return(f) \/ RemoveFails(f) PROVE Accounted(e)'
  BY <1>5, <1>9 DEF Return, RemoveFails, TypeOK
<1>10. ASSUME NEW k, Deliver(k) PROVE Accounted(e)'
  BY <1>5, <1>10 DEF Deliver, client
<1>11. CASE UNCHANGED vars
  BY <1>5, <1>11 DEF vars, client
<1>12. \A f \in Flusher : ~Cancel(f)
  BY <1>2 DEF Cancel
<1>13. ASSUME NEW f \in Flusher, RemoveSpool(f) PROVE Accounted(e)'
  <2>1. /\ UNCHANGED <<emitted, outbox, requests, key, stored>>
        /\ \A g \in Flusher : pc[g] = "posting" => pc'[g] = "posting"
    BY <1>13 DEF RemoveSpool, TypeOK, backend
  <2>2. \A x \in Members(spool) : x \in Members(stored)
    BY <1>13 DEF RemoveSpool, AnswerSeen, TypeOK, Lone, Once, Evidence, Batch
  <2> QED
    BY <1>3, <2>1, <2>2 DEF Accounted, Posting, Batch
<1> QED
  BY <1>1, <1>4, <1>6, <1>7, <1>8, <1>9, <1>10, <1>11, <1>12, <1>13
     DEF Next, Continue

\* "Either way, nothing is lost": while the process lives and no flush is
\* cancelled, every report is held, in a request some flush answers for, or
\* stored; for any number of tasks without a spool file and for the one task
\* that has it (client.py:132-135).
THEOREM EitherWayNothingIsLost == Spec /\ SpoolUnshared => []NothingLost
<1>1. Init => NothingLost
  BY DEF Init, NothingLost, Members
<1>2. TypeOK => crashes \in Nat
  BY SettingType DEF TypeOK
<1>3. TypeOK /\ Typed /\ LinesAreTheirOwn /\ AnswerSeen /\ Lone /\ Evidence
        /\ NothingLost /\ [Next]_vars => NothingLost'
  BY <1>2, LossStep, OnlyGrows
<1> QED
  BY <1>1, <1>3, LoneAlways, EvidenceAlways, AnswerIsSeen, TypeCorrect,
     BatchesAreNumbered, LinesStayApart, PTL DEF Spec

-----------------------------------------------------------------------------
(***************************************************************************)
(* The order of the log.  While one task of one process has done the       *)
(* flushing, every batch follows reports the backend has, but for those it *)
(* repeats from a spool file that could not be removed.                    *)
(***************************************************************************)
\* One task of one process has done the flushing so far.
Alone ==
    /\ crashes = 0
    /\ \A f, g \in Flusher : key[f] # 0 /\ key[g] # 0 => f = g

\* What the log em has before a member of s is in st, or comes before it in s.
SegmentIn(s, em, st) ==
    /\ Members(s) \subseteq Members(em)
    /\ \A m \in DOMAIN s : \A i, j \in DOMAIN em :
          s[m] = em[j] /\ i < j =>
              \/ em[i] \in Members(st)
              \/ \E l \in DOMAIN s : l < m /\ s[l] = em[i]

\* So it is, and all that st lacks is in s.
RestIn(s, em, st) ==
    /\ SegmentIn(s, em, st)
    /\ Members(em) \subseteq Members(st) \cup Members(s)

Segment(s) == SegmentIn(s, emitted, stored)
Rest(s) == RestIn(s, emitted, stored)

\* No flush holds a batch that may not come back.
Free == \A f \in Flusher : key[f] # 0 => pc[f] \notin {"posting", "cancelled"}

\* An event stored comes after all those reported before it.
Ordered ==
    \A i, j \in DOMAIN emitted : \A q \in DOMAIN stored :
        i < j /\ stored[q] = emitted[j] =>
            \E p \in DOMAIN stored : p < q /\ stored[p] = emitted[i]

\* What is still to be stored is what the posting flush took with the outbox
\* after it, or what the next takes; the file that is to be removed is stored.
InOrder ==
    /\ Members(stored) \subseteq Members(emitted)
    /\ ~setting.spooled => spool = <<>>
    /\ \A k \in 1..Len(requests) : Segment(requests[k])
    /\ \A f \in Flusher : pc[f] = "posting" =>
          Rest(Batch(f) \o outbox) /\ Members(spool) \subseteq Members(Batch(f))
    /\ \A f \in Flusher : pc[f] = "answered" => Members(spool) \subseteq Members(stored)
    /\ Free => Rest(durable)
    /\ Ordered

\* Storing more keeps the segments.
LEMMA SegmentsStay ==
    ASSUME UNCHANGED emitted, Members(stored) \subseteq Members(stored'), NEW s
    PROVE  (Segment(s) => Segment(s)') /\ (Rest(s) => Rest(s)')
<1>1. Segment(s) => Segment(s)'
  BY DEF Segment, SegmentIn
<1> QED
  BY <1>1 DEF Rest, RestIn, Segment

\* So does a new report, which ends what is still to be stored.
LEMMA SegmentsGrow ==
    ASSUME emitted \in Seq(Event), NEW e \in Event, e \notin Members(emitted),
           emitted' = Append(emitted, e), UNCHANGED stored, NEW s \in Seq(Event)
    PROVE  /\ Segment(s) => Segment(s)'
           /\ \A t \in Seq(Event) : t = Append(s, e) /\ Rest(s) => Rest(t)'
<1>1. /\ Len(emitted) \in Nat /\ DOMAIN emitted = 1..Len(emitted)
      /\ DOMAIN emitted' = 1..(Len(emitted) + 1)
      /\ \A i \in 1..Len(emitted) : emitted'[i] = emitted[i]
      /\ emitted'[Len(emitted) + 1] = e
      /\ Members(emitted') = Members(emitted) \cup {e}
  <2>1. Members(emitted') = Members(emitted) \cup {e}
    BY MembersAppend
  <2> QED
    BY <2>1
<1>2. ASSUME Segment(s), NEW m \in DOMAIN s, NEW i \in DOMAIN emitted',
             NEW j \in DOMAIN emitted', s[m] = emitted'[j], i < j
      PROVE  \/ emitted'[i] \in Members(stored)
             \/ \E l \in DOMAIN s : l < m /\ s[l] = emitted'[i]
  <2>1. s[m] \in Members(emitted)
    BY <1>2 DEF Segment, SegmentIn, Members
  <2>2. j \in DOMAIN emitted /\ i \in DOMAIN emitted
    BY <1>1, <1>2, <2>1
  <2>3. emitted'[i] = emitted[i] /\ emitted'[j] = emitted[j]
    BY <1>1, <2>2
  <2> QED
    BY <1>2, <2>2, <2>3 DEF Segment, SegmentIn
<1>3. Segment(s) => Segment(s)'
  BY <1>1, <1>2 DEF Segment, SegmentIn
<1>4. ASSUME NEW t \in Seq(Event), t = Append(s, e), Rest(s) PROVE Rest(t)'
  <2>1. /\ Len(s) \in Nat /\ DOMAIN s = 1..Len(s) /\ DOMAIN t = 1..(Len(s) + 1)
        /\ \A m \in 1..Len(s) : t[m] = s[m]
        /\ t[Len(s) + 1] = e
    BY <1>4
  <2>2. Members(t) = Members(s) \cup {e}
    BY <1>4, MembersAppend
  <2>3. ASSUME NEW m \in DOMAIN t, NEW i \in DOMAIN emitted',
               NEW j \in DOMAIN emitted', t[m] = emitted'[j], i < j
        PROVE  \/ emitted'[i] \in Members(stored)
               \/ \E l \in DOMAIN t : l < m /\ t[l] = emitted'[i]
    <3>1. CASE m \in 1..Len(s)
      <4>1. s[m] = emitted'[j] /\ m \in DOMAIN s
        BY <2>1, <2>3, <3>1
      <4>2. \/ emitted'[i] \in Members(stored)
            \/ \E l \in DOMAIN s : l < m /\ s[l] = emitted'[i]
        BY <1>2, <1>4, <2>3, <4>1 DEF Rest, RestIn, Segment
      <4>3. \A l \in DOMAIN s : l \in DOMAIN t /\ t[l] = s[l]
        BY <2>1
      <4> QED
        BY <4>2, <4>3
    <3>2. CASE m = Len(s) + 1
      <4>1. i \in 1..Len(emitted)
        BY <1>1, <2>3
      <4>2. emitted'[i] \in Members(stored) \cup Members(s)
        BY <1>1, <1>4, <4>1 DEF Rest, RestIn, Segment, Members
      <4>3. \A l \in DOMAIN s : l \in DOMAIN t /\ l < m /\ t[l] = s[l]
        BY <2>1, <3>2
      <4> QED
        BY <4>2, <4>3 DEF Members
    <3> QED
      BY <2>1, <3>1, <3>2
  <2>4. Segment(t)'
    <3>1. Members(t) \subseteq Members(emitted')
      BY <1>1, <1>4, <2>2 DEF Rest, RestIn, SegmentIn
    <3> QED
      BY <2>3, <3>1 DEF Segment, SegmentIn
  <2> QED
    BY <1>1, <1>4, <2>2, <2>4 DEF Rest, RestIn, Segment
<1> QED
  BY <1>3, <1>4

\* Appending to the second of two appends to both.
LEMMA AppendConcat ==
    ASSUME NEW s \in Seq(Event), NEW t \in Seq(Event), NEW e \in Event
    PROVE  s \o Append(t, e) = Append(s \o t, e)
OBVIOUS

\* A prefix stored, the rest begins after it.
LEMMA RestAfter ==
    ASSUME NEW s \in Seq(Event), NEW t \in Seq(Event),
           Rest(s \o t), Members(s) \subseteq Members(stored)
    PROVE  Rest(t)
<1>1. PICK u : u = s \o t
  OBVIOUS
<1>2. Rest(u)
  BY <1>1
<1>3. /\ Len(s) \in Nat /\ Len(t) \in Nat
      /\ DOMAIN s = 1..Len(s) /\ DOMAIN t = 1..Len(t)
      /\ DOMAIN u = 1..(Len(s) + Len(t))
      /\ \A m \in 1..Len(s) : u[m] = s[m]
      /\ \A m \in 1..Len(t) : u[Len(s) + m] = t[m]
      /\ Members(u) = Members(s) \cup Members(t)
  <2>1. Members(u) = Members(s) \cup Members(t)
    BY <1>1, MembersConcat
  <2> QED
    BY <1>1, <2>1
<1>4. ASSUME NEW m \in DOMAIN t, NEW i \in DOMAIN emitted, NEW j \in DOMAIN emitted,
             t[m] = emitted[j], i < j
      PROVE  \/ emitted[i] \in Members(stored)
             \/ \E l \in DOMAIN t : l < m /\ t[l] = emitted[i]
  <2>1. Len(s) + m \in DOMAIN u /\ u[Len(s) + m] = emitted[j]
    BY <1>3, <1>4
  <2>2. CASE emitted[i] \in Members(stored)
    BY <2>2
  <2>3. CASE \E l \in DOMAIN u : l < Len(s) + m /\ u[l] = emitted[i]
    <3>1. PICK l \in DOMAIN u : l < Len(s) + m /\ u[l] = emitted[i]
      BY <2>3
    <3>2. CASE l \in 1..Len(s)
      BY <1>3, <3>1, <3>2 DEF Members
    <3>3. CASE l \notin 1..Len(s)
      <4>1. PICK k \in 1..Len(t) : l = Len(s) + k
        <5>1. l - Len(s) \in 1..Len(t) /\ l = Len(s) + (l - Len(s))
          BY <1>3, <3>3
        <5> QED
          BY <5>1
      <4>2. k < m /\ t[k] = emitted[i]
        BY <1>3, <3>1, <4>1
      <4> QED
        BY <1>3, <4>2
    <3> QED
      BY <3>2, <3>3
  <2> QED
    BY <1>2, <1>4, <2>1, <2>2, <2>3 DEF Rest, RestIn, Segment, SegmentIn
<1>5. Segment(t)
  BY <1>2, <1>3, <1>4 DEF Rest, RestIn, Segment, SegmentIn
<1> QED
  BY <1>2, <1>3, <1>5 DEF Rest, RestIn, Segment

\* What is stored may be repeated before what is still to be stored.
LEMMA RestRepeated ==
    ASSUME NEW s \in Seq(Event), NEW t \in Seq(Event), Ordered, Rest(t),
           Members(s) \subseteq Members(stored), Members(stored) \subseteq Members(emitted)
    PROVE  Rest(s \o t)
<1>1. PICK u : u = s \o t
  OBVIOUS
<1>2. /\ Len(s) \in Nat /\ Len(t) \in Nat
      /\ DOMAIN s = 1..Len(s) /\ DOMAIN t = 1..Len(t)
      /\ DOMAIN u = 1..(Len(s) + Len(t))
      /\ \A m \in 1..Len(s) : u[m] = s[m]
      /\ \A m \in 1..Len(t) : u[Len(s) + m] = t[m]
      /\ Members(u) = Members(s) \cup Members(t)
  <2>1. Members(u) = Members(s) \cup Members(t)
    BY <1>1, MembersConcat
  <2> QED
    BY <1>1, <2>1
<1>3. ASSUME NEW m \in DOMAIN u, NEW i \in DOMAIN emitted, NEW j \in DOMAIN emitted,
             u[m] = emitted[j], i < j
      PROVE  \/ emitted[i] \in Members(stored)
             \/ \E l \in DOMAIN u : l < m /\ u[l] = emitted[i]
  <2>1. CASE m \in 1..Len(s)
    <3>1. u[m] \in Members(stored)
      BY <1>2, <2>1 DEF Members
    <3> QED
      BY <1>3, <3>1 DEF Ordered, Members
  <2>2. CASE m \notin 1..Len(s)
    <3>1. PICK k \in 1..Len(t) : m = Len(s) + k
      <4>1. m - Len(s) \in 1..Len(t) /\ m = Len(s) + (m - Len(s))
        BY <1>2, <2>2
      <4> QED
        BY <4>1
    <3>2. k \in DOMAIN t /\ t[k] = emitted[j]
      BY <1>2, <1>3, <3>1
    <3>3. \/ emitted[i] \in Members(stored)
          \/ \E l \in DOMAIN t : l < k /\ t[l] = emitted[i]
      BY <1>3, <3>2 DEF Rest, RestIn, Segment, SegmentIn
    <3>4. ASSUME NEW l \in DOMAIN t, l < k, t[l] = emitted[i]
          PROVE  Len(s) + l \in DOMAIN u /\ Len(s) + l < m /\ u[Len(s) + l] = emitted[i]
      BY <1>2, <3>1, <3>4
    <3> QED
      BY <3>3, <3>4
  <2> QED
    BY <2>1, <2>2
<1>4. Segment(u)
  BY <1>2, <1>3 DEF Rest, RestIn, Segment, SegmentIn
<1>5. Rest(u)
  BY <1>2, <1>4 DEF Rest, RestIn, Segment
<1> QED
  BY <1>1, <1>5

\* A batch that follows stored reports keeps the log in order.
LEMMA OrderStays ==
    ASSUME stored \in Seq(Event), NEW s \in Seq(Event),
           Ordered, Segment(s), stored' = stored \o s, UNCHANGED emitted
    PROVE  Ordered'
<1> DEFINE n == Len(stored)
<1>1. /\ n \in Nat /\ Len(s) \in Nat
      /\ DOMAIN stored = 1..n /\ DOMAIN stored' = 1..(n + Len(s))
      /\ DOMAIN s = 1..Len(s)
      /\ \A p \in 1..n : stored'[p] = stored[p]
      /\ \A m \in 1..Len(s) : stored'[n + m] = s[m]
  OBVIOUS
<1>2. ASSUME NEW i \in DOMAIN emitted, NEW j \in DOMAIN emitted,
             NEW q \in DOMAIN stored', i < j, stored'[q] = emitted[j]
      PROVE  \E p \in DOMAIN stored' : p < q /\ stored'[p] = emitted[i]
  <2>1. CASE q \in 1..n
    <3>1. PICK p \in DOMAIN stored : p < q /\ stored[p] = emitted[i]
      BY <1>1, <1>2, <2>1 DEF Ordered
    <3> QED
      BY <1>1, <3>1
  <2>2. CASE q \notin 1..n
    <3>1. PICK k \in 1..Len(s) : q = n + k
      <4>1. q - n \in 1..Len(s) /\ q = n + (q - n)
        BY <1>1, <2>2
      <4> QED
        BY <4>1
    <3>2. k \in DOMAIN s /\ s[k] = emitted[j]
      BY <1>1, <1>2, <3>1
    <3>3. CASE emitted[i] \in Members(stored)
      <4>1. PICK p \in 1..n : stored[p] = emitted[i]
        BY <1>1, <3>3 DEF Members
      <4>2. p < q /\ p \in DOMAIN stored' /\ stored'[p] = emitted[i]
        BY <1>1, <3>1, <4>1
      <4> QED
        BY <4>2
    <3>4. ASSUME NEW l \in DOMAIN s, l < k, s[l] = emitted[i]
          PROVE  n + l \in DOMAIN stored' /\ n + l < q /\ stored'[n + l] = emitted[i]
      BY <1>1, <3>1, <3>4
    <3> QED
      BY <1>2, <3>2, <3>3, <3>4 DEF Segment, SegmentIn
  <2> QED
    BY <2>1, <2>2
<1> QED
  BY <1>2 DEF Ordered

\* A sequence with nothing before or after it.
LEMMA ConcatEmpty ==
    ASSUME NEW s \in Seq(Event)
    PROVE  s \o <<>> = s /\ <<>> \o s = s /\ <<>> \in Seq(Event)
OBVIOUS

\* A report is appended: it ends what is still to be stored.
LEMMA EmitOrder ==
    ASSUME TypeOK, Typed, InOrder, NEW e \in Event, Emit(e)
    PROVE  InOrder'
<1>1. /\ emitted' = Append(emitted, e) /\ outbox' = Append(outbox, e)
      /\ e \notin Members(emitted)
      /\ UNCHANGED <<setting, requests, spool, pc, key, stored>>
  BY DEF Emit, backend
<1>2. /\ emitted \in Seq(Event) /\ outbox \in Seq(Event) /\ spool \in Seq(Event)
      /\ \A k \in 1..Len(requests) : requests[k] \in Seq(Event)
      /\ Members(emitted') = Members(emitted) \cup {e}
  BY <1>1, MembersAppend DEF TypeOK
<1>3. /\ Len(emitted) \in Nat /\ DOMAIN emitted = 1..Len(emitted)
      /\ DOMAIN emitted' = 1..(Len(emitted) + 1)
      /\ \A i \in 1..Len(emitted) : emitted'[i] = emitted[i]
      /\ emitted'[Len(emitted) + 1] = e
      /\ \A i \in 1..(Len(emitted) + 1) : i \in 1..Len(emitted) \/ i = Len(emitted) + 1
  BY <1>1, <1>2
<1>4. \A i \in 1..Len(emitted) : emitted[i] # e
  BY <1>1, <1>3 DEF Members
<1>6. Members(stored') \subseteq Members(emitted')
  BY <1>1, <1>2 DEF InOrder
<1>7. ASSUME NEW k \in 1..Len(requests) PROVE Segment(requests[k])'
  <2>1. PICK s \in Seq(Event) : s = requests[k]
    BY <1>2
  <2>2. Segment(s)'
    BY <1>1, <1>2, <2>1, SegmentsGrow DEF InOrder
  <2>3. requests'[k] = s
    BY <1>1, <2>1
  <2> QED
    BY <2>2, <2>3 DEF Segment
<1>8. ASSUME NEW u \in Seq(Event), Rest(u), NEW v, v = Append(u, e)
      PROVE  Rest(v)'
  <2>1. v \in Seq(Event)
    BY <1>8
  <2> QED
    BY <1>1, <1>2, <1>8, <2>1, SegmentsGrow
<1>9. ASSUME NEW f \in Flusher, pc'[f] = "posting" PROVE Rest(Batch(f) \o outbox)'
  <2>1. key[f] \in 1..Len(requests) /\ Rest(Batch(f) \o outbox)
    BY <1>1, <1>9 DEF Typed, InOrder
  <2>2. PICK b \in Seq(Event) : b = Batch(f)
    BY <1>2, <2>1 DEF Batch
  <2>3. PICK u \in Seq(Event) : u = b \o outbox
    <3>1. b \o outbox \in Seq(Event)
      BY <1>2
    <3> QED
      BY <3>1
  <2>4. PICK v : v = Append(u, e)
    OBVIOUS
  <2>5. Rest(v)'
    BY <1>8, <2>1, <2>2, <2>3, <2>4
  <2>6. (Batch(f) \o outbox)' = v
    BY <1>1, <1>2, <2>2, <2>3, <2>4, AppendConcat DEF Batch
  <2> QED
    BY <2>5, <2>6 DEF Rest
<1>10. ASSUME Free' PROVE Rest(durable)'
  <2>1. Rest(durable)
    BY <1>1, <1>10 DEF InOrder, Free
  <2>3. PICK u \in Seq(Event) : u = durable
    <3>1. spool \o outbox \in Seq(Event)
      BY <1>2
    <3> QED
      BY <3>1 DEF durable
  <2>4. PICK v : v = Append(u, e)
    OBVIOUS
  <2>5. Rest(v)'
    BY <1>8, <2>1, <2>3, <2>4
  <2>6. durable' = v
    BY <1>1, <1>2, <2>3, <2>4, AppendConcat DEF durable
  <2> QED
    BY <2>5, <2>6 DEF Rest
<1>11. Ordered'
  <2> SUFFICES ASSUME NEW i \in DOMAIN emitted', NEW j \in DOMAIN emitted',
                      NEW q \in DOMAIN stored, i < j, stored[q] = emitted'[j]
               PROVE  \E p \in DOMAIN stored : p < q /\ stored[p] = emitted'[i]
    BY <1>1 DEF Ordered
  <2>1. j \in 1..Len(emitted)
    <3>1. stored[q] \in Members(emitted)
      BY DEF InOrder, Members
    <3> QED
      BY <1>1, <1>3, <3>1
  <2>2. i \in 1..Len(emitted)
    BY <1>3, <2>1
  <2> QED
    BY <1>3, <2>1, <2>2 DEF InOrder, Ordered
<1> QED
  BY <1>1, <1>6, <1>7, <1>9, <1>10, <1>11 DEF InOrder, Batch

\* A flush of the task that is alone posts what is still to be stored.
LEMMA FlushOrder ==
    ASSUME TypeOK, Typed, InOrder, Alone', NEW f \in Flusher, Flush(f)
    PROVE  InOrder'
<1>1. PICK d \in Seq(Event) : d = durable
  <2>1. spool \o outbox \in Seq(Event)
    BY DEF TypeOK
  <2> QED
    BY <2>1 DEF durable
<1>2. /\ requests' = Append(requests, d) /\ outbox' = <<>>
      /\ Len(requests) \in Nat /\ Len(requests') = Len(requests) + 1
      /\ \A k \in 1..Len(requests) : requests'[k] = requests[k]
      /\ requests'[Len(requests')] = d
      /\ UNCHANGED <<setting, emitted, spool, stored>>
  BY <1>1 DEF Flush, TypeOK, backend
<1>3. /\ pc[f] = "idle" /\ pc'[f] = "posting" /\ key'[f] = Len(requests')
      /\ \A g \in Flusher : g # f => pc'[g] = pc[g] /\ key'[g] = key[g]
  BY FlushBuilds
<1>4. \A g \in Flusher : g # f => key[g] = 0
  BY <1>2, <1>3 DEF Alone
<1>5. Rest(d)
  BY <1>1, <1>3, <1>4 DEF InOrder, Free
<1>6. Rest(d)' /\ Segment(d)'
  BY <1>2, <1>5, SegmentsStay DEF Rest, RestIn, Segment
<1>7. ASSUME NEW k \in 1..Len(requests') PROVE Segment(requests[k])'
  <2>1. CASE k \in 1..Len(requests)
    <3>1. PICK s : s = requests[k]
      OBVIOUS
    <3>2. Segment(s)' /\ requests'[k] = s
      BY <1>2, <2>1, <3>1, SegmentsStay DEF InOrder
    <3> QED
      BY <3>2 DEF Segment
  <2>2. CASE k = Len(requests')
    BY <1>2, <1>6, <2>2 DEF Segment
  <2> QED
    BY <1>2, <1>7, <2>1, <2>2
<1>8. ASSUME NEW g \in Flusher, pc'[g] = "posting"
      PROVE  Rest(Batch(g) \o outbox)' /\ Members(spool') \subseteq Members(Batch(g)')
  <2>1. CASE g = f
    <3>1. (Batch(g) \o outbox)' = d /\ Batch(g)' = d
      BY <1>2, <1>3, <2>1, ConcatEmpty DEF Batch
    <3>2. Members(spool') \subseteq Members(d)
      BY <1>2, <2>1, FlushBuilds
    <3> QED
      BY <1>6, <3>1, <3>2 DEF Rest
  <2>2. CASE g # f
    <3>1. pc[g] = "posting" /\ key[g] = 0
      BY <1>3, <1>4, <1>8, <2>2
    <3> QED
      BY <3>1 DEF Typed
  <2> QED
    BY <2>1, <2>2
<1>9. ~Free'
  BY <1>2, <1>3 DEF Free
<1>10. Ordered'
  BY <1>2 DEF InOrder, Ordered
<1>11. \A g \in Flusher : pc'[g] = "answered" => Members(spool') \subseteq Members(stored')
  BY <1>2, <1>3 DEF InOrder
<1> QED
  BY <1>2, <1>7, <1>8, <1>9, <1>10, <1>11 DEF InOrder

\* The backend stores a batch, perhaps long after the client gave it up.
LEMMA DeliverOrder ==
    ASSUME TypeOK, Typed, LinesAreTheirOwn, InOrder,
           NEW k \in 1..Len(requests), Deliver(k)
    PROVE  InOrder'
<1>1. PICK s \in Seq(Event) : s = requests[k] /\ Segment(s)
  <2>1. requests[k] \in Seq(Event)
    BY DEF TypeOK
  <2> QED
    BY <2>1 DEF InOrder
<1>2. /\ stored' = stored \o s
      /\ UNCHANGED <<setting, emitted, spool, outbox, requests, pc, key>>
  BY <1>1, AcceptedWhole DEF Deliver, client
<1>3. Members(stored') = Members(stored) \cup Members(s)
  BY <1>2, MembersConcat DEF TypeOK
<1>4. Ordered' /\ Members(s) \subseteq Members(emitted)
  BY <1>1, <1>2, OrderStays DEF TypeOK, InOrder, Segment, SegmentIn
<1>5. \A t : (Segment(t) => Segment(t)') /\ (Rest(t) => Rest(t)')
  BY <1>2, <1>3, SegmentsStay
<1>6. ASSUME NEW j \in 1..Len(requests) PROVE Segment(requests[j])'
  <2>1. PICK t : t = requests[j]
    OBVIOUS
  <2>2. Segment(t)' /\ requests'[j] = t
    BY <1>2, <1>5, <2>1 DEF InOrder
  <2> QED
    BY <2>2 DEF Segment
<1>7. ASSUME NEW f \in Flusher, pc'[f] = "posting" PROVE Rest(Batch(f) \o outbox)'
  <2>1. PICK t : t = Batch(f) \o outbox
    OBVIOUS
  <2>2. Rest(t)' /\ (Batch(f) \o outbox)' = t
    BY <1>2, <1>5, <1>7, <2>1 DEF InOrder, Batch
  <2> QED
    BY <2>2 DEF Rest
<1>8. ASSUME Free' PROVE Rest(durable)'
  <2>1. PICK t : t = durable
    OBVIOUS
  <2>2. Rest(t)' /\ durable' = t
    BY <1>2, <1>5, <1>8, <2>1 DEF InOrder, Free, durable
  <2> QED
    BY <2>2 DEF Rest
<1>9. /\ \A f \in Flusher : pc'[f] = "posting" =>
            Members(spool') \subseteq Members(Batch(f)')
      /\ \A f \in Flusher : pc'[f] = "answered" =>
            Members(spool') \subseteq Members(stored')
  BY <1>2, <1>3 DEF InOrder, Batch
<1> QED
  BY <1>2, <1>3, <1>4, <1>6, <1>7, <1>8, <1>9 DEF InOrder

\* What the other steps leave alone, when what is still to be stored moves
\* between the request, the spool file and the outbox.
LEMMA MoveOrder ==
    ASSUME InOrder, UNCHANGED <<setting, emitted, stored, requests>>,
           ~setting.spooled => spool' = <<>>,
           \A f \in Flusher : pc'[f] = "posting" =>
               Rest(Batch(f) \o outbox)' /\ Members(spool') \subseteq Members(Batch(f)'),
           \A f \in Flusher : pc'[f] = "answered" =>
               Members(spool') \subseteq Members(stored'),
           Free' => Rest(durable)'
    PROVE  InOrder'
<1>1. ASSUME NEW j \in 1..Len(requests) PROVE Segment(requests[j])'
  <2>1. PICK t : t = requests[j]
    OBVIOUS
  <2>2. Segment(t)' /\ requests'[j] = t
    BY <2>1, SegmentsStay DEF InOrder
  <2> QED
    BY <2>2 DEF Segment
<1>2. Ordered'
  BY DEF InOrder, Ordered
<1> QED
  BY <1>1, <1>2 DEF InOrder

\* The steps that move nothing and begin no post.
LEMMA StillOrder ==
    ASSUME InOrder, UNCHANGED <<setting, emitted, stored, requests, spool, outbox, key>>,
           \A f \in Flusher : pc'[f] \in {"posting", "answered"} => pc'[f] = pc[f],
           Free' => Free
    PROVE  InOrder'
<1>1. ASSUME NEW f \in Flusher, pc'[f] = "posting" PROVE Rest(Batch(f) \o outbox)'
  <2>1. PICK t : t = Batch(f) \o outbox
    OBVIOUS
  <2>2. Rest(t)' /\ (Batch(f) \o outbox)' = t
    BY <1>1, <2>1, SegmentsStay DEF InOrder, Batch
  <2> QED
    BY <2>2 DEF Rest
<1>2. ASSUME Free' PROVE Rest(durable)'
  <2>1. PICK t : t = durable
    OBVIOUS
  <2>2. Rest(t)' /\ durable' = t
    BY <1>2, <2>1, SegmentsStay DEF InOrder, durable
  <2> QED
    BY <2>2 DEF Rest
<1>3. /\ \A f \in Flusher : pc'[f] = "posting" =>
            Members(spool') \subseteq Members(Batch(f)')
      /\ \A f \in Flusher : pc'[f] = "answered" =>
            Members(spool') \subseteq Members(stored')
  BY DEF InOrder, Batch
<1> QED
  BY <1>1, <1>2, <1>3, MoveOrder DEF InOrder

\* The post of the task that is alone ends: its batch is stored, or is held
\* before what the outbox has.
LEMMA EndOrder ==
    ASSUME TypeOK, Typed, AnswerSeen, Evidence, InOrder, Alone,
           NEW f \in Flusher, Answered(f) \/ GiveUp(f)
    PROVE  InOrder'
<1>1. /\ pc[f] = "posting" /\ pc'[f] # "posting"
      /\ \A g \in Flusher : g # f => pc'[g] = pc[g]
      /\ UNCHANGED <<setting, emitted, stored, requests, key>>
  BY DEF Answered, GiveUp, TypeOK, backend
<1>2. /\ key[f] \in 1..Len(requests)
      /\ \A g \in Flusher : pc[g] \in {"posting", "answered"} => key[g] # 0
  BY <1>1 DEF Typed, AnswerSeen, TypeOK
<1>3. \A g \in Flusher : g # f => pc'[g] \notin {"posting", "answered"}
  BY <1>1, <1>2 DEF Alone
<1>4. PICK b \in Seq(Event) : b = Batch(f)
  BY <1>2 DEF Batch, TypeOK
<1>5. PICK o \in Seq(Event) : o = outbox
  BY DEF TypeOK
<1>6. PICK u \in Seq(Event) : u = b \o o /\ Rest(u)
  <2>1. b \o o \in Seq(Event)
    OBVIOUS
  <2> QED
    BY <1>1, <1>4, <1>5, <2>1 DEF InOrder
<1>7. Rest(u)'
  BY <1>1, <1>6, SegmentsStay
<1>8. CASE Answered(f)
  <2>1. /\ Members(b) \subseteq Members(stored) /\ UNCHANGED <<spool, outbox>>
        /\ Members(spool) \subseteq Members(stored)
    BY <1>1, <1>4, <1>8 DEF Answered, Evidence, Batch, InOrder
  <2>2. PICK w : w = spool \o o
    OBVIOUS
  <2>3. Rest(w)
    <3>1. Rest(o)
      BY <1>6, <2>1, RestAfter
    <3> QED
      BY <2>1, <2>2, <3>1, RestRepeated DEF TypeOK, InOrder
  <2>4. Rest(w)' /\ durable' = w
    BY <1>1, <1>5, <2>1, <2>2, <2>3, SegmentsStay DEF durable
  <2>5. Rest(durable)'
    BY <2>4 DEF Rest
  <2> QED
    BY <1>1, <1>3, <2>1, <2>5, MoveOrder DEF InOrder
<1>9. CASE GiveUp(f)
  <2>1. durable' = u /\ (~setting.spooled => spool' = <<>>)
    BY <1>4, <1>5, <1>6, <1>9, ConcatEmpty DEF GiveUp, Hold, durable, InOrder
  <2>2. Rest(durable)'
    BY <1>7, <2>1 DEF Rest
  <2>3. pc'[f] = "idle"
    BY <1>9 DEF GiveUp, TypeOK
  <2> QED
    BY <1>1, <1>3, <2>1, <2>2, <2>3, MoveOrder
<1> QED
  BY <1>8, <1>9

\* The file that is removed was stored.
LEMMA RemoveOrder ==
    ASSUME TypeOK, Typed, AnswerSeen, InOrder, Alone, NEW f \in Flusher, RemoveSpool(f)
    PROVE  InOrder'
<1>1. /\ pc[f] = "answered" /\ pc'[f] = "acking" /\ spool' = <<>>
      /\ \A g \in Flusher : g # f => pc'[g] = pc[g]
      /\ UNCHANGED <<setting, emitted, stored, requests, key, outbox>>
  BY DEF RemoveSpool, TypeOK, backend
<1>2. \A g \in Flusher : g # f => pc[g] # "posting"
  BY <1>1 DEF Typed, AnswerSeen, TypeOK, Alone
<1>3. ASSUME Free' PROVE Rest(durable)'
  <2>1. Free
    BY <1>1, <1>3 DEF Free
  <2>2. Rest(spool \o outbox) /\ Members(spool) \subseteq Members(stored)
    BY <1>1, <2>1 DEF InOrder, durable
  <2>3. PICK o \in Seq(Event) : o = outbox
    BY DEF TypeOK
  <2>4. Rest(o)
    BY <2>2, <2>3, RestAfter DEF TypeOK
  <2>5. Rest(o)' /\ durable' = o
    BY <1>1, <2>3, <2>4, SegmentsStay, ConcatEmpty DEF durable
  <2> QED
    BY <2>5 DEF Rest
<1>4. Members(spool') = {}
  BY <1>1 DEF Members
<1> QED
  BY <1>1, <1>2, <1>3, <1>4, MoveOrder

\* While one task has done the flushing, a step keeps the order.
LEMMA OrderStep ==
    ASSUME TypeOK, Typed, LinesAreTheirOwn, AnswerSeen, Evidence, Alone => InOrder,
           [Next]_vars, Alone', crashes \in Nat
    PROVE  InOrder'
<1>1. Alone /\ InOrder /\ ~Crash
  <2>1. ~Crash
    BY DEF Crash, Alone
  <2>2. crashes' = crashes
    BY <2>1 DEF Next, Continue, Emit, Flush, Deliver, Answered, RemoveSpool,
           RemoveFails, Retry, GiveUp, Consumed, Return, Cancel, vars
  <2>3. \A g \in Flusher : key[g] # 0 => key'[g] # 0
    <3>1. ASSUME NEW f \in Flusher, Flush(f), NEW g \in Flusher, key[g] # 0
          PROVE  key'[g] # 0
      BY <3>1, FlushBuilds
    <3>2. (\E f \in Flusher : Flush(f)) \/ UNCHANGED key
      BY <2>1 DEF Next, Continue, Emit, Deliver, Answered, RemoveSpool,
             RemoveFails, Retry, GiveUp, Consumed, Return, Cancel, vars, client
    <3> QED
      BY <3>1, <3>2
  <2> QED
    BY <2>1, <2>2, <2>3 DEF Alone
<1>2. ASSUME NEW f \in Flusher, Retry(f) \/ Consumed(f) PROVE InOrder'
  BY <1>1, <1>2, StillOrder DEF Retry, Consumed, backend, Free
<1>3. ASSUME NEW f \in Flusher, Return(f) \/ Cancel(f) \/ RemoveFails(f)
      PROVE  InOrder'
  <2>1. /\ \A g \in Flusher : pc'[g] \in {"posting", "answered"} => pc'[g] = pc[g]
        /\ UNCHANGED <<setting, emitted, stored, requests, spool, outbox, key>>
    BY <1>3 DEF Return, Cancel, RemoveFails, TypeOK, backend
  <2>2. Free' => Free
    BY <1>3 DEF Return, Cancel, RemoveFails, Free, TypeOK
  <2> QED
    BY <1>1, <2>1, <2>2, StillOrder
<1>4. CASE UNCHANGED vars
  BY <1>1, <1>4, StillOrder DEF vars, client, backend, Free
<1> QED
  BY <1>1, <1>2, <1>3, <1>4, EmitOrder, FlushOrder, DeliverOrder, EndOrder, RemoveOrder
     DEF Next, Continue

\* While one task of one process has done the flushing, the log of the backend
\* never runs ahead of a report it lacks, whatever is retried, held, posted
\* again or delivered late.
THEOREM StoredAsReported == Spec => []StoredInOrder
<1>1. Init => (Alone => InOrder)
  <2> SUFFICES ASSUME Init PROVE InOrder
    OBVIOUS
  <2>1. /\ emitted = <<>> /\ stored = <<>> /\ requests = <<>>
        /\ spool = <<>> /\ outbox = <<>> /\ \A f \in Flusher : pc[f] = "idle"
    BY DEF Init
  <2>2. Rest(durable)
    <3>1. durable = <<>>
      BY <2>1 DEF durable
    <3> QED
      BY <2>1, <3>1 DEF Rest, RestIn, Segment, SegmentIn, Members
  <2> QED
    BY <2>1, <2>2 DEF InOrder, Ordered, Members
<1>2. TypeOK => crashes \in Nat
  BY SettingType DEF TypeOK
<1>3. TypeOK /\ Typed /\ LinesAreTheirOwn /\ AnswerSeen /\ Evidence
        /\ (Alone => InOrder) /\ [Next]_vars => (Alone => InOrder)'
  BY <1>2, OrderStep
<1>4. (Alone => InOrder) => StoredInOrder
  BY DEF Alone, InOrder, Ordered, StoredInOrder
<1> QED
  BY <1>1, <1>3, <1>4, EvidenceAlways, TypeCorrect, BatchesAreNumbered,
     LinesStayApart, AnswerIsSeen, PTL DEF Spec
=============================================================================
