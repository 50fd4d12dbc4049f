------------------------- MODULE TraceExpandProofs -------------------------
(***************************************************************************)
(* TLAPS proofs about TraceExpand: what is minted from a tool's result is  *)
(* what its manifest's patterns name in it, for any result, patterns and   *)
(* number of them.                                                         *)
(***************************************************************************)
EXTENDS TraceExpand, InductionLemmas

-----------------------------------------------------------------------------
(***************************************************************************)
(* Paths                                                                   *)
(***************************************************************************)
\* Sequences with the same items are one.
LEMMA SameItems ==
    ASSUME NEW S, NEW s \in Seq(S), NEW t \in Seq(S), Len(s) = Len(t),
           \A i \in 1..Len(s) : s[i] = t[i]
    PROVE  s = t
OBVIOUS

\* A path starts with another.
Extends(path, node) ==
    Len(node) <= Len(path) /\ \A i \in 1..Len(node) : path[i] = node[i]

\* One step on.
LEMMA OneStep ==
    ASSUME NEW node \in Seq(Nat), NEW step \in Nat
    PROVE  /\ Append(node, step) \in Seq(Nat)
           /\ Len(Append(node, step)) = Len(node) + 1
           /\ Append(node, step)[Len(node) + 1] = step
           /\ \A i \in 1..Len(node) : Append(node, step)[i] = node[i]
OBVIOUS

\* The nodes of a result that lies in a dict's entry or its items.
LEMMA StepsLead ==
    ASSUME IsResult(result), NEW node \in DOMAIN result
    PROVE  /\ node \in Seq(Nat) /\ result[node] \in Node
           /\ \A step \in Steps(result, node) :
                 step \in Nat /\ Append(node, step) \in DOMAIN result
           /\ result[node].kind = "dict" =>
                 /\ Entry(node) \in DOMAIN result
                 /\ result[Entry(node)].items \in Nat
                 /\ Steps(result, node) = 0..result[Entry(node)].items
                 /\ result[Entry(node)].kind # "list" => result[Entry(node)].items = 0
<1>1. /\ node \in Seq(Nat) /\ result[node] \in Node
      /\ \A step \in Steps(result, node) : Append(node, step) \in DOMAIN result
      /\ result[node].kind = "dict" => Entry(node) \in DOMAIN result
  BY DEF IsResult
<1>2. ASSUME result[node].kind = "dict"
      PROVE  /\ result[Entry(node)].items \in Nat
             /\ Steps(result, node) = 0..result[Entry(node)].items
             /\ result[Entry(node)].kind # "list" => result[Entry(node)].items = 0
  <2>1. PICK entry \in DOMAIN result : entry = Entry(node)
    BY <1>1, <1>2
  <2>2. result[entry] \in Node /\ (result[entry].kind # "list" => result[entry].items = 0)
    BY <2>1 DEF IsResult
  <2> QED
    BY <1>2, <2>1, <2>2 DEF Node, Steps
<1>3. ASSUME NEW step \in Steps(result, node) PROVE step \in Nat
  <2>1. result[node].kind = "dict"
    BY DEF Steps
  <2> QED
    BY <1>2, <2>1
<1> QED
  BY <1>1, <1>2, <1>3

\* What lies further down a path lies below one of the steps on.
LEMMA StepTaken ==
    ASSUME IsResult(result), NEW node \in DOMAIN result, NEW path \in DOMAIN result,
           Extends(path, node), Len(node) < Len(path)
    PROVE  /\ path[Len(node) + 1] \in Steps(result, node)
           /\ Append(node, path[Len(node) + 1]) \in DOMAIN result
           /\ Extends(path, Append(node, path[Len(node) + 1]))
<1>1. node \in Seq(Nat) /\ path \in Seq(Nat)
  BY StepsLead
<1>2. PICK n \in Nat : n = Len(node)
  BY <1>1
<1>3. n + 1 \in 1..Len(path) /\ (n + 1) - 1 = n
  BY <1>1, <1>2
<1>4. SubSeq(path, 1, n) = node
  <2>1. /\ SubSeq(path, 1, n) \in Seq(Nat) /\ Len(SubSeq(path, 1, n)) = n
        /\ \A i \in 1..n : SubSeq(path, 1, n)[i] = path[i]
    BY <1>1, <1>2, <1>3
  <2>2. \A i \in 1..n : path[i] = node[i]
    BY <1>2 DEF Extends
  <2> HIDE DEF Extends
  <2>3. \A i \in 1..Len(SubSeq(path, 1, n)) : SubSeq(path, 1, n)[i] = node[i]
    BY <2>1, <2>2
  <2> QED
    BY <1>1, <1>2, <2>1, <2>3, SameItems
<1>5. path[n + 1] \in Steps(result, node)
  <2>1. \A m \in 1..Len(path) : path[m] \in Steps(result, SubSeq(path, 1, m - 1))
    BY DEF IsResult
  <2> QED
    BY <1>3, <1>4, <2>1
<1>6. path[n + 1] \in Nat /\ Append(node, path[n + 1]) \in DOMAIN result
  BY <1>5, StepsLead
<1>7. Extends(path, Append(node, path[n + 1]))
  <2>1. PICK child : child = Append(node, path[n + 1])
    OBVIOUS
  <2>2. Len(child) = n + 1 /\ child[n + 1] = path[n + 1] /\ \A i \in 1..n : child[i] = node[i]
    BY <1>1, <1>2, <1>6, <2>1, OneStep
  <2>3. \A i \in 1..(n + 1) : i \in 1..n \/ i = n + 1
    BY <1>2
  <2> QED
    BY <1>1, <1>2, <1>3, <2>1, <2>2, <2>3 DEF Extends
<1> QED
  BY <1>2, <1>5, <1>6, <1>7

-----------------------------------------------------------------------------
(***************************************************************************)
(* One segment                                                             *)
(***************************************************************************)
Paths == Seq(DOMAIN result)

\* The first of some paths is one of them.
LEMMA FirstIsOne ==
    ASSUME NEW S, NEW s \in Seq(S)
    PROVE  /\ FirstOne(s) \in Seq(S)
           /\ ToSet(FirstOne(s)) \subseteq ToSet(s)
           /\ ToSet(s) # {} => ToSet(FirstOne(s)) # {}
<1>1. CASE s = <<>>
  BY <1>1 DEF FirstOne, ToSet
<1>2. CASE s # <<>>
  <2>1. Head(s) \in S /\ Head(s) \in ToSet(s)
    BY <1>2, SeqMembers
  <2>2. FirstOne(s) = <<Head(s)>>
    BY <1>2 DEF FirstOne
  <2>3. \A x : <<x>> \in Seq({x}) /\ ToSet(<<x>>) = {x}
    BY DEF ToSet
  <2>4. \A x \in S : <<x>> \in Seq(S)
    OBVIOUS
  <2>5. PICK x \in S : x = Head(s)
    BY <2>1
  <2>6. FirstOne(s) \in Seq(S) /\ ToSet(FirstOne(s)) = {x}
    BY <2>2, <2>3, <2>4, <2>5
  <2> QED
    BY <2>1, <2>5, <2>6
<1> QED
  BY <1>1, <1>2

\* What a node gives for a segment.
LEMMA SegmentFinds ==
    ASSUME IsResult(result), NEW node \in DOMAIN result, NEW segment,
           NEW rest \in [DOMAIN result -> Paths]
    PROVE  /\ Segment(node, segment, rest) \in Paths
           /\ result[node].kind # "dict" => ToSet(Segment(node, segment, rest)) = {}
           /\ result[node].kind = "dict" /\ segment = "field" =>
                 Segment(node, segment, rest) = FirstOne(rest[Entry(node)])
           /\ result[node].kind = "dict" /\ segment # "field" =>
                 \A x : x \in ToSet(Segment(node, segment, rest)) <=>
                           \E i \in 1..result[Entry(node)].items :
                               x \in ToSet(rest[Append(node, i)])
<1>1. <<>> \in Paths /\ ToSet(<<>>) = {}
  BY DEF Paths, ToSet
<1>2. CASE result[node].kind # "dict"
  BY <1>1, <1>2 DEF Segment
<1>3. CASE result[node].kind = "dict" /\ segment = "field"
  <2>1. Segment(node, segment, rest) = FirstOne(rest[Entry(node)])
    BY <1>3 DEF Segment
  <2>2. rest[Entry(node)] \in Seq(DOMAIN result)
    BY <1>3, StepsLead DEF Paths
  <2> QED
    BY <1>3, <2>1, <2>2, FirstIsOne DEF Paths
<1>4. CASE result[node].kind = "dict" /\ segment # "field"
  <2>1. PICK m \in Nat : m = result[Entry(node)].items
    BY <1>4, StepsLead
  <2>2. \A i \in 1..m : Append(node, i) \in DOMAIN result
    BY <1>4, <2>1, StepsLead
  <2>3. CASE result[Entry(node)].kind # "list"
    <3>1. Segment(node, segment, rest) = <<>>
      BY <1>4, <2>3 DEF Segment
    <3>2. m = 0
      BY <1>4, <2>1, <2>3, StepsLead
    <3> QED
      BY <1>1, <1>4, <2>1, <3>1, <3>2
  <2>4. CASE result[Entry(node)].kind = "list"
    <3> DEFINE lists == [i \in 1..m |-> rest[Append(node, i)]]
    <3>1. Segment(node, segment, rest) = FlattenSeq(lists)
      BY <1>4, <2>1, <2>4 DEF Segment, AllItems
    <3>2. lists \in Seq(Seq(DOMAIN result)) /\ Len(lists) = m
      <4>1. \A i \in 1..m : rest[Append(node, i)] \in Seq(DOMAIN result)
        BY <2>2 DEF Paths
      <4> QED
        BY <2>1, <4>1
    <3>3. \A i \in 1..m : lists[i] = rest[Append(node, i)]
      OBVIOUS
    <3> HIDE DEF lists
    <3>4. /\ FlattenSeq(lists) \in Seq(DOMAIN result)
          /\ \A x : x \in ToSet(FlattenSeq(lists)) <=> \E i \in 1..m : x \in ToSet(lists[i])
      BY <3>2, AllHold
    <3> QED
      BY <1>4, <2>1, <3>1, <3>3, <3>4 DEF Paths
  <2> QED
    BY <2>3, <2>4
<1> QED
  BY <1>2, <1>3, <1>4

-----------------------------------------------------------------------------
(***************************************************************************)
(* All segments                                                            *)
(***************************************************************************)
\* f[k] is what the last k segments of a pattern find below each node.
Finds(f, pattern) ==
    /\ f \in [0..Len(pattern) -> [DOMAIN result -> Paths]]
    /\ \A node \in DOMAIN result : f[0][node] = Value(node)
    /\ \A k \in 1..Len(pattern) : \A node \in DOMAIN result :
          f[k][node] = Segment(node, pattern[Len(pattern) - k + 1], f[k - 1])

\* Expand is such a function's value for all of the pattern at the root.
LEMMA ExpandFinds ==
    ASSUME IsResult(result), NEW pattern \in Seq({"field", "list"})
    PROVE  \E f : Finds(f, pattern) /\ Expand(pattern) = f[Len(pattern)][<<>>]
<1>1. PICK N \in Nat : N = Len(pattern)
  OBVIOUS
<1> DEFINE T == DOMAIN result
<1> DEFINE P == [T -> Paths]
<1> DEFINE start == [node \in T |-> Value(node)]
<1>2. start \in P
  <2>1. ASSUME NEW node \in T PROVE Value(node) \in Paths
    <3>1. <<>> \in Seq(T) /\ <<node>> \in Seq(T)
      OBVIOUS
    <3> QED
      BY <3>1 DEF Value, Paths
  <2> QED
    BY <2>1
<1> DEFINE step == [x \in Nat \X P |->
                      [node \in T |-> Segment(node, pattern[N - x[1]], x[2])]]
<1>3. step \in [Nat \X P -> P]
  <2>1. ASSUME NEW x \in Nat \X P
        PROVE  [node \in T |-> Segment(node, pattern[N - x[1]], x[2])] \in P
    <3>1. x[2] \in [DOMAIN result -> Paths]
      OBVIOUS
    <3>2. \A node \in DOMAIN result : Segment(node, pattern[N - x[1]], x[2]) \in Paths
      BY <3>1, SegmentFinds
    <3> QED
      BY <3>2
  <2> QED
    BY <2>1
<1>4. \A n \in Nat, g \in P :
         step[<<n, g>>] = [node \in T |-> Segment(node, pattern[N - n], g)]
  OBVIOUS
<1> HIDE DEF step
<1>5. PICK g : Recurs(g, P, start, step)
  <2> HIDE DEF P, start
  <2> QED
    BY <1>2, <1>3, Recursion
<1> DEFINE Follows(f) ==
       f = [k \in 0..Len(pattern) |->
               IF k = 0 THEN [node \in T |-> Value(node)]
               ELSE [node \in T |->
                        Segment(node, pattern[Len(pattern) - k + 1], f[k - 1])]]
<1> DEFINE h == [k \in 0..N |-> g[k]]
<1>6. Follows(h)
  <2>1. ASSUME NEW k \in 0..N
        PROVE  h[k] = IF k = 0 THEN [node \in T |-> Value(node)]
                      ELSE [node \in T |-> Segment(node, pattern[N - k + 1], h[k - 1])]
    <3>1. CASE k = 0
      BY <1>5, <3>1 DEF Recurs
    <3>2. CASE k # 0
      <4>1. PICK n \in Nat : k = n + 1 /\ k - 1 = n /\ n \in 0..N
        BY <1>1, <3>2
      <4>2. g[n] \in P /\ g[n + 1] = step[<<n, g[n]>>]
        <5> HIDE DEF P, start
        <5> QED
          BY <1>5 DEF Recurs
      <4>3. g[n + 1] = [node \in T |-> Segment(node, pattern[N - n], g[n])]
        BY <1>4, <4>2
      <4>4. N - k + 1 = N - n
        BY <1>1, <4>1
      <4>5. h[k] = g[n + 1] /\ h[k - 1] = g[n]
        BY <4>1
      <4> HIDE DEF h
      <4> QED
        BY <3>2, <4>3, <4>4, <4>5
    <3> QED
      BY <3>1, <3>2
  <2>2. h = [k \in 0..N |-> h[k]]
    OBVIOUS
  <2> HIDE DEF h
  <2> QED
    BY <1>1, <2>1, <2>2
<1> HIDE DEF h
<1>7. PICK F : F = CHOOSE f : Follows(f)
  OBVIOUS
<1>8. Expand(pattern) = F[Len(pattern)][<<>>]
  BY <1>7 DEF Expand
<1>9. Follows(F)
  <2> HIDE DEF Follows
  <2> QED
    BY <1>6, <1>7
<1>10. Finds(F, pattern)
  <2>1. /\ DOMAIN F = 0..N
        /\ F[0] = start
        /\ \A k \in 1..N : F[k] = [node \in T |-> Segment(node, pattern[N - k + 1], F[k - 1])]
        /\ F = [k \in 0..N |-> F[k]]
    <3> DEFINE layer(k) == IF k = 0 THEN start
                           ELSE [node \in T |-> Segment(node, pattern[N - k + 1], F[k - 1])]
    <3>1. F = [k \in 0..N |-> layer(k)]
      BY <1>1, <1>9
    <3>2. /\ layer(0) = start
          /\ \A k \in 1..N :
                layer(k) = [node \in T |-> Segment(node, pattern[N - k + 1], F[k - 1])]
      <4> HIDE DEF start
      <4> QED
        BY <1>1
    <3> HIDE DEF Follows, layer, start
    <3>3. 0 \in 0..N /\ \A k \in 1..N : k \in 0..N
      BY <1>1
    <3>4. DOMAIN F = 0..N /\ \A k \in 0..N : F[k] = layer(k)
      BY <3>1
    <3>5. F = [k \in 0..N |-> F[k]]
      BY <3>1, <3>4
    <3> QED
      BY <3>2, <3>3, <3>4, <3>5
  <2> HIDE DEF Follows
  <2> DEFINE Typed == {n \in Nat : n <= N => F[n] \in P}
  <2>2. 0 \in Typed
    BY <1>2, <2>1
  <2>3. ASSUME NEW n \in Nat, n \in Typed PROVE n + 1 \in Typed
    <3> SUFFICES ASSUME n + 1 <= N PROVE F[n + 1] \in P
      OBVIOUS
    <3>1. F[n] \in [DOMAIN result -> Paths]
      BY <2>3
    <3>2. PICK k \in 1..N : k = n + 1 /\ k - 1 = n
      BY <1>1
    <3>3. F[k] = [node \in T |-> Segment(node, pattern[N - k + 1], F[n])]
      BY <2>1, <3>2
    <3>4. \A node \in T : Segment(node, pattern[N - k + 1], F[n]) \in Paths
      BY <3>1, SegmentFinds
    <3> QED
      BY <3>2, <3>3, <3>4
  <2>4. Nat \subseteq Typed
    <3> HIDE DEF Typed
    <3> QED
      BY <2>2, <2>3, Induction
  <2>5. \A k \in 0..N : F[k] \in P
    BY <1>1, <2>4
  <2>6. F \in [0..N -> P]
    BY <2>1, <2>5
  <2>7. \A node \in T : F[0][node] = Value(node)
    BY <2>1
  <2>8. \A k \in 1..N : \A node \in T :
           F[k][node] = Segment(node, pattern[N - k + 1], F[k - 1])
    BY <2>1
  <2> QED
    BY <1>1, <2>6, <2>7, <2>8 DEF Finds
<1> QED
  BY <1>8, <1>10

-----------------------------------------------------------------------------
(***************************************************************************)
(* What is found is what is there                                          *)
(***************************************************************************)
\* A path is as a pattern's first segments say.
Begun(node, pattern) ==
    /\ Len(node) <= Len(pattern)
    /\ \A i \in 1..Len(node) : pattern[i] = IF node[i] = 0 THEN "field" ELSE "list"

\* The values a pattern names that lie below a node.
Below(node, pattern) == {path \in Present({pattern}) : Extends(path, node)}

\* The paths found are among those named; some of them if there are any, and all
\* of them if no list lies under a field.
Exact(found, node, pattern) ==
    /\ found \subseteq Below(node, pattern)
    /\ Below(node, pattern) # {} => found # {}
    /\ Flat(pattern) => Below(node, pattern) \subseteq found

\* What a pattern names, spelled out.
LEMMA BelowMeans ==
    ASSUME IsResult(result), NEW pattern \in Seq({"field", "list"}),
           NEW node \in DOMAIN result, NEW path \in Below(node, pattern)
    PROVE  /\ path \in DOMAIN result /\ path \in Seq(Nat)
           /\ result[path].kind = "scalar"
           /\ Len(path) = Len(pattern) /\ Extends(path, node)
           /\ \A i \in 1..Len(pattern) : pattern[i] = IF path[i] = 0 THEN "field" ELSE "list"
<1>1. path \in DOMAIN result /\ result[path].kind = "scalar" /\ Fits(path, pattern)
  BY DEF Below, Present
<1>2. path \in Seq(Nat) /\ Extends(path, node)
  BY <1>1, StepsLead DEF Below
<1>3. Len(path) = Len(pattern) /\ DOMAIN path = 1..Len(pattern)
  BY <1>1, <1>2 DEF Fits
<1> QED
  BY <1>1, <1>2, <1>3 DEF Fits

\* A pattern's segments used up, the node itself is the value or there is none.
LEMMA ExactAtTheEnd ==
    ASSUME IsResult(result), NEW pattern \in Seq({"field", "list"}),
           NEW node \in DOMAIN result, Len(node) = Len(pattern), Begun(node, pattern)
    PROVE  Exact(ToSet(Value(node)), node, pattern)
<1>1. node \in Seq(Nat) /\ DOMAIN node = 1..Len(node)
  <2>1. node \in Seq(Nat)
    BY StepsLead
  <2> QED
    BY <2>1
<1>2. ASSUME NEW path \in Below(node, pattern) PROVE path = node
  <2>1. path \in Seq(Nat) /\ Len(path) = Len(node) /\ Extends(path, node)
    BY BelowMeans
  <2>2. \A i \in 1..Len(path) : path[i] = node[i]
    BY <2>1 DEF Extends
  <2> HIDE DEF Extends
  <2> QED
    BY <1>1, <2>1, <2>2, SameItems
<1>3. CASE result[node].kind = "scalar"
  <2>1. Fits(node, pattern)
    BY <1>1 DEF Begun, Fits
  <2>2. Extends(node, node)
    BY <1>1 DEF Extends
  <2>3. node \in Below(node, pattern)
    BY <1>3, <2>1, <2>2 DEF Below, Present
  <2>4. Value(node) = <<node>> /\ \A x : ToSet(<<x>>) = {x}
    BY <1>3 DEF Value, ToSet
  <2> QED
    BY <1>2, <2>3, <2>4 DEF Exact
<1>4. CASE result[node].kind # "scalar"
  <2>1. Below(node, pattern) = {}
    BY <1>2, <1>4, BelowMeans
  <2>2. Value(node) = <<>> /\ ToSet(<<>>) = {}
    BY <1>4 DEF Value, ToSet
  <2> QED
    BY <2>1, <2>2 DEF Exact
<1> QED
  BY <1>3, <1>4

\* A value named below a node is named below the step it takes, which is the one
\* the pattern's next segment asks for, and the other way round.
LEMMA BelowStep ==
    ASSUME IsResult(result), NEW pattern \in Seq({"field", "list"}),
           NEW node \in DOMAIN result, Begun(node, pattern), Len(node) < Len(pattern)
    PROVE  /\ \A path \in Below(node, pattern) :
                 /\ path[Len(node) + 1] \in Steps(result, node)
                 /\ path \in Below(Append(node, path[Len(node) + 1]), pattern)
                 /\ pattern[Len(node) + 1] = "field" <=> path[Len(node) + 1] = 0
           /\ \A step \in Steps(result, node) :
                 Below(Append(node, step), pattern) \subseteq Below(node, pattern)
           /\ \A step \in Steps(result, node) :
                 (pattern[Len(node) + 1] = "field" <=> step = 0) =>
                     Begun(Append(node, step), pattern)
<1>1. PICK n \in Nat : n = Len(node) /\ n + 1 \in 1..Len(pattern) /\ n + 1 <= Len(pattern)
  <2>1. node \in Seq(Nat)
    BY StepsLead
  <2> QED
    BY <2>1
<1>2. pattern[n + 1] \in {"field", "list"}
  BY <1>1
<1>3. ASSUME NEW path \in Below(node, pattern)
      PROVE  /\ path[n + 1] \in Steps(result, node)
             /\ path \in Below(Append(node, path[n + 1]), pattern)
             /\ pattern[n + 1] = "field" <=> path[n + 1] = 0
  <2>1. path \in DOMAIN result /\ Extends(path, node) /\ Len(node) < Len(path)
    BY BelowMeans
  <2>2. path[n + 1] \in Steps(result, node) /\ Extends(path, Append(node, path[n + 1]))
    BY <1>1, <2>1, StepTaken
  <2>3. pattern[n + 1] = IF path[n + 1] = 0 THEN "field" ELSE "list"
    BY <1>1, BelowMeans
  <2> QED
    BY <2>2, <2>3 DEF Below
<1>4. ASSUME NEW step \in Steps(result, node)
      PROVE  /\ Below(Append(node, step), pattern) \subseteq Below(node, pattern)
             /\ (pattern[n + 1] = "field" <=> step = 0) => Begun(Append(node, step), pattern)
  <2>1. PICK child : child = Append(node, step)
    OBVIOUS
  <2>2. /\ Len(child) = n + 1 /\ child[n + 1] = step
        /\ \A i \in 1..n : child[i] = node[i]
    BY <1>1, <2>1, OneStep, StepsLead
  <2>3. \A path : Extends(path, child) => Extends(path, node)
    <3> SUFFICES ASSUME NEW path, Extends(path, child) PROVE Extends(path, node)
      OBVIOUS
    <3>1. n + 1 <= Len(path) /\ \A i \in 1..(n + 1) : path[i] = child[i]
      BY <2>2 DEF Extends
    <3>2. \A i \in 1..n : i \in 1..(n + 1)
      BY <1>1
    <3>3. \A i \in 1..n : path[i] = node[i]
      BY <2>2, <3>1, <3>2
    <3>4. n <= Len(path)
      BY <1>1, <3>1
    <3> QED
      BY <1>1, <3>3, <3>4 DEF Extends
  <2>4. ASSUME pattern[n + 1] = "field" <=> step = 0 PROVE Begun(child, pattern)
    <3>1. pattern[n + 1] = IF child[n + 1] = 0 THEN "field" ELSE "list"
      BY <1>2, <2>2, <2>4
    <3>2. \A i \in 1..n : pattern[i] = IF child[i] = 0 THEN "field" ELSE "list"
      BY <1>1, <2>2 DEF Begun
    <3>3. \A i \in 1..(n + 1) : i \in 1..n \/ i = n + 1
      BY <1>1
    <3> QED
      BY <1>1, <2>2, <3>1, <3>2, <3>3 DEF Begun
  <2> QED
    BY <2>1, <2>3, <2>4 DEF Below
<1> QED
  BY <1>1, <1>3, <1>4

\* Under a field of a flat pattern there is nothing but fields, hence one value
\* at most.
LEMMA OneUnderFields ==
    ASSUME IsResult(result), NEW pattern \in Seq({"field", "list"}), Flat(pattern),
           NEW node \in DOMAIN result, Len(node) < Len(pattern),
           pattern[Len(node) + 1] = "field",
           NEW p \in Below(node, pattern), NEW q \in Below(node, pattern)
    PROVE  p = q
<1>1. /\ p \in Seq(Nat) /\ q \in Seq(Nat) /\ Len(p) = Len(pattern) /\ Len(q) = Len(pattern)
      /\ Extends(p, node) /\ Extends(q, node)
      /\ \A i \in 1..Len(pattern) :
            /\ pattern[i] = IF p[i] = 0 THEN "field" ELSE "list"
            /\ pattern[i] = IF q[i] = 0 THEN "field" ELSE "list"
  BY BelowMeans
<1>2. PICK n \in Nat : n = Len(node) /\ n + 1 \in 1..Len(pattern)
  <2>1. node \in Seq(Nat)
    BY StepsLead
  <2> QED
    BY <2>1
<1>3. ASSUME NEW i \in 1..Len(p) PROVE p[i] = q[i]
  <2>1. CASE i \in 1..n
    BY <1>1, <1>2, <2>1 DEF Extends
  <2>2. CASE i \notin 1..n
    <3>1. i \in 1..Len(pattern) /\ (i = n + 1 \/ n + 1 < i)
      <4>1. i \in 1..Len(pattern)
        BY <1>1
      <4>2. i \in Nat /\ 1 <= i /\ ~(i <= n)
        BY <1>2, <2>2, <4>1
      <4> QED
        BY <1>2, <4>1, <4>2
    <3>2. pattern[i] \in {"field", "list"} /\ DOMAIN pattern = 1..Len(pattern)
      BY <3>1
    <3>3. pattern[i] = "field"
      BY <1>2, <3>1, <3>2 DEF Flat
    <3>4. p[i] = 0 /\ q[i] = 0
      BY <1>1, <3>1, <3>3
    <3> QED
      BY <3>4
  <2> QED
    BY <2>1, <2>2
<1> QED
  BY <1>1, <1>3, SameItems

\* If what is found below each step on is exact, so is what a segment finds.
LEMMA ExactByStep ==
    ASSUME IsResult(result), NEW pattern \in Seq({"field", "list"}),
           NEW node \in DOMAIN result, Begun(node, pattern), Len(node) < Len(pattern),
           NEW rest \in [DOMAIN result -> Paths],
           \A child \in DOMAIN result :
               Len(child) = Len(node) + 1 /\ Begun(child, pattern) =>
                   Exact(ToSet(rest[child]), child, pattern)
    PROVE  Exact(ToSet(Segment(node, pattern[Len(node) + 1], rest)), node, pattern)
<1>1. PICK n \in Nat, segment \in {"field", "list"} :
          n = Len(node) /\ segment = pattern[n + 1]
  <2>1. node \in Seq(Nat)
    BY StepsLead
  <2>2. Len(node) + 1 \in 1..Len(pattern)
    BY <2>1
  <2> QED
    BY <2>1, <2>2
<1>2. PICK found : found = ToSet(Segment(node, segment, rest))
  OBVIOUS
<1>3. \A step \in Steps(result, node) :
          (segment = "field" <=> step = 0) =>
              /\ Append(node, step) \in DOMAIN result
              /\ Exact(ToSet(rest[Append(node, step)]), Append(node, step), pattern)
  <2> SUFFICES ASSUME NEW step \in Steps(result, node), segment = "field" <=> step = 0
               PROVE  /\ Append(node, step) \in DOMAIN result
                      /\ Exact(ToSet(rest[Append(node, step)]), Append(node, step), pattern)
    OBVIOUS
  <2>1. Append(node, step) \in DOMAIN result /\ Len(Append(node, step)) = Len(node) + 1
    BY StepsLead, OneStep
  <2>2. Begun(Append(node, step), pattern)
    BY <1>1, BelowStep
  <2> QED
    BY <2>1, <2>2
<1>4. CASE result[node].kind # "dict"
  <2>1. found = {}
    BY <1>2, <1>4, SegmentFinds
  <2>2. Steps(result, node) = {}
    BY <1>4 DEF Steps
  <2>3. Below(node, pattern) = {}
    BY <2>2, BelowStep
  <2> QED
    BY <1>1, <1>2, <2>1, <2>3 DEF Exact
<1>5. CASE result[node].kind = "dict" /\ segment = "field"
  <2>1. 0 \in Steps(result, node)
    BY <1>5, StepsLead
  <2>2. PICK child : child = Entry(node) /\ child = Append(node, 0)
    BY DEF Entry
  <2>3. child \in DOMAIN result /\ Exact(ToSet(rest[child]), child, pattern)
    BY <1>3, <1>5, <2>1, <2>2
  <2>4. Below(child, pattern) = Below(node, pattern)
    <3>1. Below(child, pattern) \subseteq Below(node, pattern)
      BY <2>1, <2>2, BelowStep
    <3>2. ASSUME NEW path \in Below(node, pattern) PROVE path \in Below(child, pattern)
      <4>1. /\ pattern[n + 1] = "field" <=> path[n + 1] = 0
            /\ path \in Below(Append(node, path[n + 1]), pattern)
        BY <1>1, BelowStep
      <4> QED
        BY <1>1, <1>5, <2>2, <4>1
    <3> QED
      BY <3>1, <3>2
  <2>5. /\ found \subseteq ToSet(rest[child])
        /\ ToSet(rest[child]) # {} => found # {}
    <3>1. rest[child] \in Seq(DOMAIN result)
      BY <2>3 DEF Paths
    <3>2. Segment(node, segment, rest) = FirstOne(rest[child])
      BY <1>5, <2>2, SegmentFinds
    <3> QED
      BY <1>2, <3>1, <3>2, FirstIsOne
  <2>6. ASSUME Flat(pattern) PROVE Below(node, pattern) \subseteq found
    <3> SUFFICES ASSUME NEW q \in Below(node, pattern) PROVE q \in found
      OBVIOUS
    <3>1. PICK p : p \in found
      BY <2>3, <2>4, <2>5 DEF Exact
    <3>2. p \in Below(node, pattern)
      BY <2>3, <2>4, <2>5, <3>1 DEF Exact
    <3>3. p = q
      BY <1>1, <1>5, <2>6, <3>2, OneUnderFields
    <3> QED
      BY <3>1, <3>3
  <2> QED
    BY <1>1, <1>2, <2>3, <2>4, <2>5, <2>6 DEF Exact
<1>6. CASE result[node].kind = "dict" /\ segment # "field"
  <2>1. PICK m \in Nat : m = result[Entry(node)].items /\ Steps(result, node) = 0..m
    BY <1>6, StepsLead
  <2>2. \A x : x \in found <=> \E i \in 1..m : x \in ToSet(rest[Append(node, i)])
    BY <1>2, <1>6, <2>1, SegmentFinds
  <2>3. \A i \in 1..m :
           /\ Exact(ToSet(rest[Append(node, i)]), Append(node, i), pattern)
           /\ Below(Append(node, i), pattern) \subseteq Below(node, pattern)
    <3>1. \A i \in 1..m : i \in Steps(result, node) /\ i # 0
      BY <2>1
    <3> QED
      BY <1>3, <1>6, <3>1, BelowStep
  <2>4. ASSUME NEW q \in Below(node, pattern)
        PROVE  \E i \in 1..m : q \in Below(Append(node, i), pattern)
    <3>1. /\ q[n + 1] \in 0..m /\ q[n + 1] # 0
          /\ q \in Below(Append(node, q[n + 1]), pattern)
      BY <1>1, <1>6, <2>1, BelowStep
    <3>2. q[n + 1] \in 1..m
      BY <2>1, <3>1
    <3> QED
      BY <3>1, <3>2
  <2>5. found \subseteq Below(node, pattern)
    BY <2>2, <2>3 DEF Exact
  <2>6. ASSUME NEW q \in Below(node, pattern) PROVE found # {}
    <3>1. PICK i \in 1..m : q \in Below(Append(node, i), pattern)
      BY <2>4
    <3>2. Exact(ToSet(rest[Append(node, i)]), Append(node, i), pattern)
      BY <2>3
    <3>3. PICK x : x \in ToSet(rest[Append(node, i)])
      BY <3>1, <3>2 DEF Exact
    <3> QED
      BY <2>2, <3>3
  <2>7. ASSUME Flat(pattern), NEW q \in Below(node, pattern) PROVE q \in found
    <3>1. PICK i \in 1..m : q \in Below(Append(node, i), pattern)
      BY <2>4
    <3>2. Exact(ToSet(rest[Append(node, i)]), Append(node, i), pattern)
      BY <2>3
    <3>3. q \in ToSet(rest[Append(node, i)])
      BY <2>7, <3>1, <3>2 DEF Exact
    <3> QED
      BY <2>2, <3>3
  <2> QED
    BY <1>1, <1>2, <2>5, <2>6, <2>7 DEF Exact
<1> QED
  BY <1>4, <1>5, <1>6

\* What _expand finds of a pattern in a result.
LEMMA ExpandIsExact ==
    ASSUME IsResult(result), NEW pattern \in Seq({"field", "list"})
    PROVE  /\ Expand(pattern) \in Paths
           /\ ToSet(Expand(pattern)) \subseteq Present({pattern})
           /\ Present({pattern}) # {} => ToSet(Expand(pattern)) # {}
           /\ Flat(pattern) => Present({pattern}) \subseteq ToSet(Expand(pattern))
<1>1. PICK N \in Nat : N = Len(pattern)
  OBVIOUS
<1>2. PICK f : Finds(f, pattern) /\ Expand(pattern) = f[N][<<>>]
  BY <1>1, ExpandFinds
<1> DEFINE AllExact(k) ==
       \A node \in DOMAIN result :
           Len(node) + k = N /\ Begun(node, pattern) =>
               Exact(ToSet(f[k][node]), node, pattern)
<1> DEFINE T == {k \in Nat : k <= N => AllExact(k)}
<1>3. 0 \in T
  <2>1. ASSUME NEW node \in DOMAIN result, Len(node) + 0 = N, Begun(node, pattern)
        PROVE  Exact(ToSet(f[0][node]), node, pattern)
    <3>1. node \in Seq(Nat) /\ Len(node) \in Nat
      <4>1. node \in Seq(Nat)
        BY StepsLead
      <4> QED
        BY <4>1
    <3>2. Len(node) = Len(pattern)
      BY <1>1, <2>1, <3>1
    <3>3. f[0][node] = Value(node)
      BY <1>2 DEF Finds
    <3> QED
      BY <2>1, <3>2, <3>3, ExactAtTheEnd
  <2> QED
    BY <2>1
<1>4. ASSUME NEW k \in Nat, k \in T PROVE k + 1 \in T
  <2> SUFFICES ASSUME k + 1 <= N,
                      NEW node \in DOMAIN result, Len(node) + (k + 1) = N,
                      Begun(node, pattern)
               PROVE  Exact(ToSet(f[k + 1][node]), node, pattern)
    OBVIOUS
  <2>1. PICK n \in Nat : n = Len(node)
    <3>1. node \in Seq(Nat)
      BY StepsLead
    <3> QED
      BY <3>1
  <2>2. PICK j \in 1..N : j = k + 1 /\ j - 1 = k /\ k \in 0..N
    BY <1>1
  <2>3. N - j + 1 = n + 1 /\ n < N
    BY <1>1, <2>1, <2>2
  <2>4. f[j][node] = Segment(node, pattern[n + 1], f[k])
    BY <1>1, <1>2, <2>2, <2>3 DEF Finds
  <2>5. f[k] \in [DOMAIN result -> Paths]
    BY <1>1, <1>2, <2>2 DEF Finds
  <2>6. ASSUME NEW child \in DOMAIN result, Len(child) = n + 1, Begun(child, pattern)
        PROVE  Exact(ToSet(f[k][child]), child, pattern)
    <3>1. k <= N /\ AllExact(k)
      BY <1>1, <1>4, <2>2
    <3>2. Len(child) + k = N
      BY <1>1, <2>1, <2>6
    <3> QED
      BY <2>6, <3>1, <3>2
  <2> HIDE DEF T, AllExact
  <2>7. Exact(ToSet(Segment(node, pattern[n + 1], f[k])), node, pattern)
    BY <1>1, <2>1, <2>3, <2>5, <2>6, ExactByStep
  <2> QED
    BY <2>2, <2>4, <2>7
<1>5. Nat \subseteq T
  <2> HIDE DEF T
  <2> QED
    BY <1>3, <1>4, Induction
<1>6. <<>> \in DOMAIN result /\ Len(<<>>) = 0
  BY DEF IsResult
<1>7. Begun(<<>>, pattern)
  BY <1>1 DEF Begun
<1>8. Below(<<>>, pattern) = Present({pattern})
  <2>1. \A path \in DOMAIN result : Extends(path, <<>>)
    <3> SUFFICES ASSUME NEW path \in DOMAIN result PROVE Extends(path, <<>>)
      OBVIOUS
    <3>1. path \in Seq(Nat)
      BY StepsLead
    <3> QED
      BY <3>1 DEF Extends
  <2> QED
    BY <2>1 DEF Below, Present
<1>9. Exact(ToSet(f[N][<<>>]), <<>>, pattern)
  <2>1. AllExact(N)
    <3>1. N \in T /\ N <= N
      BY <1>1, <1>5
    <3> QED
      BY <3>1
  <2>2. Len(<<>>) + N = N
    BY <1>1
  <2> QED
    BY <1>6, <1>7, <2>1, <2>2
<1>10. f[N][<<>>] \in Paths
  <2>1. N \in 0..N
    BY <1>1
  <2> QED
    BY <1>1, <1>2, <1>6, <2>1 DEF Finds
<1> QED
  BY <1>2, <1>8, <1>9, <1>10 DEF Exact

-----------------------------------------------------------------------------
(***************************************************************************)
(* The theorem                                                             *)
(***************************************************************************)
Expanding ==
    /\ IsResult(result)
    /\ fields \in Seq(Pattern)
    /\ done \subseteq Pattern
    /\ produced \in Paths
    /\ FlatIsExact

\* Nothing is minted at first.
LEMMA InitExpanding == Init => Expanding
<1> SUFFICES ASSUME Init PROVE Expanding
  OBVIOUS
<1>1. IsResult(result)
  BY ExpandConfig DEF Init
<1>2. fields \in Seq(Pattern)
  <2>1. PICK m \in 0..MaxFields : fields \in [1..m -> Pattern]
    BY DEF Init, BoundedSeq, SeqOf
  <2>2. m \in Nat
    BY <2>1, ExpandConfig
  <2> QED
    BY <2>1, <2>2
<1>3. done = {} /\ produced = <<>> /\ produced \in Paths /\ ToSet(produced) = {}
  BY DEF Init, Paths, ToSet
<1>4. FlatIsExact
  BY <1>3 DEF FlatIsExact
<1> QED
  BY <1>1, <1>2, <1>3, <1>4 DEF Expanding

\* A pattern more keeps what the others found, and adds its own.
LEMMA MintKeeps ==
    ASSUME Expanding, Mint
    PROVE  Expanding'
<1>1. PICK pattern, more : pattern = Head(fields) /\ more = Expand(pattern)
  OBVIOUS
<1>2. /\ fields # <<>> /\ fields \in Seq(Pattern)
      /\ produced' = produced \o more
      /\ done' = done \cup {pattern}
      /\ fields' = Tail(fields)
      /\ result' = result
  BY <1>1 DEF Mint, Expanding
<1>3. pattern \in Pattern /\ fields' \in Seq(Pattern)
  BY <1>1, <1>2
<1>4. pattern \in Seq({"field", "list"})
  BY <1>3, ExpandConfig
<1>5. /\ more \in Paths
      /\ ToSet(more) \subseteq Present({pattern})
      /\ Present({pattern}) # {} => ToSet(more) # {}
      /\ Flat(pattern) => Present({pattern}) \subseteq ToSet(more)
  BY <1>1, <1>4, ExpandIsExact DEF Expanding
<1>6. produced' \in Paths /\ ToSet(produced') = ToSet(produced) \cup ToSet(more)
  <2>1. produced \in Seq(DOMAIN result) /\ more \in Seq(DOMAIN result)
    BY <1>5 DEF Expanding, Paths
  <2>2. /\ produced \o more \in Seq(DOMAIN result)
        /\ \A x : x \in ToSet(produced \o more) <=> x \in ToSet(produced) \/ x \in ToSet(more)
    BY <2>1, BothHold
  <2> QED
    BY <1>2, <2>2 DEF Paths
<1>7. \A patterns : Present(patterns)' = Present(patterns)
  BY <1>2 DEF Present
<1>8. Present(done') = Present(done) \cup Present({pattern})
  BY <1>2 DEF Present
<1>9. FlatIsExact'
  <2>1. ToSet(produced') \subseteq Present(done')
    BY <1>5, <1>6, <1>8 DEF Expanding, FlatIsExact
  <2>2. ASSUME NEW p \in done'
        PROVE  /\ Present({p}) # {} => Present({p}) \cap ToSet(produced') # {}
               /\ Flat(p) => Present({p}) \subseteq ToSet(produced')
    <3>1. CASE p \in done
      BY <1>6, <3>1 DEF Expanding, FlatIsExact
    <3>2. CASE p = pattern
      BY <1>5, <1>6, <3>2
    <3> QED
      BY <1>2, <3>1, <3>2
  <2> QED
    <3>1. Present(done)' = Present(done') /\ \A p \in done' : Present({p})' = Present({p})
      BY <1>2 DEF Present
    <3>2. ToSet(produced)' = ToSet(produced')
      BY DEF ToSet
    <3> QED
      BY <2>1, <2>2, <3>1, <3>2 DEF FlatIsExact
<1> QED
  BY <1>2, <1>3, <1>6, <1>9 DEF Expanding, Paths

\* What a manifest's patterns name in a tool's result is what the trace's ledger
\* gets: nothing else, something of every pattern that names anything, and all of
\* a pattern without a list under a plain field, for results of any depth and
\* breadth and any patterns (trace.py:249-280).
THEOREM MintsWhatIsNamed == Spec => []FlatIsExact
<1>1. Expanding /\ [Next]_vars => Expanding'
  <2> SUFFICES ASSUME Expanding, [Next]_vars PROVE Expanding'
    OBVIOUS
  <2>1. CASE Next
    BY <2>1, MintKeeps DEF Next
  <2>2. CASE UNCHANGED vars
    BY <2>2 DEF vars, Expanding, FlatIsExact, Present, Paths
  <2> QED
    BY <2>1, <2>2
<1>2. Expanding => FlatIsExact
  BY DEF Expanding
<1> QED
  BY <1>1, <1>2, InitExpanding, PTL DEF Spec
=============================================================================
