-------------------------- MODULE InductionLemmas --------------------------
(***************************************************************************)
(* Induction over the naturals and recursive functions, as facts about     *)
(* sets and functions, so that other proofs can cite them.                 *)
(***************************************************************************)
EXTENDS Integers, Sequences, SequencesExt, WellFoundedInduction, TLAPS

\* A set of naturals that is not empty has a least member.
LEMMA LeastNatural ==
    ASSUME NEW T, T \subseteq Nat, T # {}
    PROVE  \E x \in T : \A y \in T : x <= y
<1> DEFINE Less == OpToRel(<, Nat)
<1>1. IsWellFoundedOn(Less, Nat)
  BY NatLessThanWellFounded
<1> HIDE DEF Less
<1>2. PICK x \in T : \A y \in T : ~ (<<y, x>> \in Less)
  BY <1>1, WFMin
<1>3. ASSUME NEW y \in T PROVE x <= y
  <2>1. <<y, x>> \in Nat \X Nat
    BY <1>3
  <2>2. <<y, x>> \notin Less
    BY <1>2, <1>3
  <2>3. ~(y < x)
    BY <2>1, <2>2 DEF Less, OpToRel
  <2> QED
    BY <2>1, <2>3
<1> QED
  BY <1>3

\* Induction: a set that has 0, and with each natural the next, has them all.
LEMMA Induction ==
    ASSUME NEW T, 0 \in T, \A n \in Nat : n \in T => n + 1 \in T
    PROVE  Nat \subseteq T
<1> SUFFICES ASSUME Nat \ T # {} PROVE FALSE
  OBVIOUS
<1>1. PICK x \in Nat \ T : \A y \in Nat \ T : x <= y
  BY LeastNatural
<1>2. x - 1 \in Nat /\ x - 1 \notin Nat \ T
  BY <1>1
<1> QED
  BY <1>1, <1>2

\* The first n + 1 values of a function that is given by its value at 0 and by
\* each value from the one before.
Begins(h, n, P, start, step) ==
    /\ h \in [0..n -> P]
    /\ h[0] = start
    /\ \A i \in 0..(n - 1) : h[i + 1] = step[<<i, h[i]>>]

\* Any two such beginnings agree where the shorter one ends.
LEMMA BeginningsAgree ==
    ASSUME NEW P, NEW start, NEW step, NEW m \in Nat, NEW n \in Nat, m <= n,
           NEW h, NEW g,
           Begins(h, m, P, start, step), Begins(g, n, P, start, step)
    PROVE  h[m] = g[m]
<1> DEFINE T == {i \in Nat : i <= m => h[i] = g[i]}
<1>1. 0 \in T
  BY DEF Begins
<1>2. ASSUME NEW i \in Nat, i \in T PROVE i + 1 \in T
  <2> SUFFICES ASSUME i + 1 <= m PROVE h[i + 1] = g[i + 1]
    OBVIOUS
  <2>1. i \in 0..(m - 1) /\ i \in 0..(n - 1) /\ h[i] = g[i]
    BY <1>2
  <2> QED
    BY <2>1 DEF Begins
<1>3. Nat \subseteq T
  <2> HIDE DEF T
  <2> QED
    BY <1>1, <1>2, Induction
<1> QED
  BY <1>3

\* There are such beginnings of every length.
LEMMA BeginningsExist ==
    ASSUME NEW P, NEW start \in P, NEW step \in [Nat \X P -> P]
    PROVE  \A n \in Nat : \E h : Begins(h, n, P, start, step)
<1> DEFINE T == {n \in Nat : \E h : Begins(h, n, P, start, step)}
<1>1. 0 \in T
  <2>1. Begins([i \in 0..0 |-> start], 0, P, start, step)
    BY DEF Begins
  <2> QED
    BY <2>1
<1>2. ASSUME NEW n \in Nat, n \in T PROVE n + 1 \in T
  <2>1. PICK h : Begins(h, n, P, start, step)
    BY <1>2
  <2>2. h \in [0..n -> P] /\ h[n] \in P /\ n \in 0..n
    BY <2>1 DEF Begins
  <2>3. step[<<n, h[n]>>] \in P
    BY <2>2
  <2> DEFINE g == [i \in 0..(n + 1) |-> IF i = n + 1 THEN step[<<n, h[n]>>] ELSE h[i]]
  <2>4. g \in [0..(n + 1) -> P]
    BY <2>2, <2>3
  <2>5. /\ \A i \in 0..n : g[i] = h[i]
        /\ g[n + 1] = step[<<n, h[n]>>]
    OBVIOUS
  <2>6. ASSUME NEW i \in 0..n PROVE g[i + 1] = step[<<i, g[i]>>]
    <3> HIDE DEF g
    <3>1. CASE i = n
      BY <3>1, <2>5
    <3>2. CASE i # n
      <4>1. i \in 0..(n - 1) /\ i + 1 \in 0..n
        BY <3>2
      <4> QED
        BY <4>1, <2>1, <2>5 DEF Begins
    <3> QED
      BY <3>1, <3>2
  <2>7. g[0] = start
    <3> HIDE DEF g
    <3> QED
      BY <2>1, <2>5 DEF Begins
  <2>8. Begins(g, n + 1, P, start, step)
    <3> HIDE DEF g
    <3> QED
      BY <2>4, <2>6, <2>7 DEF Begins
  <2> QED
    BY <2>8
<1>3. Nat \subseteq T
  <2> HIDE DEF T
  <2> QED
    BY <1>1, <1>2, Induction
<1> QED
  BY <1>3

\* f is given by its value at 0 and by each value from the one before.
Recurs(f, P, start, step) ==
    /\ f \in [Nat -> P]
    /\ f[0] = start
    /\ \A n \in Nat : f[n + 1] = step[<<n, f[n]>>]

\* A recursive function exists.
LEMMA Recursion ==
    ASSUME NEW P, NEW start \in P, NEW step \in [Nat \X P -> P]
    PROVE  \E f : Recurs(f, P, start, step)
<1> DEFINE B(n) == CHOOSE h : Begins(h, n, P, start, step)
<1>1. \A n \in Nat : Begins(B(n), n, P, start, step)
  BY BeginningsExist
<1> HIDE DEF B
<1> DEFINE f == [n \in Nat |-> B(n)[n]]
<1>2. f \in [Nat -> P]
  <2>1. ASSUME NEW n \in Nat PROVE B(n)[n] \in P
    BY <1>1 DEF Begins
  <2> QED
    BY <2>1
<1>3. f[0] = start
  BY <1>1 DEF Begins
<1>4. ASSUME NEW n \in Nat PROVE f[n + 1] = step[<<n, f[n]>>]
  <2>1. Begins(B(n), n, P, start, step) /\ Begins(B(n + 1), n + 1, P, start, step)
    BY <1>1
  <2> HIDE DEF f
  <2>2. B(n)[n] = B(n + 1)[n]
    <3>1. PICK h, g : h = B(n) /\ g = B(n + 1)
      OBVIOUS
    <3>2. n + 1 \in Nat /\ n <= n + 1
      OBVIOUS
    <3>3. Begins(h, n, P, start, step) /\ Begins(g, n + 1, P, start, step)
      BY <2>1, <3>1
    <3>4. PICK k \in Nat : k = n + 1 /\ n <= k
      BY <3>2
    <3>5. Begins(g, k, P, start, step)
      BY <3>3, <3>4
    <3>6. h[n] = g[n]
      BY <3>3, <3>4, <3>5, BeginningsAgree
    <3> QED
      BY <3>1, <3>6
  <2>3. B(n + 1)[n + 1] = step[<<n, B(n + 1)[n]>>]
    BY <2>1 DEF Begins
  <2> QED
    BY <2>2, <2>3 DEF f
<1> HIDE DEF f
<1> QED
  BY <1>2, <1>3, <1>4 DEF Recurs

-----------------------------------------------------------------------------
(***************************************************************************)
(* Sequences                                                               *)
(***************************************************************************)
\* The items of a sequence.
LEMMA SeqMembers ==
    ASSUME NEW S, NEW s \in Seq(S)
    PROVE  /\ Len(s) \in Nat /\ DOMAIN s = 1..Len(s) /\ \A i \in 1..Len(s) : s[i] \in S
           /\ s = <<>> <=> Len(s) = 0
           /\ ToSet(s) = {s[i] : i \in 1..Len(s)}
           /\ s # <<>> => Head(s) = s[1] /\ Head(s) \in ToSet(s)
BY DEF ToSet

\* What two sequences in a row hold.
LEMMA BothHold ==
    ASSUME NEW S, NEW s \in Seq(S), NEW t \in Seq(S)
    PROVE  /\ s \o t \in Seq(S)
           /\ \A x : x \in ToSet(s \o t) <=> x \in ToSet(s) \/ x \in ToSet(t)
<1>1. PICK m \in Nat, n \in Nat : m = Len(s) /\ n = Len(t)
  OBVIOUS
<1>2. /\ s \o t \in Seq(S) /\ DOMAIN (s \o t) = 1..(m + n)
      /\ \A i \in 1..(m + n) : (s \o t)[i] = IF i <= m THEN s[i] ELSE t[i - m]
  BY <1>1
<1>3. DOMAIN s = 1..m /\ DOMAIN t = 1..n
  BY <1>1
<1>4. ASSUME NEW x \in ToSet(s \o t) PROVE x \in ToSet(s) \/ x \in ToSet(t)
  <2>1. PICK i \in 1..(m + n) : x = (s \o t)[i]
    BY <1>2 DEF ToSet
  <2>2. i <= m => i \in 1..m
    BY <1>1
  <2>3. ~(i <= m) => i - m \in 1..n
    BY <1>1
  <2> QED
    BY <1>2, <1>3, <2>1, <2>2, <2>3 DEF ToSet
<1>5. ASSUME NEW x \in ToSet(s) PROVE x \in ToSet(s \o t)
  <2>1. PICK i \in 1..m : x = s[i]
    BY <1>3 DEF ToSet
  <2>2. i \in 1..(m + n) /\ (s \o t)[i] = x
    BY <1>1, <1>2, <2>1
  <2> QED
    BY <1>2, <2>2 DEF ToSet
<1>6. ASSUME NEW x \in ToSet(t) PROVE x \in ToSet(s \o t)
  <2>1. PICK i \in 1..n : x = t[i]
    BY <1>3 DEF ToSet
  <2>2. PICK j \in 1..(m + n) : j = i + m /\ ~(j <= m) /\ j - m = i
    BY <1>1
  <2>3. (s \o t)[j] = x
    BY <1>2, <2>1, <2>2
  <2> QED
    BY <1>2, <2>3 DEF ToSet
<1> QED
  BY <1>2, <1>4, <1>5, <1>6

\* The first k of the sequences ss in a row.
Gathered(f, ss, S, k) ==
    /\ f[k] \in Seq(S)
    /\ \A x : x \in ToSet(f[k]) <=> \E i \in 1..k : x \in ToSet(ss[i])

\* What sequences in a row hold.
LEMMA AllHold ==
    ASSUME NEW S, NEW ss \in Seq(Seq(S))
    PROVE  /\ FlattenSeq(ss) \in Seq(S)
           /\ \A x : x \in ToSet(FlattenSeq(ss)) <=> \E i \in 1..Len(ss) : x \in ToSet(ss[i])
<1>1. PICK L \in Nat : L = Len(ss)
  OBVIOUS
<1>2. \A i \in 1..L : ss[i] \in Seq(S)
  BY <1>1
<1>3. CASE L = 0
  <2>1. ss = <<>>
    BY <1>1, <1>3, SeqMembers
  <2>2. FlattenSeq(ss) = <<>>
    BY <2>1 DEF FlattenSeq
  <2>3. <<>> \in Seq(S) /\ ToSet(<<>>) = {}
    BY DEF ToSet
  <2> QED
    BY <1>1, <1>3, <2>2, <2>3
<1>4. CASE L # 0
  <2> DEFINE step == [x \in Nat \X Seq(S) |->
                        IF x[1] + 1 <= L THEN x[2] \o ss[x[1] + 1] ELSE x[2]]
  <2>1. step \in [Nat \X Seq(S) -> Seq(S)]
    <3>1. ASSUME NEW x \in Nat \X Seq(S)
          PROVE  (IF x[1] + 1 <= L THEN x[2] \o ss[x[1] + 1] ELSE x[2]) \in Seq(S)
      <4>1. PICK k, t : k = x[1] + 1 /\ t = x[2]
        OBVIOUS
      <4>2. k \in Nat /\ k >= 1 /\ t \in Seq(S)
        BY <4>1
      <4>3. ASSUME k <= L PROVE t \o ss[k] \in Seq(S)
        <5>1. ss[k] \in Seq(S)
          BY <1>2, <4>2, <4>3
        <5> QED
          BY <4>2, <5>1
      <4> QED
        BY <4>1, <4>2, <4>3
    <3> QED
      BY <3>1
  <2>2. \A n \in Nat, t \in Seq(S) :
          step[<<n, t>>] = IF n + 1 <= L THEN t \o ss[n + 1] ELSE t
    OBVIOUS
  <2>3. <<>> \in Seq(S)
    OBVIOUS
  <2> HIDE DEF step
  <2>4. PICK g : Recurs(g, Seq(S), <<>>, step)
    BY <2>1, <2>3, Recursion
  <2> DEFINE Follows(f) == f = [i \in 1..L |-> IF i = 1 THEN ss[i] ELSE f[i - 1] \o ss[i]]
  <2> DEFINE h == [i \in 1..L |-> g[i]]
  <2>5. Follows(h)
    <3>1. ASSUME NEW i \in 1..L
          PROVE  h[i] = IF i = 1 THEN ss[i] ELSE h[i - 1] \o ss[i]
      <4>1. PICK n \in Nat : i = n + 1 /\ i - 1 = n
        BY <1>1
      <4>2. g[n] \in Seq(S) /\ g[n + 1] = step[<<n, g[n]>>] /\ g[0] = <<>>
        BY <2>4, <4>1 DEF Recurs
      <4>3. g[i] = g[n] \o ss[i]
        <5>1. n + 1 <= L
          BY <1>1, <4>1
        <5> QED
          BY <2>2, <4>1, <4>2, <5>1
      <4>4. CASE i = 1
        <5>1. n = 0 /\ ss[i] \in Seq(S)
          BY <1>2, <4>1, <4>4
        <5>2. <<>> \o ss[i] = ss[i]
          BY <5>1
        <5>3. g[i] = <<>> \o ss[i]
          BY <4>2, <4>3, <5>1
        <5> QED
          BY <4>4, <5>2, <5>3
      <4>5. CASE i # 1
        <5>1. n \in 1..L
          BY <1>1, <4>1, <4>5
        <5> QED
          BY <4>1, <4>3, <4>5, <5>1
      <4> QED
        BY <4>4, <4>5
    <3>2. h = [i \in 1..L |-> h[i]]
      OBVIOUS
    <3> HIDE DEF h
    <3> QED
      BY <3>1, <3>2
  <2> HIDE DEF h
  <2>6. PICK F : F = CHOOSE f : Follows(f)
    OBVIOUS
  <2>7. FlattenSeq(ss) = F[L]
    BY <1>1, <1>4, <2>6 DEF FlattenSeq
  <2>8. Follows(F)
    <3> HIDE DEF Follows
    <3> QED
      BY <2>5, <2>6
  <2>9. \A i \in 1..L : F[i] = IF i = 1 THEN ss[i] ELSE F[i - 1] \o ss[i]
    BY <2>8
  <2> HIDE DEF Follows
  <2>10. PICK T : T = {n \in Nat : n + 1 <= L => Gathered(F, ss, S, n + 1)}
    OBVIOUS
  <2>11. 0 \in T
    <3>1. F[1] = ss[1] /\ ss[1] \in Seq(S)
      BY <1>1, <1>2, <1>4, <2>9
    <3>2. 0 + 1 = 1 /\ 1..1 = {1}
      OBVIOUS
    <3>3. Gathered(F, ss, S, 1)
      BY <3>1, <3>2 DEF Gathered
    <3> QED
      BY <2>10, <3>2, <3>3
  <2>12. ASSUME NEW n \in Nat, n \in T PROVE n + 1 \in T
    <3>1. PICK k \in Nat : k = n + 1
      OBVIOUS
    <3>2. SUFFICES ASSUME k + 1 <= L PROVE Gathered(F, ss, S, k + 1)
      BY <2>10, <3>1
    <3>3. Gathered(F, ss, S, k) /\ k \in 1..L
      BY <1>1, <2>10, <2>12, <3>1, <3>2
    <3>4. PICK m \in 1..L : m = k + 1 /\ m - 1 = k /\ m # 1
      BY <1>1, <3>1, <3>2
    <3>5. F[m] = F[k] \o ss[m] /\ F[k] \in Seq(S) /\ ss[m] \in Seq(S)
      BY <1>2, <2>9, <3>3, <3>4 DEF Gathered
    <3>6. /\ F[m] \in Seq(S)
          /\ \A x : x \in ToSet(F[m]) <=> x \in ToSet(F[k]) \/ x \in ToSet(ss[m])
      BY <3>5, BothHold
    <3>7. \A i : i \in 1..m <=> i \in 1..k \/ i = m
      BY <3>1, <3>4
    <3>8. Gathered(F, ss, S, m)
      BY <3>3, <3>6, <3>7 DEF Gathered
    <3> QED
      BY <3>4, <3>8
  <2>13. Nat \subseteq T
    BY <2>11, <2>12, Induction
  <2>14. PICK n \in Nat : n + 1 = L
    <3>1. L - 1 \in Nat /\ (L - 1) + 1 = L
      BY <1>4
    <3> QED
      BY <3>1
  <2>15. Gathered(F, ss, S, L)
    BY <2>10, <2>13, <2>14
  <2> QED
    BY <1>1, <2>7, <2>15 DEF Gathered
<1> QED
  BY <1>3, <1>4
=============================================================================
