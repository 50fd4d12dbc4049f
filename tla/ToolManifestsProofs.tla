------------------------ MODULE ToolManifestsProofs ------------------------
(***************************************************************************)
(* TLAPS proofs about ToolManifests and Assignment: what the sidecar of    *)
(* the manifest files says is true of them, a tool is left out of a        *)
(* trial's sinks only on evidence, a trial is refused for cause only and   *)
(* its sinks take the destinations its own arm and scenario name, for any  *)
(* project, assignment and number of commands.                             *)
(***************************************************************************)
EXTENDS ToolManifests, InductionLemmas, FiniteSetTheorems

IsSeq(s) == \E S : s \in Seq(S)

-----------------------------------------------------------------------------
(***************************************************************************)
(* Sequences                                                               *)
(***************************************************************************)
\* One more item.
LEMMA AppendAny ==
    ASSUME NEW s, IsSeq(s), NEW x
    PROVE  /\ IsSeq(Append(s, x))
           /\ Len(s) \in Nat /\ DOMAIN s = 1..Len(s)
           /\ Len(Append(s, x)) = Len(s) + 1 /\ DOMAIN Append(s, x) = 1..(Len(s) + 1)
           /\ Append(s, x)[Len(s) + 1] = x
           /\ \A i \in 1..Len(s) : Append(s, x)[i] = s[i]
<1>1. PICK S : s \in Seq(S)
  BY DEF IsSeq
<1>2. PICK T : T = S \cup {x}
  OBVIOUS
<1>3. s \in Seq(T) /\ x \in T
  BY <1>1, <1>2
<1> QED
  BY <1>3 DEF IsSeq

\* The greatest of a beginning of the naturals.
LEMMA Greatest ==
    ASSUME NEW n \in Nat, NEW T, T \subseteq 1..n, T # {}
    PROVE  \E x \in T : \A y \in T : y <= x
<1>1. PICK D : D = {n - x : x \in T}
  OBVIOUS
<1>2. D \subseteq Nat /\ D # {}
  <2>1. \A x \in T : n - x \in Nat
    OBVIOUS
  <2> QED
    BY <1>1, <2>1
<1>3. PICK d \in D : \A e \in D : d <= e
  BY <1>2, LeastNatural
<1>4. PICK x \in T : d = n - x
  BY <1>1
<1>5. ASSUME NEW y \in T PROVE y <= x
  <2>1. n - y \in D
    BY <1>1
  <2>2. n - x <= n - y /\ x \in 1..n /\ y \in 1..n
    BY <1>3, <1>4, <2>1
  <2> QED
    BY <2>2
<1> QED
  BY <1>5

Upto(at, p) == {q \in at : q <= p}

\* Items in their order: a sequence of items of S.
LEMMA InOrderHolds ==
    ASSUME NEW n \in Nat, NEW order, DOMAIN order = 1..n, NEW S
    PROVE  InOrder(order, S) \in Seq(S)
<1>1. PICK at : at = {p \in DOMAIN order : order[p] \in S}
  OBVIOUS
<1>2. at \subseteq 1..n /\ IsFiniteSet(at)
  <2>1. IsFiniteSet(1..n)
    BY FS_Interval
  <2> QED
    BY <1>1, <2>1, FS_Subset
<1>3. PICK c \in Nat : c = Cardinality(at)
  BY <1>2, FS_CardinalityType
<1>4. \A p : IsFiniteSet(Upto(at, p)) /\ Cardinality(Upto(at, p)) \in Nat
  <2>1. \A p : Upto(at, p) \subseteq at
    BY DEF Upto
  <2> QED
    BY <1>2, <2>1, FS_Subset, FS_CardinalityType
<1>5. ASSUME NEW i \in 1..c PROVE \E p \in at : Cardinality(Upto(at, p)) = i
  <2>1. PICK T : T = {p \in Nat : Cardinality(Upto(at, p)) >= i}
    OBVIOUS
  <2>2. Upto(at, n) = at
    <3>1. \A q \in at : q <= n
      BY <1>2
    <3> QED
      BY <3>1 DEF Upto
  <2>3. n \in T
    <3>1. c >= i
      BY <1>3
    <3> QED
      BY <1>3, <2>1, <2>2, <3>1
  <2>4. PICK p \in T : \A y \in T : p <= y
    BY <2>1, <2>3, LeastNatural
  <2>5. p # 0
    <3>1. \A q \in at : ~(q <= 0)
      BY <1>2
    <3>2. Upto(at, 0) = {}
      BY <3>1 DEF Upto
    <3>3. Cardinality(Upto(at, 0)) = 0
      BY <3>2, FS_EmptySet
    <3> QED
      BY <2>1, <2>4, <3>3
  <2>6. PICK r \in Nat : r = p - 1 /\ p = r + 1
    BY <2>1, <2>4, <2>5
  <2>7. Cardinality(Upto(at, r)) < i
    <3>1. r \notin T
      BY <2>1, <2>4, <2>6
    <3> QED
      BY <1>4, <2>1, <2>6, <3>1
  <2>8. Cardinality(Upto(at, p)) >= i
    BY <2>1, <2>4
  <2>9. p \in at
    <3> SUFFICES ASSUME p \notin at PROVE FALSE
      OBVIOUS
    <3>1. \A q \in at : q <= p <=> q <= r
      BY <1>2, <2>6
    <3>2. Upto(at, p) = Upto(at, r)
      BY <3>1 DEF Upto
    <3> QED
      BY <1>4, <2>7, <2>8, <3>2
  <2>10. Cardinality(Upto(at, p)) = Cardinality(Upto(at, r)) + 1
    <3>1. \A q \in at : q <= p <=> (q <= r \/ q = p)
      BY <1>2, <2>6
    <3>2. Upto(at, p) = Upto(at, r) \cup {p}
      BY <2>9, <3>1 DEF Upto
    <3>3. p \notin Upto(at, r)
      BY <2>6 DEF Upto
    <3> QED
      BY <1>4, <3>2, <3>3, FS_AddElement
  <2>11. Cardinality(Upto(at, p)) = i
    <3>1. PICK a, b : a = Cardinality(Upto(at, r)) /\ b = Cardinality(Upto(at, p))
      OBVIOUS
    <3>2. a \in Nat /\ b = a + 1 /\ a < i /\ b >= i
      BY <1>4, <2>7, <2>8, <2>10, <3>1
    <3> QED
      BY <3>1, <3>2
  <2> QED
    BY <2>9, <2>11
<1>6. InOrder(order, S) =
         [i \in 1..c |-> order[CHOOSE p \in at : Cardinality(Upto(at, p)) = i]]
  BY <1>1, <1>3 DEF InOrder, Upto
<1>7. ASSUME NEW i \in 1..c
      PROVE  order[CHOOSE p \in at : Cardinality(Upto(at, p)) = i] \in S
  <2>1. PICK q : q = CHOOSE p \in at : Cardinality(Upto(at, p)) = i
    OBVIOUS
  <2>2. q \in at
    BY <1>5, <2>1
  <2> QED
    BY <1>1, <2>1, <2>2
<1> QED
  BY <1>3, <1>6, <1>7

-----------------------------------------------------------------------------
(***************************************************************************)
(* Role inference                                                          *)
(***************************************************************************)
Class == {"EXEC", "EXPORT", "WRITE", "READ", "UNKNOWN"}

\* The class of the first heuristic that applies.
LEMMA ClassIsFirst ==
    ASSUME NEW tokens, NEW desc, NEW args, NEW class, class = classify(tokens, desc, args).class
    PROVE  /\ class = IF Meet(tokens, EXEC_TOKENS) THEN "EXEC"
                      ELSE IF Meet(tokens, SQL_TOKENS)
                              /\ Meet(tokens \cup desc, SQL_WRITE_TOKENS) THEN "EXEC"
                      ELSE IF Meet(tokens, EXPORT_TOKENS) THEN "EXPORT"
                      ELSE IF Meet(tokens, WRITE_TOKENS) THEN "WRITE"
                      ELSE IF Meet(tokens, READ_TOKENS) THEN "READ"
                      ELSE "UNKNOWN"
           /\ "class" \in DOMAIN classify(tokens, desc, args)
<1>1. PICK h1, h2, h3, h4, h5, conf :
        /\ h1 = Meet(tokens, EXEC_TOKENS)
        /\ h2 = (Meet(tokens, SQL_TOKENS) /\ Meet(tokens \cup desc, SQL_WRITE_TOKENS))
        /\ h3 = Meet(tokens, EXPORT_TOKENS)
        /\ h4 = Meet(tokens, WRITE_TOKENS)
        /\ h5 = Meet(tokens, READ_TOKENS)
        /\ conf = IF Meet(args, EXPORT_CARRIER_ARGS) THEN "high" ELSE "medium"
  OBVIOUS
<1>2. {h1, h2, h3, h4, h5} \subseteq BOOLEAN
  BY <1>1 DEF Meet
<1>3. PICK s : s = << Rule(h1, "EXEC", "high"), Rule(h2, "EXEC", "medium"),
                      Rule(h3, "EXPORT", conf), Rule(h4, "WRITE", "high"),
                      Rule(h5, "READ", "high"), Unclassified >>
  OBVIOUS
<1>4. /\ DOMAIN s = 1..6
      /\ s[1].hit = h1 /\ s[1].class = "EXEC"
      /\ s[2].hit = h2 /\ s[2].class = "EXEC"
      /\ s[3].hit = h3 /\ s[3].class = "EXPORT"
      /\ s[4].hit = h4 /\ s[4].class = "WRITE"
      /\ s[5].hit = h5 /\ s[5].class = "READ"
      /\ s[6].hit = TRUE /\ s[6].class = "UNKNOWN"
  BY <1>3 DEF Rule, Unclassified
<1>5. PICK A : A = {n \in 1..6 : s[n].hit}
  OBVIOUS
<1>6. PICK k : k = CHOOSE n \in A : \A m \in A : n <= m
  OBVIOUS
<1>7. classify(tokens, desc, args) = s[k]
  <2>1. s = << Rule(Meet(tokens, EXEC_TOKENS), "EXEC", "high"),
               Rule(Meet(tokens, SQL_TOKENS) /\ Meet(tokens \cup desc, SQL_WRITE_TOKENS),
                    "EXEC", "medium"),
               Rule(Meet(tokens, EXPORT_TOKENS), "EXPORT",
                    IF Meet(args, EXPORT_CARRIER_ARGS) THEN "high" ELSE "medium"),
               Rule(Meet(tokens, WRITE_TOKENS), "WRITE", "high"),
               Rule(Meet(tokens, READ_TOKENS), "READ", "high"),
               Unclassified >>
    BY <1>1, <1>3
  <2>2. A = {n \in DOMAIN s : s[n].hit}
    BY <1>4, <1>5
  <2>3. classify(tokens, desc, args) =
           s[CHOOSE n \in {q \in DOMAIN s : s[q].hit} :
                \A m \in {q \in DOMAIN s : s[q].hit} : n <= m]
    BY <2>1 DEF classify
  <2> QED
    BY <1>6, <2>2, <2>3
<1>8. k \in A /\ \A m \in A : k <= m
  <2>1. A \subseteq Nat /\ 6 \in A
    BY <1>4, <1>5
  <2>2. \E n \in A : \A m \in A : n <= m
    BY <2>1, LeastNatural
  <2> QED
    BY <1>6, <2>2
<1>9. k \in 1..6 /\ (1 \in A <=> h1) /\ (2 \in A <=> h2) /\ (3 \in A <=> h3)
      /\ (4 \in A <=> h4) /\ (5 \in A <=> h5) /\ 6 \in A
  BY <1>2, <1>4, <1>5, <1>8
<1>10. k = IF h1 THEN 1 ELSE IF h2 THEN 2 ELSE IF h3 THEN 3 ELSE IF h4 THEN 4
           ELSE IF h5 THEN 5 ELSE 6
  BY <1>2, <1>8, <1>9
<1>11. class = IF h1 THEN "EXEC" ELSE IF h2 THEN "EXEC" ELSE IF h3 THEN "EXPORT"
               ELSE IF h4 THEN "WRITE" ELSE IF h5 THEN "READ" ELSE "UNKNOWN"
  BY <1>2, <1>4, <1>7, <1>10
<1>12. \A n \in 1..6 : "class" \in DOMAIN s[n]
  BY <1>3 DEF Rule, Unclassified
<1> QED
  BY <1>1, <1>7, <1>9, <1>11, <1>12

\* What a class says of the words it was taken from.
LEMMA ClassTells ==
    ASSUME NEW tokens, NEW desc, NEW args, NEW class, class = classify(tokens, desc, args).class
    PROVE  /\ class \in Class
           /\ class \in {"READ", "WRITE"} =>
                 ~Outward(tokens) /\ Meet(tokens, READ_TOKENS \cup WRITE_TOKENS)
           /\ class = "UNKNOWN" => ~Outward(tokens)
           /\ tokens \subseteq (READ_TOKENS \ SQL_TOKENS) \cup UNTRUSTED_HINTS
              /\ Meet(tokens, READ_TOKENS) => class = "READ"
<1>1. class = IF Meet(tokens, EXEC_TOKENS) THEN "EXEC"
              ELSE IF Meet(tokens, SQL_TOKENS) /\ Meet(tokens \cup desc, SQL_WRITE_TOKENS)
                   THEN "EXEC"
              ELSE IF Meet(tokens, EXPORT_TOKENS) THEN "EXPORT"
              ELSE IF Meet(tokens, WRITE_TOKENS) THEN "WRITE"
              ELSE IF Meet(tokens, READ_TOKENS) THEN "READ"
              ELSE "UNKNOWN"
  BY ClassIsFirst
<1>2. class \in Class
  BY <1>1 DEF Class
<1>3. class \in {"READ", "WRITE", "UNKNOWN"} =>
         ~Meet(tokens, EXEC_TOKENS) /\ ~Meet(tokens, EXPORT_TOKENS)
  BY <1>1
<1>4. ~Meet(tokens, EXEC_TOKENS) /\ ~Meet(tokens, EXPORT_TOKENS) => ~Outward(tokens)
  BY DEF Outward, Meet
<1>5. class \in {"READ", "WRITE"} => Meet(tokens, WRITE_TOKENS) \/ Meet(tokens, READ_TOKENS)
  BY <1>1
<1>6. Meet(tokens, WRITE_TOKENS) \/ Meet(tokens, READ_TOKENS) =>
         Meet(tokens, READ_TOKENS \cup WRITE_TOKENS)
  BY DEF Meet
<1>7. ASSUME tokens \subseteq (READ_TOKENS \ SQL_TOKENS) \cup UNTRUSTED_HINTS,
             Meet(tokens, READ_TOKENS)
      PROVE  class = "READ"
  <2>1. \A w \in tokens : w \in {"get", "fetch", "web"}
    BY <1>7 DEF READ_TOKENS, SQL_TOKENS, UNTRUSTED_HINTS
  <2>2. /\ ~Meet(tokens, EXEC_TOKENS) /\ ~Meet(tokens, SQL_TOKENS)
        /\ ~Meet(tokens, EXPORT_TOKENS) /\ ~Meet(tokens, WRITE_TOKENS)
    BY <2>1 DEF Meet, EXEC_TOKENS, SQL_TOKENS, EXPORT_TOKENS, WRITE_TOKENS
  <2> QED
    BY <1>1, <1>7, <2>2
<1> QED
  BY <1>2, <1>3, <1>4, <1>5, <1>6, <1>7

\* What the guess says of a tool.
LEMMA GuessTells ==
    ASSUME NEW t, t.implicit \in BOOLEAN
    PROVE  /\ guess(t).class \in Class
           /\ guess(t).class \in {"READ", "WRITE"} => SaysHarmless(t)
           /\ ReadsOutside(t) => untrusted(t)
<1>1. PICK by_name, by_desc, name, said :
        /\ by_name = classify(Words[t.id], t.desc, t.args)
        /\ by_desc = classify(t.desc, t.desc, t.args)
        /\ name = Words[t.id] /\ said = t.desc
  OBVIOUS
<1>2. /\ by_name.class \in Class
      /\ by_name.class \in {"READ", "WRITE"} =>
            ~Outward(name) /\ Meet(name, READ_TOKENS \cup WRITE_TOKENS)
      /\ by_name.class = "UNKNOWN" => ~Outward(name)
      /\ name \subseteq (READ_TOKENS \ SQL_TOKENS) \cup UNTRUSTED_HINTS
         /\ Meet(name, READ_TOKENS) => by_name.class = "READ"
  BY <1>1, ClassTells
<1>3. /\ by_desc.class \in Class
      /\ by_desc.class \in {"READ", "WRITE"} =>
            ~Outward(said) /\ Meet(said, READ_TOKENS \cup WRITE_TOKENS)
  BY <1>1, ClassTells
<1>4. guess(t).class = IF t.implicit THEN "EXEC"
                       ELSE IF by_name.class # "UNKNOWN" THEN by_name.class ELSE by_desc.class
  <2>1. CASE t.implicit
    BY <2>1 DEF guess, Rule
  <2>2. CASE ~t.implicit /\ by_name.class # "UNKNOWN"
    BY <1>1, <2>2 DEF guess
  <2>3. CASE ~t.implicit /\ by_name.class = "UNKNOWN"
    <3>1. PICK conf : conf = IF by_desc.confidence = "high" THEN "medium" ELSE "low"
      OBVIOUS
    <3>2. guess(t) = [by_desc EXCEPT !.confidence = conf]
      BY <1>1, <2>3, <3>1 DEF guess
    <3>3. "class" \in DOMAIN by_desc
      BY <1>1, ClassIsFirst
    <3>4. [by_desc EXCEPT !.confidence = conf].class = by_desc.class
      BY <3>3
    <3> QED
      BY <2>3, <3>2, <3>4
  <2> QED
    BY <2>1, <2>2, <2>3
<1>5. guess(t).class \in Class
  BY <1>2, <1>3, <1>4 DEF Class
<1>6. ASSUME guess(t).class \in {"READ", "WRITE"} PROVE SaysHarmless(t)
  BY <1>1, <1>2, <1>3, <1>4, <1>6 DEF SaysHarmless
<1>7. ASSUME ReadsOutside(t) PROVE untrusted(t)
  <2>1. /\ ~t.implicit /\ name \subseteq (READ_TOKENS \ SQL_TOKENS) \cup UNTRUSTED_HINTS
        /\ Meet(name, READ_TOKENS) /\ Meet(name, UNTRUSTED_HINTS)
    BY <1>1, <1>7 DEF ReadsOutside
  <2>2. guess(t).class = "READ"
    BY <1>2, <1>4, <2>1
  <2>3. Meet(name \cup said, UNTRUSTED_HINTS)
    BY <2>1 DEF Meet
  <2> QED
    BY <1>1, <2>2, <2>3 DEF untrusted
<1> QED
  BY <1>5, <1>6, <1>7

-----------------------------------------------------------------------------
(***************************************************************************)
(* The command and the directory                                           *)
(***************************************************************************)
\* What the scan can find.
Known == [id : STRING, implicit : BOOLEAN, desc : SUBSET STRING, args : SUBSET STRING]
         \cup {Shell}

\* Of a known tool it is known whether it is implicit.
LEMMA KnownIsFlagged ==
    ASSUME NEW t \in Known
    PROVE  t.implicit \in BOOLEAN
<1>1. PICK B : B = BOOLEAN
  OBVIOUS
<1>2. CASE t \in [id : STRING, implicit : B, desc : SUBSET STRING, args : SUBSET STRING]
  BY <1>1, <1>2
<1>3. CASE t = Shell
  <2>1. t.implicit = TRUE
    BY <1>3 DEF Shell
  <2> QED
    BY <2>1
<1> QED
  BY <1>1, <1>2, <1>3 DEF Known

\* The scan finds known tools only.
LEMMA ScanFinds ==
    ASSUME NEW p \in Project
    PROVE  scan_project(p) \in Seq(Known)
<1>1. PICK Declared : Declared = [id : STRING, implicit : BOOLEAN, desc : SUBSET STRING,
                                  args : SUBSET STRING]
  OBVIOUS
<1>2. PICK Modules, B :
        B = BOOLEAN /\ Modules = [parses : B, calls : Nat, tools : Seq(Declared)]
  OBVIOUS
<1>3. p \in Seq(Modules)
  BY <1>1, <1>2, ProjectConfig
<1>4. PICK L \in Nat : L = Len(p) /\ DOMAIN p = 1..L
  BY <1>3
<1>5. ASSUME NEW i \in 1..L PROVE Scan(p[i]) \in Seq(Known)
  <2>1. PICK m \in Modules : m = p[i]
    BY <1>3, <1>4
  <2>2. Declared \subseteq Known /\ m.tools \in Seq(Declared)
    BY <1>1, <1>2, <2>1 DEF Known
  <2>3. m.tools \in Seq(Known)
    BY <2>2
  <2>4. <<Shell>> \in Seq(Known) /\ <<>> \in Seq(Known)
    BY DEF Known
  <2>5. PICK t : t = IF m.calls = 0 THEN <<>> ELSE <<Shell>>
    OBVIOUS
  <2>6. m.tools \o t \in Seq(Known)
    BY <2>3, <2>4, <2>5, BothHold
  <2>7. Scan(m) = IF ~m.parses THEN <<>> ELSE m.tools \o t
    BY <2>5 DEF Scan
  <2> QED
    BY <2>1, <2>4, <2>6, <2>7
<1>6. PICK ss : ss = [i \in 1..L |-> Scan(p[i])]
  OBVIOUS
<1>7. ss \in Seq(Seq(Known))
  BY <1>5, <1>6
<1> QED
  BY <1>4, <1>6, <1>7, AllHold DEF scan_project

\* The arguments that drive a tool are a sequence.
LEMMA DrivingIsSeq ==
    ASSUME NEW t
    PROVE  IsSeq(driving_args(t))
<1>1. PICK d : d = InOrder(DRIVING_ARG_ORDER, t.args)
  OBVIOUS
<1>2. DOMAIN DRIVING_ARG_ORDER = 1..3
  BY DEF DRIVING_ARG_ORDER
<1>3. d \in Seq(t.args)
  BY <1>1, <1>2, InOrderHolds
<1>4. <<"command">> \in Seq({"command"})
  OBVIOUS
<1> QED
  BY <1>1, <1>3, <1>4 DEF driving_args, IsSeq

ManifestFields == {"id", "classes", "driving_args", "untrusted", "of", "reviewed"}

\* A manifest says what the inference made of the tool it was written for,
\* its class up to a human's word.
FileTells(m) ==
    /\ DOMAIN m = ManifestFields
    /\ m.of \in Known
    /\ m.reviewed \in BOOLEAN
    /\ IsSeq(m.driving_args)
    /\ m.untrusted = untrusted(m.of)
    /\ ~m.reviewed => m.classes = {default_class(m.of)}

\* The one a command writes.
LEMMA BuiltTells ==
    ASSUME NEW t \in Known
    PROVE  FileTells(build_manifest(t)) /\ build_manifest(t).of = t
<1>1. PICK c, d, u : c = {default_class(t)} /\ d = driving_args(t) /\ u = untrusted(t)
  OBVIOUS
<1>2. PICK m : m = [id |-> t.id, classes |-> c, driving_args |-> d, untrusted |-> u,
                    of |-> t, reviewed |-> FALSE]
  OBVIOUS
<1>3. m = build_manifest(t)
  BY <1>1, <1>2 DEF build_manifest
<1>4. /\ DOMAIN m = ManifestFields /\ m.of = t /\ m.reviewed = FALSE
      /\ m.driving_args = d /\ m.untrusted = u /\ m.classes = c
  BY <1>2 DEF ManifestFields
<1>5. IsSeq(d)
  BY <1>1, DrivingIsSeq
<1> QED
  BY <1>1, <1>3, <1>4, <1>5 DEF FileTells

\* The one a human leaves.
LEMMA ReviewTells ==
    ASSUME NEW m, FileTells(m), NEW c, NEW n,
           n = [[m EXCEPT !.classes = c] EXCEPT !.reviewed = TRUE]
    PROVE  FileTells(n) /\ n.of = m.of /\ n.reviewed
<1>1. DOMAIN m = ManifestFields
  BY DEF FileTells
<1>2. /\ DOMAIN n = ManifestFields /\ n.of = m.of /\ n.reviewed = TRUE
      /\ n.driving_args = m.driving_args /\ n.untrusted = m.untrusted
  BY <1>1 DEF ManifestFields
<1> QED
  BY <1>2 DEF FileTells

Directory ==
    \A f \in DOMAIN files : FileTells(files[f])

\* The i-th entry of the sidecar is of the i-th tool found, and says of it what
\* the inference says; the file it names is that tool's.
EntryTells(entry, tool, dir) ==
    /\ entry.guess = guess(tool)
    /\ entry.file \in DOMAIN dir
    /\ dir[entry.file].of = tool

Command ==
    /\ project \in Project
    /\ detected = <<>> \/ \E p \in Project : detected = scan_project(p)
    /\ IsSeq(entries) /\ Len(entries) <= Len(detected)
    /\ ~running => entries = <<>>
    /\ \A i \in 1..Len(entries) : EntryTells(entries[i], detected[i], files)
    /\ \A i, j \in 1..Len(entries) : i # j => entries[i].file # entries[j].file

\* Of the stems tried one is not used yet.
LEMMA FreeStemIsFree ==
    ASSUME Command, ~Written
    PROVE  FreeStem(Tool.id) \notin used
<1>1. PICK n : n = Len(entries)
  OBVIOUS
<1>2. PICK S : entries \in Seq(S)
  BY DEF Command, IsSeq
<1>3. n \in Nat /\ DOMAIN entries = 1..n
  BY <1>1, <1>2
<1>4. detected # <<>>
  <2>1. detected = <<>> => Len(detected) = 0
    OBVIOUS
  <2> QED
    BY <1>1, <1>3, <2>1 DEF Command, Written
<1>5. PICK p \in Project : detected = scan_project(p)
  BY <1>4 DEF Command
<1>6. PICK L \in Nat : L = Len(detected) /\ DOMAIN detected = 1..L
  BY <1>5, ScanFinds
<1>7. n + 1 <= L
  BY <1>1, <1>3, <1>6 DEF Command, Written
<1>8. PICK t : t = Tool
  OBVIOUS
<1>9. t \in ToSet(detected)
  <2>1. n + 1 \in DOMAIN detected
    BY <1>3, <1>6, <1>7
  <2> QED
    BY <1>1, <1>8, <2>1 DEF Tool, ToSet
<1>10. \A k, l \in 1..n + 1 : Stem(t.id, k) = Stem(t.id, l) => k = l
  <2>1. 1..n + 1 \subseteq 1..L
    BY <1>3, <1>6, <1>7
  <2> QED
    BY <1>5, <1>6, <1>9, <2>1, StemsDiffer
<1>11. IsFiniteSet(used) /\ Cardinality(used) <= n
  <2>1. IsFiniteSet(1..n) /\ Cardinality(1..n) = n
    BY <1>3, FS_Interval
  <2>2. used = {entries[i].file : i \in 1..n}
    BY <1>3 DEF used
  <2> DEFINE f == [i \in 1..n |-> entries[i].file]
  <2>3. f \in Surjection(1..n, used)
    BY <2>2 DEF Surjection
  <2> HIDE DEF f
  <2>4. IsFiniteSet(used) /\ Cardinality(used) <= Cardinality(1..n)
    BY <2>1, <2>3, FS_Surjection
  <2> QED
    BY <2>1, <2>4
<1>12. PICK T : T = {k \in 1..n + 1 : Stem(t.id, k) \notin used}
  OBVIOUS
<1>13. T # {}
  <2> SUFFICES ASSUME T = {} PROVE FALSE
    OBVIOUS
  <2> DEFINE g == [k \in 1..n + 1 |-> Stem(t.id, k)]
  <2>1. g \in [1..n + 1 -> used]
    BY <1>12
  <2>2. IsFiniteSet(1..n + 1) /\ Cardinality(1..n + 1) = n + 1
    <3>1. PICK m \in Nat : m = n + 1
      BY <1>3
    <3>2. IsFiniteSet(1..m) /\ Cardinality(1..m) = m
      BY FS_Interval
    <3> QED
      BY <3>1, <3>2
  <2>3. \A k \in 1..n + 1 : g[k] = Stem(t.id, k)
    OBVIOUS
  <2> HIDE DEF g
  <2>4. Cardinality(used) \in Nat
    BY <1>11, FS_CardinalityType
  <2>5. PICK A : A = 1..n + 1
    OBVIOUS
  <2>6. Cardinality(A) > Cardinality(used)
    BY <1>3, <1>11, <2>2, <2>4, <2>5
  <2>7. \E k, l \in A : k # l /\ g[k] = g[l]
    BY <1>11, <2>1, <2>2, <2>5, <2>6, FS_PigeonHole
  <2> QED
    BY <1>10, <2>3, <2>5, <2>7
<1>14. PICK k \in T : \A l \in T : k <= l
  <2>1. T \subseteq Nat
    BY <1>3, <1>12
  <2> QED
    BY <1>13, <2>1, LeastNatural
<1>15. \A l \in 1..k - 1 : Stem(t.id, l) \in used
  <2>1. ASSUME NEW l \in 1..k - 1 PROVE l \in 1..n + 1 /\ ~(k <= l)
    <3>1. k \in 1..n + 1
      BY <1>12
    <3> QED
      BY <1>3, <3>1
  <2> QED
    BY <1>12, <1>14, <2>1
<1> DEFINE First(m) == /\ Stem(t.id, m) \notin used
                       /\ \A l \in 1..m - 1 : Stem(t.id, l) \in used
<1>16. \E m \in 1..n + 1 : First(m)
  BY <1>12, <1>14, <1>15
<1>17. FreeStem(t.id) = Stem(t.id, CHOOSE m \in 1..n + 1 : First(m))
  BY <1>1 DEF FreeStem
<1>18. PICK q : q = CHOOSE m \in 1..n + 1 : First(m)
  OBVIOUS
<1>19. First(q)
  <2> HIDE DEF First
  <2> QED
    BY <1>16, <1>18
<1> QED
  BY <1>8, <1>17, <1>18, <1>19

Sidecar == Command /\ Directory

\* At first there is nothing to tell of.
LEMMA SidecarInit ==
    ASSUME Init
    PROVE  Sidecar
<1>1. /\ project \in Project /\ detected = <<>> /\ entries = <<>> /\ files = <<>>
  BY DEF Init
<1>2. <<>> \in Seq({}) /\ Len(<<>>) = 0 /\ 1..0 = {} /\ DOMAIN <<>> = {}
  OBVIOUS
<1>3. PICK e, n : e = entries /\ n = Len(entries) /\ n = 0 /\ IsSeq(e)
  BY <1>1, <1>2 DEF IsSeq
<1>4. Len(entries) <= Len(detected)
  BY <1>1, <1>2
<1>5. 1..Len(entries) = {}
  BY <1>1, <1>2
<1> QED
  BY <1>1, <1>2, <1>3, <1>4, <1>5 DEF Sidecar, Command, Directory

\* A write adds an entry and the manifest it tells of, and takes no other's file.
LEMMA WriteKeeps ==
    ASSUME Sidecar, WriteManifest
    PROVE  Sidecar'
<1>1. PICK n, t, f : n = Len(entries) /\ t = Tool /\ f = FreeStem(Tool.id)
  OBVIOUS
<1>2. PICK e : e = [id |-> t.id, file |-> f, guess |-> guess(t)]
  OBVIOUS
<1>3. PICK m : m = build_manifest(t)
  OBVIOUS
<1>4. /\ entries' = Append(entries, e)
      /\ files' = [g \in DOMAIN files \cup {f} |-> IF g = f THEN m ELSE files[g]]
      /\ UNCHANGED <<project, running, detected>> /\ running
  BY <1>1, <1>2, <1>3 DEF WriteManifest
<1>5. /\ IsSeq(entries') /\ n \in Nat /\ DOMAIN entries = 1..n
      /\ Len(entries') = n + 1
      /\ entries'[n + 1] = e
      /\ \A i \in 1..n : entries'[i] = entries[i]
  BY <1>1, <1>4, AppendAny DEF Sidecar, Command
<1>6. f \notin used
  BY <1>1, FreeStemIsFree DEF Sidecar, WriteManifest
<1>7. \A i \in 1..n : entries[i].file # f
  BY <1>5, <1>6 DEF used
<1>8. n # Len(detected) /\ n <= Len(detected)
  BY <1>1 DEF Sidecar, Command, WriteManifest, Written
<1>9. PICK p \in Project : detected = scan_project(p)
  <2>1. detected # <<>>
    <3>1. Len(<<>>) = 0
      OBVIOUS
    <3> QED
      BY <1>5, <1>8, <3>1
  <2> QED
    BY <2>1 DEF Sidecar, Command
<1>10. PICK L \in Nat : L = Len(detected) /\ \A i \in 1..L : detected[i] \in Known
  BY <1>9, ScanFinds
<1>11. n + 1 <= L
  BY <1>5, <1>8, <1>10
<1>12. t = detected[n + 1] /\ t \in Known
  BY <1>1, <1>5, <1>10, <1>11 DEF Tool
<1>13. FileTells(m) /\ m.of = t
  BY <1>3, <1>12, BuiltTells
<1>14. Directory'
  BY <1>4, <1>13 DEF Sidecar, Directory
<1>15. e.file = f /\ e.guess = guess(t)
  BY <1>2
<1>16. EntryTells(e, t, files')
  BY <1>4, <1>13, <1>15 DEF EntryTells
<1>17. ASSUME NEW i \in 1..n PROVE EntryTells(entries[i], detected[i], files')
  <2>1. PICK a, b : a = entries[i] /\ b = detected[i]
    OBVIOUS
  <2>2. EntryTells(a, b, files) /\ a.file # f
    BY <1>1, <1>7, <2>1 DEF Sidecar, Command
  <2> QED
    BY <1>4, <2>1, <2>2 DEF EntryTells
<1>18. ASSUME NEW i \in 1..n + 1 PROVE i \in 1..n \/ i = n + 1
  BY <1>5
<1>19. \A i \in 1..n + 1 : EntryTells(entries'[i], detected[i], files')
  BY <1>5, <1>12, <1>16, <1>17, <1>18
<1>20. ASSUME NEW i \in 1..n + 1, NEW j \in 1..n + 1, i # j
       PROVE  entries'[i].file # entries'[j].file
  <2>1. \A k, l \in 1..n : k # l => entries[k].file # entries[l].file
    BY <1>1 DEF Sidecar, Command
  <2>2. CASE i = n + 1
    <3>1. j \in 1..n /\ entries'[j] = entries[j]
      BY <1>5, <1>18, <1>20, <2>2
    <3> QED
      BY <1>5, <1>7, <1>15, <2>2, <3>1
  <2>3. CASE j = n + 1
    <3>1. i \in 1..n /\ entries'[i] = entries[i]
      BY <1>5, <1>18, <1>20, <2>3
    <3> QED
      BY <1>5, <1>7, <1>15, <2>3, <3>1
  <2>4. CASE i \in 1..n /\ j \in 1..n
    BY <1>5, <1>20, <2>1, <2>4
  <2> QED
    BY <1>18, <2>2, <2>3, <2>4
<1>21. Command'
  <2>1. Len(entries') <= Len(detected')
    BY <1>4, <1>5, <1>10, <1>11
  <2>2. project' \in Project /\ \E q \in Project : detected' = scan_project(q)
    BY <1>4, <1>9 DEF Sidecar, Command
  <2> QED
    BY <1>4, <1>5, <1>19, <1>20, <2>1, <2>2 DEF Command
<1> QED
  BY <1>14, <1>21 DEF Sidecar

\* Without a command there is no entry, whatever becomes of the files.
LEMMA EndKeeps ==
    ASSUME Sidecar, EndCommand,
           \A g \in DOMAIN files' : g \in DOMAIN files /\ files'[g] = files[g]
    PROVE  Sidecar'
<1>1. /\ project' = project /\ detected' = <<>> /\ entries' = <<>>
  BY DEF EndCommand
<1>2. <<>> \in Seq({}) /\ Len(<<>>) = 0 /\ 1..0 = {}
  OBVIOUS
<1>3. PICK e : e = entries' /\ IsSeq(e) /\ Len(e) = 0 /\ 1..Len(e) = {}
  BY <1>1, <1>2 DEF IsSeq
<1>4. Len(entries') <= Len(detected')
  BY <1>1, <1>2
<1>5. project' \in Project
  BY <1>1 DEF Sidecar, Command
<1>6. Directory'
  BY DEF Sidecar, Directory
<1>7. Command'
  BY <1>1, <1>3, <1>4, <1>5 DEF Command
<1> QED
  BY <1>6, <1>7 DEF Sidecar

\* A human's word leaves every file with the tool it was written for.
LEMMA ReviewKeeps ==
    ASSUME Sidecar, Review
    PROVE  Sidecar'
<1>1. PICK f \in DOMAIN files, c \in Verdict :
         files' = [files EXCEPT ![f].classes = {c}, ![f].reviewed = TRUE]
  BY DEF Review
<1>2. PICK d : d = {c}
  OBVIOUS
<1>3. PICK m : m = files[f]
  OBVIOUS
<1>4. PICK n : n = [[m EXCEPT !.classes = d] EXCEPT !.reviewed = TRUE]
  OBVIOUS
<1>5. files' = [files EXCEPT ![f] = n]
  <2>1. PICK h : h = [files EXCEPT ![f].classes = d]
    OBVIOUS
  <2>2. files' = [h EXCEPT ![f].reviewed = TRUE]
    BY <1>1, <1>2, <2>1
  <2>3. h[f] = [m EXCEPT !.classes = d]
    BY <1>3, <2>1
  <2> QED
    BY <1>3, <1>4, <2>1, <2>2, <2>3
<1>6. FileTells(m)
  BY <1>3 DEF Sidecar, Directory
<1>7. FileTells(n) /\ n.of = m.of
  BY <1>4, <1>6, ReviewTells
<1>8. DOMAIN files' = DOMAIN files
  BY <1>5
<1>9. \A g \in DOMAIN files : files'[g] = IF g = f THEN n ELSE files[g]
  BY <1>5
<1>10. Directory'
  BY <1>7, <1>8, <1>9 DEF Sidecar, Directory
<1>11. \A e, t : EntryTells(e, t, files) => EntryTells(e, t, files')
  BY <1>3, <1>7, <1>8, <1>9 DEF EntryTells
<1>12. UNCHANGED <<project, running, detected, entries>>
  BY DEF Review, command
<1>13. Command'
  BY <1>11, <1>12 DEF Sidecar, Command
<1> QED
  BY <1>10, <1>13 DEF Sidecar

\* No step makes the sidecar or a file tell anything else.
LEMMA SidecarStep ==
    ASSUME Sidecar, [Next]_vars
    PROVE  Sidecar'
<1>1. CASE UNCHANGED <<project, running, detected, entries, files>>
  BY <1>1 DEF Sidecar, Command, Directory
<1>2. CASE Develop
  <2>1. /\ project' \in Project
        /\ UNCHANGED <<running, detected, entries, files>>
    BY <1>2 DEF Develop, command
  <2> QED
    BY <2>1 DEF Sidecar, Command, Directory
<1>3. CASE StartManifest
  <2>1. /\ UNCHANGED <<project, entries, files>> /\ running'
        /\ detected' = scan_project(project) /\ ~running
    BY <1>3 DEF StartManifest
  <2>2. project \in Project /\ entries = <<>>
    BY <2>1 DEF Sidecar, Command
  <2>3. detected' \in Seq(Known)
    BY <2>1, <2>2, ScanFinds
  <2>4. Len(detected') \in Nat /\ Len(<<>>) = 0 /\ 1..0 = {}
    BY <2>3
  <2>5. Len(entries') <= Len(detected') /\ 1..Len(entries') = {} /\ IsSeq(entries')
    BY <2>1, <2>2, <2>4 DEF Sidecar, Command
  <2> QED
    BY <2>1, <2>2, <2>5 DEF Sidecar, Command, Directory
<1>4. CASE WriteManifest
  BY <1>4, WriteKeeps
<1>5. CASE WriteSidecar
  BY <1>5, EndKeeps DEF WriteSidecar
<1>6. CASE Interrupted
  <2>1. PICK open : files' \in {files, [f \in DOMAIN files \ open |-> files[f]]}
    BY <1>6 DEF Interrupted
  <2>2. \A g \in DOMAIN files' : g \in DOMAIN files /\ files'[g] = files[g]
    BY <2>1
  <2> QED
    BY <1>6, <2>2, EndKeeps DEF Interrupted
<1>7. CASE Review
  BY <1>7, ReviewKeeps
<1>8. CASE Plan
  BY <1>1, <1>8 DEF Plan, command
<1>9. CASE RunTrial
  BY <1>1, <1>9 DEF RunTrial, command
<1>10. CASE UNCHANGED vars
  BY <1>1, <1>10 DEF vars, command
<1> QED
  BY <1>2, <1>3, <1>4, <1>5, <1>6, <1>7, <1>8, <1>9, <1>10 DEF Next

\* The inductive invariant of the command and the directory.
LEMMA SidecarInvariant == Spec => []Sidecar
<1>1. Init => Sidecar
  BY SidecarInit
<1>2. Sidecar /\ [Next]_vars => Sidecar'
  BY SidecarStep
<1> QED
  BY <1>1, <1>2, PTL DEF Spec

\* What the running command has gathered for wrap.json is true of the directory
\* at every moment of it (manifest.py:10-13, cli.py:113-132), for any code, however often the
\* command runs, is interrupted and files are reviewed.
THEOREM SidecarIsTrue == Spec => []SidecarTellsAll
<1>1. ASSUME Sidecar PROVE SidecarTellsAll
  <2>1. PICK n : n = Len(entries) /\ DOMAIN entries = 1..n
    BY <1>1 DEF Sidecar, Command, IsSeq
  <2>2. SUFFICES ASSUME NEW i \in 1..n
                 PROVE  LET file == entries[i].file IN
                        /\ file \in DOMAIN files
                        /\ files[file].of = detected[i]
                        /\ \A j \in DOMAIN entries : i # j => entries[j].file # file
                        /\ entries[i].guess.class = "UNKNOWN" =>
                               files[file].reviewed \/ files[file].classes = {"EXEC"}
    BY <2>1 DEF SidecarTellsAll
  <2>3. PICK e, t : e = entries[i] /\ t = detected[i]
    OBVIOUS
  <2>4. EntryTells(e, t, files)
    BY <1>1, <2>1, <2>3 DEF Sidecar, Command
  <2>5. PICK m : m = files[e.file]
    OBVIOUS
  <2>6. e.file \in DOMAIN files /\ m.of = t /\ e.guess = guess(t)
    BY <2>4, <2>5 DEF EntryTells
  <2>7. FileTells(m)
    BY <1>1, <2>5, <2>6 DEF Sidecar, Directory
  <2>8. \A j \in 1..n : i # j => entries[j].file # entries[i].file
    BY <1>1, <2>1 DEF Sidecar, Command
  <2>9. ASSUME e.guess.class = "UNKNOWN", ~m.reviewed PROVE m.classes = {"EXEC"}
    <3>1. default_class(t) = "EXEC"
      BY <2>6, <2>9 DEF default_class
    <3> QED
      BY <2>6, <2>7, <2>9, <3>1 DEF FileTells
  <2> QED
    BY <2>1, <2>3, <2>5, <2>6, <2>8, <2>9
<1> QED
  BY <1>1, SidecarInvariant, PTL

-----------------------------------------------------------------------------
(***************************************************************************)
(* The trials                                                              *)
(***************************************************************************)
\* What the i-th trial comes to.
Outcome(i) == IF Refusal(Unit(i)) THEN NoToolset ELSE Toolset(Unit(i))

\* What a trial comes to depends on the assignment only.
LEMMA SameOutcome ==
    ASSUME assignment' = assignment
    PROVE  \A i : Outcome(i)' = Outcome(i)
<1>1. \A u : arm_for(u)' = arm_for(u)
  BY DEF arm_for
<1>2. \A u : inputs_for(u)' = inputs_for(u)
  BY DEF inputs_for
<1>3. \A i : Unit(i)' = Unit(i)
  BY DEF Unit
<1>4. \A u : Refusal(u)' = Refusal(u)
  BY <1>1, <1>2 DEF Refusal
<1>5. \A u : Toolset(u)' = Toolset(u)
  BY <1>1, <1>2 DEF Toolset
<1> QED
  BY <1>3, <1>4, <1>5 DEF Outcome

\* What Lab assigned: manifests that tell what the inference made of the tools.
Assigned(a) ==
    /\ IsSeq(a.manifests)
    /\ \A i \in DOMAIN a.manifests : FileTells(a.manifests[i])
    /\ a.conditions \in Conditions \cup {<<>>}
    /\ a.scenarios \in Scenarios \cup {<<>>}

\* Every trial so far came to what the one assignment says.
Trials ==
    /\ Assigned(assignment)
    /\ Unplanned => toolsets = <<>>
    /\ IsSeq(toolsets)
    /\ \A i \in 1..Len(toolsets) : toolsets[i] = Outcome(i)

Release == Sidecar /\ Trials

\* The empty sequence.
LEMMA EmptyIsSeq == IsSeq(<<>>)
<1>1. <<>> \in Seq({})
  OBVIOUS
<1> QED
  BY <1>1 DEF IsSeq

\* At first there is no trial.
LEMMA ReleaseInit ==
    ASSUME Init
    PROVE  Release
<1>1. /\ assignment = [manifests |-> <<>>, conditions |-> <<>>,
                       scenarios |-> <<>>, planned |-> <<>>]
      /\ toolsets = <<>>
  BY DEF Init, AssignmentInit
<1>2. /\ assignment.manifests = <<>> /\ assignment.conditions = <<>>
      /\ assignment.scenarios = <<>>
  BY <1>1
<1>3. DOMAIN <<>> = {} /\ 1..Len(<<>>) = {}
  OBVIOUS
<1>4. Assigned(assignment)
  BY <1>2, <1>3, EmptyIsSeq DEF Assigned
<1>5. Trials
  BY <1>1, <1>3, <1>4, EmptyIsSeq DEF Trials
<1> QED
  BY <1>5, SidecarInit DEF Release

\* Lab plans against manifests from the directory.
LEMMA PlanKeeps ==
    ASSUME Release, Plan
    PROVE  Trials'
<1>1. /\ assignment' \in [manifests : {<<>>, Manifests}, conditions : Conditions,
                           scenarios : Scenarios, planned : Planned]
      /\ toolsets' = toolsets /\ toolsets = <<>>
  BY DEF Plan, Release, Trials
<1>2. PICK ms, cs, ss, ps : /\ ms = {<<>>, Manifests} /\ cs = Conditions
                            /\ ss = Scenarios /\ ps = Planned
  OBVIOUS
<1>3. PICK a : a = assignment'
  OBVIOUS
<1>4. a \in [manifests : ms, conditions : cs, scenarios : ss, planned : ps]
  BY <1>1, <1>2, <1>3
<1>5. a.manifests \in {<<>>, Manifests} /\ a.conditions \in Conditions /\ a.scenarios \in Scenarios
  BY <1>2, <1>4
<1>6. IsSeq(Manifests) /\ \A i \in DOMAIN Manifests : FileTells(Manifests[i])
  <2>1. PICK names : names = InOrder(FileOrder, DOMAIN files)
    OBVIOUS
  <2>2. PICK n \in Nat : DOMAIN FileOrder = 1..n
    BY NamesConfig
  <2>3. names \in Seq(DOMAIN files)
    BY <2>1, <2>2, InOrderHolds
  <2>4. PICK k \in Nat : DOMAIN names = 1..k /\ \A i \in 1..k : names[i] \in DOMAIN files
    BY <2>3
  <2>5. Manifests = [i \in 1..k |-> files[names[i]]]
    BY <2>1, <2>4 DEF Manifests
  <2>6. PICK S : S = {files[f] : f \in DOMAIN files}
    OBVIOUS
  <2>7. Manifests \in Seq(S)
    BY <2>4, <2>5, <2>6
  <2>8. \A i \in 1..k : FileTells(files[names[i]])
    BY <2>4 DEF Release, Sidecar, Directory
  <2> QED
    BY <2>5, <2>7, <2>8 DEF IsSeq
<1>7. DOMAIN <<>> = {} /\ 1..Len(<<>>) = {}
  OBVIOUS
<1>8. Assigned(a)
  BY <1>5, <1>6, <1>7, EmptyIsSeq DEF Assigned
<1> QED
  BY <1>1, <1>3, <1>7, <1>8, EmptyIsSeq DEF Trials

\* A trial is built from the assignment as it is.
LEMMA TrialKeeps ==
    ASSUME Release, RunTrial
    PROVE  Trials'
<1>1. PICK n, x : n = Len(toolsets) /\ x = Outcome(n + 1)
  OBVIOUS
<1>2. /\ assignment' = assignment
      /\ toolsets' = Append(toolsets, x)
      /\ n < Len(assignment.planned)
  BY <1>1 DEF RunTrial, toolset_for_arm, Outcome, Unit
<1>3. /\ IsSeq(toolsets') /\ n \in Nat /\ Len(toolsets') = n + 1
      /\ toolsets'[n + 1] = x
      /\ \A i \in 1..n : toolsets'[i] = toolsets[i]
  BY <1>1, <1>2, AppendAny DEF Release, Trials
<1>4. \A i \in 1..n : toolsets[i] = Outcome(i)
  BY <1>1 DEF Release, Trials
<1>5. \A i \in 1..n + 1 : i \in 1..n \/ i = n + 1
  BY <1>3
<1>6. \A i \in 1..n + 1 : toolsets'[i] = Outcome(i)'
  BY <1>1, <1>2, <1>3, <1>4, <1>5, SameOutcome
<1>7. ~Unplanned'
  <2>1. Len(<<>>) = 0 /\ ~(n < 0)
    BY <1>3
  <2> QED
    BY <1>2, <2>1 DEF Unplanned
<1> QED
  BY <1>2, <1>3, <1>6, <1>7 DEF Release, Trials

\* No step changes what a trial came to.
LEMMA ReleaseStep ==
    ASSUME Release, [Next]_vars
    PROVE  Release'
<1>1. Sidecar'
  BY SidecarStep DEF Release
<1>2. CASE UNCHANGED trials
  BY <1>1, <1>2, SameOutcome DEF Release, Trials, trials, Unplanned
<1>3. CASE Plan
  BY <1>1, <1>3, PlanKeeps DEF Release
<1>4. CASE RunTrial
  BY <1>1, <1>4, TrialKeeps DEF Release
<1> QED
  BY <1>2, <1>3, <1>4 DEF Next, Develop, StartManifest, WriteManifest, WriteSidecar,
     Interrupted, EndCommand, Review, vars

\* The inductive invariant of the whole way from code to trials.
LEMMA ReleaseInvariant == Spec => []Release
<1>1. Init => Release
  BY ReleaseInit
<1>2. Release /\ [Next]_vars => Release'
  BY ReleaseStep
<1> QED
  BY <1>1, <1>2, PTL DEF Spec

\* The toolset of a trial that is not refused.
LEMMA Ran ==
    ASSUME Release, NEW i \in DOMAIN toolsets, toolsets[i] # NoToolset
    PROVE  ~Refusal(Unit(i)) /\ toolsets[i] = Toolset(Unit(i))
<1>1. i \in 1..Len(toolsets)
  BY DEF Release, Trials, IsSeq
<1> QED
  BY <1>1 DEF Release, Trials, Outcome

\* End to end, a tool is left out of the sinks of a trial only if a human took
\* it out or its own words say that it reads or saves, and a read of the outside
\* is a source of taint (manifest.py:10-13, roles.py:13-14), for any code, words,
\* assignment and number of commands.
THEOREM ReleasedOnEvidence == Spec => []OnlyEvidentIsReleased
<1>1. ASSUME Release PROVE OnlyEvidentIsReleased
  <2>1. SUFFICES ASSUME NEW i \in DOMAIN toolsets, toolsets[i] # NoToolset,
                        NEW m \in ToSet(assignment.manifests)
                 PROVE  /\ m.id \notin toolsets[i].config.egress_sinks =>
                               m.reviewed \/ SaysHarmless(m.of)
                        /\ ReadsOutside(m.of) =>
                               m.id \in toolsets[i].config.untrusted_sources
    BY DEF OnlyEvidentIsReleased
  <2>2. PICK contract : contract = assignment.manifests
    OBVIOUS
  <2>3. /\ toolsets[i].config.egress_sinks = EgressSinks(contract)
        /\ toolsets[i].config.untrusted_sources =
              {contract[j].id : j \in {k \in DOMAIN contract : contract[k].untrusted}}
    <3>1. toolsets[i] = Toolset(Unit(i))
      BY <1>1, <2>1, Ran
    <3>2. PICK c, e, u : /\ c = compile_manifests(contract, arm_for(Unit(i)).allowlist,
                                                  inputs_for(Unit(i)))
                         /\ e = EgressSinks(contract)
                         /\ u = {contract[j].id : j \in {k \in DOMAIN contract :
                                                             contract[k].untrusted}}
      OBVIOUS
    <3>3. toolsets[i].config = c
      BY <2>2, <3>1, <3>2 DEF Toolset
    <3>4. c.egress_sinks = e /\ c.untrusted_sources = u
      BY <3>2 DEF compile_manifests
    <3> QED
      BY <3>2, <3>3, <3>4
  <2>4. PICK j \in DOMAIN contract : m = contract[j]
    BY <2>2 DEF ToSet
  <2>5. FileTells(m)
    BY <1>1, <2>2, <2>4 DEF Release, Trials, Assigned
  <2>6. PICK t \in Known : t = m.of
    BY <2>5 DEF FileTells
  <2>7. /\ guess(t).class \in Class
        /\ guess(t).class \in {"READ", "WRITE"} => SaysHarmless(t)
        /\ ReadsOutside(t) => untrusted(t)
    BY KnownIsFlagged, GuessTells
  <2>8. ASSUME m.id \notin EgressSinks(contract), ~m.reviewed PROVE SaysHarmless(t)
    <3>1. ~Exports(m)
      BY <2>4, <2>8 DEF EgressSinks
    <3>2. m.classes = {default_class(t)}
      BY <2>5, <2>6, <2>8 DEF FileTells
    <3>3. default_class(t) \notin {"EXPORT", "EXEC"}
      BY <3>1, <3>2 DEF Exports
    <3>4. guess(t).class \in {"READ", "WRITE"}
      BY <2>7, <3>3 DEF default_class, Class
    <3> QED
      BY <2>7, <3>4
  <2>9. ASSUME ReadsOutside(t)
        PROVE  m.id \in {contract[k].id : k \in {l \in DOMAIN contract : contract[l].untrusted}}
    <3>1. m.untrusted = untrusted(t) /\ untrusted(t)
      BY <2>5, <2>6, <2>7, <2>9 DEF FileTells
    <3> QED
      BY <2>4, <3>1
  <2> QED
    BY <2>3, <2>5, <2>6, <2>8, <2>9 DEF FileTells
<1> QED
  BY <1>1, ReleaseInvariant, PTL

-----------------------------------------------------------------------------
(***************************************************************************)
(* Arms and inputs by name                                                 *)
(***************************************************************************)
\* What Lab's ids and names are for: an arm is looked up "by id"
\* (experiment.py:31), a scenario's inputs by its name (experiment.py:67).
NamesAreUnique ==
    /\ \A arms \in Conditions : \A i, j \in DOMAIN arms : arms[i].id = arms[j].id => i = j
    /\ \A scenarios \in Scenarios : \A i, j \in DOMAIN scenarios :
          scenarios[i].name = scenarios[j].name => i = j

\* The arm looked up is the one the assignment declares.
LEMMA ArmIsDeclared ==
    ASSUME Release, NamesAreUnique, NEW i
    PROVE  /\ arm_for(Unit(i)) = Absent => DeclaredArms(i) = {}
           /\ arm_for(Unit(i)) # Absent => DeclaredArms(i) = {arm_for(Unit(i))}
           /\ \A arm \in DeclaredArms(i) : /\ arm.enforcement \in {"on", "off", Absent}
                                           /\ arm.allowlist \in Seq(Destination \cup Reference)
<1>1. PICK arms, id : arms = assignment.conditions /\ id = Unit(i).arm
  OBVIOUS
<1>2. PICK Flags, Lists : Flags = {"on", "off", Absent} /\ Lists = Seq(Destination \cup Reference)
  OBVIOUS
<1>3. PICK Arms : Arms = [id : STRING, enforcement : Flags, allowlist : Lists]
  OBVIOUS
<1>4. arms \in Conditions \cup {<<>>}
  BY <1>1 DEF Release, Trials, Assigned
<1>5. <<>> \in Seq(Arms) /\ DOMAIN <<>> = {} /\ ToSet(<<>>) = {}
  BY DEF ToSet
<1>6. arms \in Seq(Arms) /\ Absent \notin ToSet(arms)
  BY <1>2, <1>3, <1>4, <1>5, AssignmentConfig
<1>7. PICK n \in Nat : DOMAIN arms = 1..n /\ \A j \in 1..n : arms[j] \in Arms
  BY <1>6
<1>8. \A j, k \in 1..n : arms[j].id = arms[k].id => j = k
  BY <1>4, <1>5, <1>7 DEF NamesAreUnique
<1>9. PICK at : at = {j \in 1..n : arms[j].id = id}
  OBVIOUS
<1>10. arm_for(Unit(i)) = IF at = {} THEN Absent
                          ELSE arms[CHOOSE j \in at : \A k \in at : k <= j]
  BY <1>1, <1>7, <1>9 DEF arm_for
<1>11. DeclaredArms(i) = {arms[j] : j \in at}
  BY <1>1, <1>7, <1>9 DEF DeclaredArms, ToSet
<1>12. \A arm \in DeclaredArms(i) : arm \in Arms /\ arm # Absent
  BY <1>6, <1>7, <1>9, <1>11 DEF ToSet
<1>13. ASSUME at # {} PROVE DeclaredArms(i) = {arm_for(Unit(i))} /\ arm_for(Unit(i)) # Absent
  <2>1. PICK j \in at : at = {j}
    BY <1>8, <1>9, <1>13
  <2>2. PICK q : q = CHOOSE l \in at : \A k \in at : k <= l
    OBVIOUS
  <2>3. j <= j
    BY <1>7, <1>9
  <2>4. q = j
    BY <2>1, <2>2, <2>3
  <2> QED
    BY <1>10, <1>11, <1>12, <1>13, <2>1, <2>2, <2>4
<1>14. \A arm \in Arms : arm.enforcement \in Flags /\ arm.allowlist \in Lists
  BY <1>3
<1> QED
  BY <1>2, <1>10, <1>11, <1>12, <1>13, <1>14

\* The inputs looked up are those the assignment supplies.
LEMMA InputsAreSupplied ==
    ASSUME Release, NamesAreUnique, NEW i, NEW r
    PROVE  /\ r \in DOMAIN inputs_for(Unit(i)) <=> Supplies(i, r)
           /\ r \in DOMAIN inputs_for(Unit(i)) =>
                 /\ inputs_for(Unit(i))[r] \in Seq(Destination)
                 /\ ToSet(inputs_for(Unit(i))[r]) = Supplied(i, r)
<1>1. PICK all, name : all = assignment.scenarios /\ name = Unit(i).scenario
  OBVIOUS
<1>2. all \in Scenarios \cup {<<>>}
  BY <1>1 DEF Release, Trials, Assigned
<1>3. <<>> \in Seq({}) /\ DOMAIN <<>> = {} /\ ToSet(<<>>) = {}
  BY DEF ToSet
<1>4. PICK S : all \in Seq(S)
  BY <1>2, <1>3, AssignmentConfig
<1>5. PICK n \in Nat : DOMAIN all = 1..n
  BY <1>4
<1>6. \A j, k \in 1..n : all[j].name = all[k].name => j = k
  BY <1>2, <1>3, <1>5 DEF NamesAreUnique
<1>7. ASSUME NEW j \in 1..n, r \in DOMAIN all[j].inputs
      PROVE  all[j].inputs[r] \in Seq(Destination)
  <2>1. all[j] \in ToSet(all)
    BY <1>5 DEF ToSet
  <2>2. all \in Scenarios
    BY <1>2, <1>3, <2>1
  <2> QED
    BY <1>7, <2>1, <2>2, AssignmentConfig
<1>8. PICK at : at = {j \in 1..n : all[j].name = name}
  OBVIOUS
<1>9. inputs_for(Unit(i)) = IF at = {} THEN <<>>
                            ELSE all[CHOOSE j \in at : \A k \in at : j <= k].inputs
  BY <1>1, <1>5, <1>8 DEF inputs_for
<1>10. Supplies(i, r) <=> \E j \in at : r \in DOMAIN all[j].inputs
  BY <1>1, <1>5, <1>8 DEF Supplies, ToSet
<1>11. CASE at = {}
  BY <1>3, <1>9, <1>10, <1>11
<1>12. CASE at # {}
  <2>1. PICK j \in at : at = {j}
    BY <1>6, <1>8, <1>12
  <2>2. PICK q : q = CHOOSE l \in at : \A k \in at : l <= k
    OBVIOUS
  <2>3. j <= j
    BY <1>5, <1>8
  <2>4. q = j
    BY <2>1, <2>2, <2>3
  <2>5. PICK inputs : inputs = all[j].inputs
    OBVIOUS
  <2>6. inputs_for(Unit(i)) = inputs
    BY <1>9, <1>12, <2>2, <2>4, <2>5
  <2>7. r \in DOMAIN inputs <=> Supplies(i, r)
    BY <1>10, <2>1, <2>5
  <2>8. ASSUME r \in DOMAIN inputs
        PROVE  inputs[r] \in Seq(Destination) /\ ToSet(inputs[r]) = Supplied(i, r)
    <3>1. inputs[r] \in Seq(Destination)
      BY <1>7, <1>8, <2>5, <2>8
    <3>2. {t \in ToSet(all) : t.name = name /\ r \in DOMAIN t.inputs} = {all[j]}
      <4>1. \A t \in ToSet(all) : t.name = name => t = all[j]
        BY <1>5, <1>8, <2>1 DEF ToSet
      <4>2. all[j] \in ToSet(all) /\ all[j].name = name
        BY <1>5, <1>8 DEF ToSet
      <4> QED
        BY <2>5, <2>8, <4>1, <4>2
    <3>3. Supplied(i, r) = UNION {ToSet(s.inputs[r]) : s \in {all[j]}}
      BY <1>1, <3>2 DEF Supplied
    <3> QED
      BY <2>5, <3>1, <3>3
  <2> QED
    BY <2>6, <2>7, <2>8
<1> QED
  BY <1>11, <1>12

\* A trial is refused exactly when its arm, its flag, a tool or an input its
\* allowlist names is missing, and otherwise runs under its own arm's flag
\* (experiment.py:16-18, compile.py:37-38), for any assignment that tells its
\* arms and scenarios apart.
THEOREM RefusalHasCause ==
    ASSUME NamesAreUnique
    PROVE  Spec => []RefusedForCause
<1>1. ASSUME Release PROVE RefusedForCause
  <2>1. SUFFICES ASSUME NEW i \in DOMAIN toolsets, NEW runnable,
                   runnable = {arm \in DeclaredArms(i) :
                      /\ assignment.manifests # <<>>
                      /\ arm.enforcement \in {"on", "off"}
                      /\ \A r \in ToSet(arm.allowlist) \cap Reference : Supplies(i, r)}
                 PROVE  IF toolsets[i] = NoToolset THEN runnable = {}
                        ELSE \E arm \in runnable : toolsets[i].enforcement = arm.enforcement
    BY DEF RefusedForCause
  <2>2. PICK u : u = Unit(i)
    OBVIOUS
  <2>3. toolsets[i] = IF Refusal(u) THEN NoToolset ELSE Toolset(u)
    <3>1. i \in 1..Len(toolsets)
      BY <1>1 DEF Release, Trials, IsSeq
    <3> QED
      BY <1>1, <2>2, <3>1 DEF Release, Trials, Outcome
  <2>4. PICK arm : arm = arm_for(u)
    OBVIOUS
  <2>5. /\ arm = Absent => DeclaredArms(i) = {}
        /\ arm # Absent => DeclaredArms(i) = {arm}
    BY <1>1, <2>2, <2>4, ArmIsDeclared
  <2>6. Unresolved(arm.allowlist, inputs_for(u)) <=>
           \E r \in ToSet(arm.allowlist) \cap Reference : ~Supplies(i, r)
    BY <1>1, <2>2, InputsAreSupplied DEF Unresolved
  <2>7. Refusal(u) <=> \/ assignment.manifests = <<>>
                       \/ arm = Absent
                       \/ arm.enforcement \notin {"on", "off"}
                       \/ \E r \in ToSet(arm.allowlist) \cap Reference : ~Supplies(i, r)
    BY <2>4, <2>6 DEF Refusal, Misstated
  <2>8. CASE Refusal(u)
    BY <2>1, <2>3, <2>5, <2>7, <2>8
  <2>9. CASE ~Refusal(u)
    <3>1. arm \in runnable
      BY <2>1, <2>5, <2>7, <2>9
    <3>2. toolsets[i].enforcement = arm.enforcement
      BY <2>3, <2>4, <2>9 DEF Toolset
    <3>3. toolsets[i].enforcement # Absent
      BY <2>7, <2>9, <3>2, ValuesDiffer
    <3>4. NoToolset.enforcement = Absent
      BY DEF NoToolset
    <3> QED
      BY <3>1, <3>2, <3>3, <3>4
  <2> QED
    BY <2>8, <2>9
<1> QED
  BY <1>1, ReleaseInvariant, PTL

\* What drives a tool, of the manifests with its id.
LEMMA DrivingIsDeclared ==
    ASSUME Release, NEW id, NEW contract, contract = assignment.manifests
    PROVE  IF DrivingArgs(contract, id) = <<>> THEN Driving(id) = {}
           ELSE Head(DrivingArgs(contract, id)) \in Driving(id)
<1>1. PICK n \in Nat : DOMAIN contract = 1..n
  BY DEF Release, Trials, Assigned, IsSeq
<1>2. \A j \in 1..n : IsSeq(contract[j].driving_args)
  BY <1>1 DEF Release, Trials, Assigned, FileTells
<1>3. PICK at : at = {j \in 1..n : contract[j].id = id /\ contract[j].driving_args # <<>>}
  OBVIOUS
<1>4. DrivingArgs(contract, id) =
         IF at = {} THEN <<>>
         ELSE contract[CHOOSE j \in at : \A k \in at : k <= j].driving_args
  BY <1>1, <1>3 DEF DrivingArgs
<1>5. Driving(id) = UNION {ToSet(contract[j].driving_args) :
                              j \in {k \in 1..n : contract[k].id = id}}
  BY <1>1 DEF Driving, ToSet
<1>6. CASE at = {}
  <2>1. \A j \in 1..n : contract[j].id = id => ToSet(contract[j].driving_args) = {}
    BY <1>3, <1>6 DEF ToSet
  <2> QED
    BY <1>4, <1>5, <1>6, <2>1
<1>7. CASE at # {}
  <2>1. PICK q : q = CHOOSE j \in at : \A k \in at : k <= j
    OBVIOUS
  <2>2. q \in at
    <3>1. at \subseteq 1..n
      BY <1>3
    <3>2. \E j \in at : \A k \in at : k <= j
      BY <1>7, <3>1, Greatest
    <3> QED
      BY <2>1, <3>2
  <2>3. PICK d : d = contract[q].driving_args
    OBVIOUS
  <2>4. IsSeq(d) /\ d # <<>>
    BY <1>2, <1>3, <2>2, <2>3
  <2>5. Head(d) \in ToSet(d)
    BY <2>4, SeqMembers DEF IsSeq
  <2>6. ToSet(d) \subseteq Driving(id)
    BY <1>3, <1>5, <2>2, <2>3
  <2> QED
    BY <1>4, <1>7, <2>1, <2>3, <2>4, <2>5, <2>6
<1> QED
  BY <1>6, <1>7

\* What an allowlist comes to when every input it names is supplied.
LEMMA ExpandHolds ==
    ASSUME NEW allowlist \in Seq(Destination \cup Reference), NEW inputs,
           \A r \in ToSet(allowlist) \cap Reference :
               r \in DOMAIN inputs /\ inputs[r] \in Seq(Destination)
    PROVE  ToSet(Expand(allowlist, inputs)) =
              (ToSet(allowlist) \cap Destination)
              \cup UNION {ToSet(inputs[r]) : r \in ToSet(allowlist) \cap Reference}
<1>1. PICK n \in Nat : n = Len(allowlist) /\ DOMAIN allowlist = 1..n
  OBVIOUS
<1>2. PICK ss : ss = [i \in 1..n |-> IF allowlist[i] \in Reference THEN inputs[allowlist[i]]
                                     ELSE <<allowlist[i]>>]
  OBVIOUS
<1>3. \A i \in 1..n : allowlist[i] \in ToSet(allowlist)
  BY <1>1 DEF ToSet
<1>4. ASSUME NEW i \in 1..n PROVE ss[i] \in Seq(Destination)
  <2>1. PICK d : d = allowlist[i]
    OBVIOUS
  <2>2. d \in Destination \cup Reference /\ d \in ToSet(allowlist)
    BY <1>1, <1>3, <2>1
  <2>3. ss[i] = IF d \in Reference THEN inputs[d] ELSE <<d>>
    BY <1>2, <2>1
  <2>4. CASE d \in Reference
    BY <2>2, <2>3, <2>4
  <2>5. CASE d \notin Reference
    <3>1. d \in Destination
      BY <2>2, <2>5
    <3> QED
      BY <2>3, <2>5, <3>1
  <2> QED
    BY <2>4, <2>5
<1>5. ss \in Seq(Seq(Destination)) /\ Len(ss) = n
  BY <1>2, <1>4
<1>6. Expand(allowlist, inputs) = FlattenSeq(ss)
  BY <1>1, <1>2 DEF Expand
<1>7. \A x : x \in ToSet(FlattenSeq(ss)) <=> \E i \in 1..n : x \in ToSet(ss[i])
  BY <1>5, AllHold
<1>8. \A i \in 1..n : ToSet(ss[i]) = IF allowlist[i] \in Reference THEN ToSet(inputs[allowlist[i]])
                                     ELSE {allowlist[i]}
  <2>1. \A d : ToSet(<<d>>) = {d}
    BY DEF ToSet
  <2> QED
    BY <1>2, <2>1
<1>9. ASSUME NEW x PROVE x \in ToSet(FlattenSeq(ss)) <=>
                            \/ x \in ToSet(allowlist) \cap Destination
                            \/ \E r \in ToSet(allowlist) \cap Reference : x \in ToSet(inputs[r])
  <2>1. ASSUME NEW i \in 1..n, x \in ToSet(ss[i])
        PROVE  \/ x \in ToSet(allowlist) \cap Destination
               \/ \E r \in ToSet(allowlist) \cap Reference : x \in ToSet(inputs[r])
    <3>1. PICK d : d = allowlist[i]
      OBVIOUS
    <3>2. d \in ToSet(allowlist) /\ d \in Destination \cup Reference
      BY <1>1, <1>3, <3>1
    <3>3. x \in IF d \in Reference THEN ToSet(inputs[d]) ELSE {d}
      BY <1>8, <2>1, <3>1
    <3> QED
      BY <3>2, <3>3
  <2>2. ASSUME x \in ToSet(allowlist) \cap Destination
        PROVE  \E i \in 1..n : x \in ToSet(ss[i])
    <3>1. PICK i \in 1..n : x = allowlist[i]
      BY <1>1, <2>2 DEF ToSet
    <3>2. x \notin Reference
      BY <2>2, ValuesDiffer
    <3> QED
      BY <1>8, <3>1, <3>2
  <2>3. ASSUME NEW r \in ToSet(allowlist) \cap Reference, x \in ToSet(inputs[r])
        PROVE  \E i \in 1..n : x \in ToSet(ss[i])
    <3>1. PICK i \in 1..n : r = allowlist[i]
      BY <1>1, <2>3 DEF ToSet
    <3> QED
      BY <1>8, <2>3, <3>1
  <2> QED
    BY <1>7, <2>1, <2>2, <2>3
<1> QED
  BY <1>6, <1>9

\* Under an allowlist every tool that can export or execute takes the
\* destinations its own arm and scenario name and no others
\* (compile.py:34-57), for any assignment that tells its arms and scenarios
\* apart.
THEOREM SinksTakeNamed ==
    ASSUME NamesAreUnique
    PROVE  Spec => []SinksTakeOnlyNamed
<1>1. ASSUME Release PROVE SinksTakeOnlyNamed
  <2>1. SUFFICES ASSUME NEW i \in DOMAIN toolsets, NEW arm \in DeclaredArms(i),
                        toolsets[i] # NoToolset, arm.allowlist # <<>>,
                        NEW tool \in ToSet(assignment.manifests), Exports(tool),
                        NEW policies, policies = toolsets[i].config.value_policies,
                        NEW named, named = ToSet(arm.allowlist)
                 PROVE  /\ tool.id \in DOMAIN policies
                        /\ policies[tool.id].arg \in
                              IF Driving(tool.id) = {} THEN {recipient} ELSE Driving(tool.id)
                        /\ ToSet(policies[tool.id].enum) =
                              (named \cap Destination)
                              \cup UNION {Supplied(i, r) : r \in named \cap Reference}
    BY DEF SinksTakeOnlyNamed
  <2>2. PICK contract, inputs : /\ contract = assignment.manifests
                                /\ inputs = inputs_for(Unit(i))
    OBVIOUS
  <2>3. ~Refusal(Unit(i)) /\ toolsets[i] = Toolset(Unit(i))
    BY <1>1, <2>1, Ran
  <2>4. /\ arm = arm_for(Unit(i))
        /\ arm.allowlist \in Seq(Destination \cup Reference)
    BY <1>1, <2>1, ArmIsDeclared
  <2>5. ~Unresolved(arm.allowlist, inputs)
    BY <2>2, <2>3, <2>4 DEF Refusal
  <2>6. \A r \in named \cap Reference :
           /\ r \in DOMAIN inputs /\ inputs[r] \in Seq(Destination)
           /\ ToSet(inputs[r]) = Supplied(i, r)
    BY <1>1, <2>1, <2>2, <2>5, InputsAreSupplied DEF Unresolved
  <2>7. policies = value_policies(contract, arm.allowlist, inputs)
    <3>1. PICK c, v : /\ c = compile_manifests(contract, arm.allowlist, inputs)
                      /\ v = value_policies(contract, arm.allowlist, inputs)
      OBVIOUS
    <3>2. toolsets[i].config = c
      BY <2>2, <2>3, <2>4, <3>1 DEF Toolset
    <3>3. c.value_policies = v
      BY <3>1 DEF compile_manifests
    <3> QED
      BY <2>1, <3>1, <3>2, <3>3
  <2>8. PICK sinks, enum : sinks = EgressSinks(contract) /\ enum = Expand(arm.allowlist, inputs)
    OBVIOUS
  <2>9. policies = [sink \in sinks |->
                      [arg |-> IF DrivingArgs(contract, sink) = <<>> THEN recipient
                               ELSE Head(DrivingArgs(contract, sink)),
                       enum |-> enum]]
    BY <2>1, <2>7, <2>8 DEF value_policies
  <2>10. PICK id : id = tool.id
    OBVIOUS
  <2>11. id \in sinks
    BY <2>1, <2>2, <2>8, <2>10 DEF EgressSinks, ToSet
  <2>12. PICK arg : arg = IF DrivingArgs(contract, id) = <<>> THEN recipient
                          ELSE Head(DrivingArgs(contract, id))
    OBVIOUS
  <2>13. DOMAIN policies = sinks /\ policies[id] = [arg |-> arg, enum |-> enum]
    BY <2>9, <2>11, <2>12
  <2>14. arg \in IF Driving(id) = {} THEN {recipient} ELSE Driving(id)
    BY <1>1, <2>2, <2>12, DrivingIsDeclared
  <2>15. ToSet(enum) = (named \cap Destination)
                       \cup UNION {ToSet(inputs[r]) : r \in named \cap Reference}
    BY <2>1, <2>4, <2>6, <2>8, ExpandHolds
  <2>16. ToSet(enum) = (named \cap Destination)
                       \cup UNION {Supplied(i, r) : r \in named \cap Reference}
    BY <2>6, <2>15
  <2> QED
    BY <2>10, <2>11, <2>13, <2>14, <2>16
<1> QED
  BY <1>1, ReleaseInvariant, PTL
=============================================================================
