---------------------------- MODULE TraceExpand ----------------------------
(***************************************************************************)
(* _mint_untrusted_fields and _expand (src/axor_wrap/trace.py): which      *)
(* values of a tool's result enter a trace's ledger as untrusted.          *)
(*                                                                         *)
(* A result is a tree of dicts, lists, scalars and nulls, given as the     *)
(* nodes at its paths.  One dict key is enough to tell the shapes apart, so*)
(* a dict holds at most one entry, and a pattern such as                   *)
(* "transactions[].description" is the sequence of its segments, of which  *)
(* only "is it followed by []" is kept.  A step of a path is 0 for a dict's*)
(* entry, i for the i-th item of that entry; what a list has in itself     *)
(* without a dict around it is out of every pattern's reach and left out.  *)
(***************************************************************************)
EXTENDS Integers, Sequences, SequencesExt

CONSTANTS
    Pattern,  \* patterns of untrusted_fields: sequences of "field" and "list"
    Result,   \* what tools return
    MaxFields \* bound: patterns of a manifest

(***************************************************************************)
(* Results                                                                 *)
(***************************************************************************)
\* A node, with the number of its items if it is a list.
Node == [kind : {"scalar", "null", "empty", "dict", "list"}, items : Nat]

Entry(node) == Append(node, 0)

\* The steps on from a node.
Steps(result, node) ==
    IF result[node].kind # "dict" THEN {} ELSE 0..result[Entry(node)].items

\* Every step on is taken, and no node is anywhere else.
IsResult(result) ==
    /\ <<>> \in DOMAIN result
    /\ \A node \in DOMAIN result :
          /\ node \in Seq(Nat)
          /\ result[node] \in Node
          /\ result[node].kind # "list" => result[node].items = 0
          /\ result[node].kind = "dict" => Entry(node) \in DOMAIN result
          /\ \A step \in Steps(result, node) : Append(node, step) \in DOMAIN result
          /\ \A n \in 1..Len(node) :
                /\ SubSeq(node, 1, n - 1) \in DOMAIN result
                /\ node[n] \in Steps(result, SubSeq(node, 1, n - 1))

ASSUME ExpandConfig ==
    /\ Pattern \subseteq Seq({"field", "list"})
    /\ \A r \in Result : IsResult(r)
    /\ MaxFields \in Nat

VARIABLES
    result,   \* what the tool returned
    fields,   \* patterns still to expand, in order
    done,     \* history: patterns expanded
    produced  \* paths of the values minted, in order

vars == <<result, fields, done, produced>>

(***************************************************************************)
(* _expand: the paths a pattern finds.  The code puts a path together on   *)
(* its way back; here it is that of the value found.                       *)
(***************************************************************************)
\* MUTANT an item is expanded only as far as its first value.
FirstItemOnly(lists) == IF lists = <<>> THEN <<>> ELSE Head(lists)

AllItems(lists) == FlattenSeq(lists)

\* The loop over a field's values returns in its first iteration.
FirstOne(paths) == IF paths = <<>> THEN <<>> ELSE <<Head(paths)>>

\* At the end of the path only a scalar is a value.
Value(node) == IF result[node].kind = "scalar" THEN <<node>> ELSE <<>>

\* What a node gives for a segment, by what the nodes below it give for the rest.
Segment(node, segment, rest) ==
    IF result[node].kind # "dict" THEN <<>>
    ELSE IF segment = "field" THEN FirstOne(rest[Entry(node)])
    ELSE IF result[Entry(node)].kind # "list" THEN <<>>
    ELSE AllItems([i \in 1..result[Entry(node)].items |-> rest[Append(node, i)]])

\* found[k] is what the last k segments of the pattern find below each node.
Expand(pattern) ==
    LET found[k \in 0..Len(pattern)] ==
            IF k = 0 THEN [node \in DOMAIN result |-> Value(node)]
            ELSE LET rest == found[k - 1]
                 IN [node \in DOMAIN result |->
                        Segment(node, pattern[Len(pattern) - k + 1], rest)]
    IN  found[Len(pattern)][<<>>]

(***************************************************************************)
(* _mint_untrusted_fields                                                  *)
(***************************************************************************)
Mint ==
    /\ fields # <<>>
    /\ produced' = produced \o Expand(Head(fields))
    /\ done' = done \cup {Head(fields)}
    /\ fields' = Tail(fields)
    /\ UNCHANGED result

Init ==
    /\ result \in Result
    /\ fields \in BoundedSeq(Pattern, MaxFields)
    /\ done = {}
    /\ produced = <<>>

Next == Mint

Spec == Init /\ [][Next]_vars

-----------------------------------------------------------------------------
(***************************************************************************)
(* Properties                                                              *)
(***************************************************************************)
Fits(path, pattern) ==
    /\ Len(path) = Len(pattern)
    /\ \A i \in DOMAIN path : pattern[i] = IF path[i] = 0 THEN "field" ELSE "list"

\* The scalars of the result that one of the patterns names.
Present(patterns) ==
    {node \in DOMAIN result :
        /\ result[node].kind = "scalar"
        /\ \E pattern \in patterns : Fits(node, pattern)}

\* No list lies under a plain field: what "transactions[].description" is, and
\* "account.transactions[].description" is not.
Flat(pattern) ==
    \A i, j \in DOMAIN pattern : i < j /\ pattern[j] = "list" => pattern[i] = "list"

\* What is minted is in the result at a path one of the patterns names, nothing
\* of another shape or type; a pattern that names any value finds one, and a
\* pattern without a list under a plain field finds every value it names, in
\* every item of every list (trace.py:249-268).
FlatIsExact ==
    /\ ToSet(produced) \subseteq Present(done)
    /\ \A pattern \in done :
          /\ Present({pattern}) # {} => Present({pattern}) \cap ToSet(produced) # {}
          /\ Flat(pattern) => Present({pattern}) \subseteq ToSet(produced)

\* "Expand ... into the concrete (path, value) pairs actually present"
\* (trace.py:250-251), for every pattern.  The code returns the first value
\* below a plain field and drops the others.
ExpandIsComplete == Present(done) \subseteq ToSet(produced)
=============================================================================
