--------------------------- MODULE MCTraceExpand ---------------------------
(***************************************************************************)
(* Instances of TraceExpand for TLC: every pattern of up to three segments,*)
(* and the one shape that loses values.                                    *)
(***************************************************************************)
EXTENDS TraceExpand

CONSTANTS
    Depth,     \* bound: levels of a result below its dicts
    MaxItems   \* bound: items of a list

Leaf(kind) == [node \in {<<>>} |-> [kind |-> kind, items |-> 0]]

\* A dict whose entry is the list of some trees.
DictOfList(trees) ==
    LET under(i) == {<<i>> \o node : node \in DOMAIN trees[i]}
    IN [node \in {<<>>, <<0>>} \cup UNION {under(i) : i \in DOMAIN trees} |->
           IF node = <<>> THEN [kind |-> "dict", items |-> 0]
           ELSE IF node = <<0>> THEN [kind |-> "list", items |-> Len(trees)]
           ELSE trees[Head(node)][Tail(node)]]

\* A dict whose entry is a tree.
DictOf(tree) ==
    [node \in {<<>>} \cup {<<0>> \o n : n \in DOMAIN tree} |->
        IF node = <<>> THEN [kind |-> "dict", items |-> 0] ELSE tree[Tail(node)]]

RECURSIVE Tree(_)
Tree(n) ==
    {Leaf("scalar"), Leaf("null")} \cup
    IF n = 0 THEN {}
    ELSE {Leaf("empty")} \cup {DictOf(t) : t \in Tree(n - 1)}
         \cup {DictOfList(s) : s \in BoundedSeq(Tree(n - 1), MaxItems)}

\* A tool's answer: a dict, whose entry may be one more dict.
MCResult ==
    Tree(Depth) \cup {DictOf(t) : t \in Tree(Depth)}
    \cup {DictOf(DictOf(t)) : t \in Tree(Depth)}

ShortPatterns == UNION {[1..n -> {"field", "list"}] : n \in 1..3}
NestedPattern == {<<"field", "list">>}
=============================================================================
