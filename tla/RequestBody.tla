------------------------------ MODULE RequestBody ------------------------------
(***************************************************************************)
(* The body of a request as read_request_body sees it: form fields named in the     *)
(* notation of PHP (products[0][product_id]=5) become lists and dictionaries within  *)
(* each other, one field at a time, in the order the sender chose.                *)
(*                                                                         *)
(* A field is its path of segments with its value; a body under construction is a    *)
(* function from paths to nodes, the empty path being the dictionary itself.        *)
(* Left out: a name given twice, indices with leading zeros, the decoding of         *)
(* characters.                                                              *)
(***************************************************************************)
EXTENDS Integers, Sequences

CONSTANTS
    Segments,      \* the parts of field names
    Index,         \* the number that a segment of digits is
    Values

ASSUME BodyAssumption ==
    /\ DOMAIN Index \subseteq Segments
    /\ Index \in [DOMAIN Index -> Nat]
    /\ \A d, e \in DOMAIN Index : Index[d] = Index[e] => d = e

Digits == DOMAIN Index
Paths == Seq(Segments)
Fields == [path : Paths \ {<<>>}, value : Values]

Node(kind) == [kind |-> kind]
Leaf(v) == [kind |-> "value", value |-> v]
Nodes == {Node(kind) : kind \in {"list", "dict", "null"}} \cup {Leaf(v) : v \in Values}

Prefix(p, i) == SubSeq(p, 1, i)

(* The node n lies on the way to p, and is not p.                                 *)
Leads(n, p) == Len(n) < Len(p) /\ \A j \in 1..Len(n) : n[j] = p[j]

(* What the code makes of the first i segments of p when they are new.              *)
KindAt(p, i) ==
    IF i = Len(p) THEN "null" ELSE IF p[i + 1] \in Digits THEN "list" ELSE "dict"

(* A node takes a child of this name; otherwise the code raises.                   *)
Fits(node, segment) ==
    \/ node.kind = "dict"
    \/ node.kind = "list" /\ segment \in Digits

Conflict(tree, p) ==
    \E i \in 0..Len(p) - 1 :
        Prefix(p, i) \in DOMAIN tree /\ ~Fits(tree[Prefix(p, i)], p[i + 1])

(* What the node of the first i - 1 segments is, there or about to be made.         *)
KindBefore(tree, p, i) ==
    IF Prefix(p, i - 1) \in DOMAIN tree THEN tree[Prefix(p, i - 1)].kind
                                        ELSE KindAt(p, i - 1)

(* The children made at the i-th segment: a list is filled up to the index.          *)
Made(tree, p, i) ==
    IF KindBefore(tree, p, i) = "list" /\ p[i] \in Digits
    THEN {Append(Prefix(p, i - 1), s) : s \in {d \in Digits : Index[d] <= Index[p[i]]}}
    ELSE {Append(Prefix(p, i - 1), p[i])}

(* Slip: what is filled in is nothing, where something goes in later.               *)
FilledWithNothing(p, i) == "null"

(* Slip: they are blank values, not nothing.                                     *)
FilledBlank(p, i) == IF i = Len(p) THEN "value" ELSE KindAt(p, i)

(* What the other elements are filled with.                                      *)
Filling(p, i) == KindAt(p, i)

(* The body with one field more; what it overwrites goes with all it holds.         *)
Grown(tree, field) ==
    LET p == field.path
        made == UNION {Made(tree, p, i) : i \in 1..Len(p)}
    IN  [n \in {m \in DOMAIN tree : ~Leads(p, m)} \cup made |->
            IF n = p THEN Leaf(field.value)
            ELSE IF n \in DOMAIN tree THEN tree[n]
            ELSE IF Leads(n, p) THEN Node(KindAt(p, Len(n)))
            ELSE Node(Filling(p, Len(n)))]

Empty == [n \in {<<>>} |-> Node("dict")]

(* A body that means one thing: no field lies within another, the children of a node   *)
(* are all numbered or all named, and the elements of a list are of one kind.        *)
Agree(p, q) ==
    /\ ~Leads(p, q)
    /\ \A i \in 1..Len(p) :
           i <= Len(q) /\ (\A j \in 1..(i - 1) : p[j] = q[j]) =>
               /\ i > 1 => (p[i] \in Digits <=> q[i] \in Digits)
               /\ i > 1 /\ p[i] \in Digits => KindAt(p, i) = KindAt(q, i)

Consistent(fields) ==
    \A f, g \in fields :
        /\ Agree(f.path, g.path)
        /\ f.path = g.path => f = g

NoNameTwice(fields) == \A f, g \in fields : f.path = g.path => f = g

(* Every field is where its name says.                                          *)
Holds(tree, fields) ==
    \A f \in fields : f.path \in DOMAIN tree /\ tree[f.path] = Leaf(f.value)
=============================================================================
