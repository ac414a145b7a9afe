----------------------------- MODULE IntakeProofs ------------------------------
(***************************************************************************)
(* A body without contradictions is read in any order, and a body that cannot be    *)
(* read is none at all, for any names, any fields and any way of sending them.  What  *)
(* items it names is worked out in two ways, to the same end.                     *)
(***************************************************************************)
EXTENDS Intake, SequenceTheorems, FiniteSetTheorems, TLAPS

-----------------------------------------------------------------------------
(* Paths *)

LEMMA PrefixType ==
    ASSUME NEW p \in Paths, NEW i \in 0..Len(p)
    PROVE  /\ Prefix(p, i) \in Paths /\ Len(Prefix(p, i)) = i
           /\ \A j \in 1..i : Prefix(p, i)[j] = p[j]
<1>1. \A j \in 1..i : p[j] \in Segments BY DEF Paths
<1>2. 1 \in Int /\ i \in Int /\ i - 1 + 1 = i BY DEF Paths
<1>3. /\ SubSeq(p, 1, i) \in Seq(Segments)
      /\ Len(SubSeq(p, 1, i)) = IF 1 <= i THEN i - 1 + 1 ELSE 0
      /\ \A j \in 1..(i - 1 + 1) : SubSeq(p, 1, i)[j] = p[1 + j - 1]
  BY <1>1, <1>2, SubSeqProperties
<1> QED BY <1>2, <1>3 DEF Prefix, Paths

(* Two paths of the same segments are the same.                                    *)
LEMMA SamePath ==
    ASSUME NEW p \in Paths, NEW q \in Paths, Len(p) = Len(q), \A j \in 1..Len(p) : p[j] = q[j]
    PROVE  p = q
BY SeqEqual DEF Paths

LEMMA WholePrefix ==
    ASSUME NEW p \in Paths
    PROVE  Prefix(p, Len(p)) = p /\ Prefix(p, 0) = <<>>
<1>1. Len(p) \in 0..Len(p) /\ 0 \in 0..Len(p) BY DEF Paths
<1>2. Prefix(p, Len(p)) = p
  BY <1>1, PrefixType, SamePath
<1>3. Prefix(p, 0) = <<>>
  <2>1. <<>> \in Paths /\ Len(<<>>) = 0 BY DEF Paths
  <2> QED BY <1>1, <2>1, PrefixType, SamePath
<1> QED BY <1>2, <1>3

(* What leads to a path is a prefix of it.                                         *)
LEMMA LeadingPrefix ==
    ASSUME NEW n \in Paths, NEW p \in Paths, Leads(n, p)
    PROVE  n = Prefix(p, Len(n)) /\ Len(n) \in 0..Len(p) - 1
<1>1. Len(n) \in 0..Len(p) /\ Len(n) \in 0..Len(p) - 1 BY DEF Leads, Paths
<1> QED BY <1>1, PrefixType, SamePath DEF Leads

(* A path that agrees with p in all but its last segment.                          *)
LEMMA SiblingType ==
    ASSUME NEW p \in Paths, NEW i \in 1..Len(p), NEW s \in Segments
    PROVE  LET n == Append(Prefix(p, i - 1), s)
           IN  /\ n \in Paths /\ n # <<>> /\ Len(n) = i /\ n[i] = s
               /\ \A j \in 1..(i - 1) : n[j] = p[j]
<1> DEFINE q == Prefix(p, i - 1)
<1>1. i - 1 \in 0..Len(p) /\ i \in Nat BY DEF Paths
<1>2. q \in Paths /\ Len(q) = i - 1 /\ \A j \in 1..(i - 1) : q[j] = p[j]
  BY <1>1, PrefixType
<1> HIDE DEF q
<1>3. /\ Append(q, s) \in Seq(Segments) /\ Len(Append(q, s)) = Len(q) + 1
      /\ \A j \in 1..Len(q) : Append(q, s)[j] = q[j]
      /\ Append(q, s)[Len(q) + 1] = s
  BY <1>2, AppendProperties DEF Paths
<1>4. Append(q, s) # <<>> BY <1>2
<1> QED BY <1>1, <1>2, <1>3, <1>4 DEF q, Paths

-----------------------------------------------------------------------------
(* Nodes *)

(* The node n lies on the way to p, or is an element before it in a list.              *)
Near(n, p) ==
    /\ Len(n) \in 1..Len(p)
    /\ \A j \in 1..(Len(n) - 1) : n[j] = p[j]
    /\ \/ n[Len(n)] = p[Len(n)]
       \/ /\ Len(n) > 1 /\ n[Len(n)] \in Digits /\ p[Len(n)] \in Digits
          /\ Index[n[Len(n)]] <= Index[p[Len(n)]]

(* It can hold what p has next.                                                *)
Ready(body, n, p) ==
    Len(n) < Len(p) => body[n].kind \in {"dict", KindAt(p, Len(n))}

(* The body is a dictionary, and every node in it is there for a field that is sent.   *)
Rooted(body) == <<>> \in DOMAIN body /\ body[<<>>].kind = "dict"
Shaped(body, fields) ==
    \A n \in DOMAIN body \ {<<>>} : \E f \in fields : Near(n, f.path) /\ Ready(body, n, f.path)

LEMMA FieldType ==
    ASSUME NEW f \in Fields
    PROVE  f.path \in Paths /\ f.path # <<>> /\ Len(f.path) \in Nat \ {0} /\ f.value \in Values
BY DEF Fields, Paths

(* Fields without contradiction: none lies in the way of another.                     *)
LEMMA NoneLeads ==
    ASSUME NEW fields \in SUBSET Fields, Consistent(fields), NEW f \in fields, NEW g \in fields
    PROVE  ~Leads(f.path, g.path)
BY DEF Consistent, Agree

(* In a body of consistent fields there is nothing in the way of any of them.           *)
LEMMA NothingInTheWay ==
    ASSUME NEW fields \in SUBSET Fields, Consistent(fields), NEW body, DOMAIN body \subseteq Paths,
           Rooted(body), Shaped(body, fields), NEW g \in fields
    PROVE  ~Conflict(body, g.path)
<1> DEFINE q == g.path
<1>1. q \in Paths /\ Len(q) \in Nat \ {0} BY FieldType
<1> SUFFICES ASSUME NEW i \in 0..Len(q) - 1, Prefix(q, i) \in DOMAIN body
             PROVE  Fits(body[Prefix(q, i)], q[i + 1])
  BY DEF Conflict
<1> DEFINE n == Prefix(q, i)
<1>2. i \in 0..Len(q) /\ i \in Nat BY <1>1
<1>3. n \in Paths /\ Len(n) = i /\ \A j \in 1..i : n[j] = q[j] BY <1>1, <1>2, PrefixType
<1> HIDE DEF q
<1>4. CASE i = 0
  <2>1. n = <<>> BY <1>1, <1>4, WholePrefix
  <2> QED BY <2>1 DEF Rooted, Fits
<1>5. CASE i # 0
  <2>1. n # <<>> BY <1>3, <1>5
  <2> HIDE DEF n
  <2>2. PICK f \in fields : Near(n, f.path) /\ Ready(body, n, f.path) BY <2>1 DEF Shaped, n
  <2> DEFINE p == f.path
  <2>3. p \in Paths /\ Len(p) \in Nat \ {0} BY FieldType
  <2>4. i \in 1..Len(p) /\ i \in 1..Len(q) /\ i < Len(q) BY <1>1, <1>3, <2>2 DEF Near
  <2>5. Agree(p, q) BY DEF Consistent, q
  <2> HIDE DEF p
  <2>6. \A j \in 1..(i - 1) : p[j] = q[j]
    BY <1>3, <2>2 DEF Near, p
  <2>7. KindAt(q, i) = IF q[i + 1] \in Digits THEN "list" ELSE "dict" BY <2>4 DEF KindAt
  <2>8. CASE n[i] = p[i]
    <3>1. \A j \in 1..i : p[j] = q[j] BY <1>3, <2>4, <2>6, <2>8
    <3>2. i < Len(p)
      <4>1. CASE i = Len(p) BY <1>2, <2>4, <2>5, <3>1, <4>1 DEF Agree, Leads
      <4> QED BY <2>3, <2>4, <4>1
    <3>3. i + 1 \in 1..Len(p) /\ i + 1 <= Len(q) /\ i + 1 > 1 /\ i + 1 - 1 = i
      BY <1>1, <2>3, <2>4, <3>2
    <3>4. p[i + 1] \in Digits <=> q[i + 1] \in Digits BY <2>5, <3>1, <3>3 DEF Agree
    <3>5. KindAt(p, i) = KindAt(q, i) BY <2>7, <3>2, <3>4 DEF KindAt
    <3> QED BY <1>3, <2>2, <2>7, <3>2, <3>5 DEF Ready, Fits, n, p
  <2>9. CASE n[i] # p[i]
    <3>1. i > 1 /\ n[i] \in Digits /\ p[i] \in Digits BY <1>3, <2>2, <2>9 DEF Near, p
    <3>2. KindAt(p, i) = KindAt(q, i) BY <2>4, <2>5, <2>6, <3>1 DEF Agree
    <3>3. i < Len(p)
      <4>1. CASE i = Len(p) BY <2>7, <3>2, <4>1 DEF KindAt
      <4> QED BY <2>3, <2>4, <4>1
    <3> QED BY <1>3, <2>2, <2>7, <3>2, <3>3 DEF Ready, Fits, n, p
  <2> QED BY <2>8, <2>9
<1> QED BY <1>4, <1>5

LEMMA NodeType ==
    ASSUME NEW p, NEW i
    PROVE  KindAt(p, i) \in {"null", "list", "dict"} /\ Node(KindAt(p, i)) \in Nodes
<1>1. KindAt(p, i) \in {"null", "list", "dict"} BY DEF KindAt
<1> QED BY <1>1 DEF Nodes

-----------------------------------------------------------------------------
(* A field is read *)

(* What is made for a field lies on its way, or beside it.                            *)
LEMMA MadeNearby ==
    ASSUME NEW body, Rooted(body), NEW p \in Paths, NEW i \in 1..Len(p), NEW n \in Made(body, p, i)
    PROVE  n \in Paths /\ n # <<>> /\ Near(n, p) /\ Len(n) = i
<1>1. p[i] \in Segments /\ Digits \subseteq Segments
  BY BodyAssumption DEF Paths, Digits
<1>2. CASE n = Append(Prefix(p, i - 1), p[i])
  <2>1. /\ n \in Paths /\ n # <<>> /\ Len(n) = i /\ n[i] = p[i]
        /\ \A j \in 1..(i - 1) : n[j] = p[j]
    BY <1>1, <1>2, SiblingType
  <2> QED BY <2>1 DEF Near
<1>3. ASSUME NEW s \in Digits, n = Append(Prefix(p, i - 1), s), p[i] \in Digits,
             Index[s] <= Index[p[i]], KindBefore(body, p, i) = "list"
      PROVE  n \in Paths /\ n # <<>> /\ Near(n, p) /\ Len(n) = i
  <2>1. /\ n \in Paths /\ n # <<>> /\ Len(n) = i /\ n[i] = s
        /\ \A j \in 1..(i - 1) : n[j] = p[j]
    BY <1>1, <1>3, SiblingType
  <2>2. i > 1
    <3>1. CASE i = 1
      <4>1. Prefix(p, i - 1) = <<>> BY <3>1, WholePrefix
      <4> QED BY <1>3, <4>1 DEF KindBefore, Rooted
    <3> QED BY <3>1
  <2> QED BY <1>3, <2>1, <2>2 DEF Near
<1> QED BY <1>2, <1>3 DEF Made

(* Among it is the way to the field.                                             *)
LEMMA WayMade ==
    ASSUME NEW body, NEW p \in Paths, NEW i \in 1..Len(p)
    PROVE  Prefix(p, i) \in Made(body, p, i)
<1>1. p \in Paths /\ i \in Nat \ {0} /\ p[i] \in Segments BY DEF Paths
<1>2. Append(Prefix(p, i - 1), p[i]) = Prefix(p, i)
  <2> DEFINE n == Append(Prefix(p, i - 1), p[i])
  <2>1. n \in Paths /\ Len(n) = i /\ n[i] = p[i] /\ \A j \in 1..(i - 1) : n[j] = p[j]
    BY <1>1, SiblingType
  <2>2. /\ Prefix(p, i) \in Paths /\ Len(Prefix(p, i)) = i
        /\ \A j \in 1..i : Prefix(p, i)[j] = p[j]
    <3>1. i \in 0..Len(p) BY <1>1
    <3> QED BY <3>1, PrefixType
  <2> HIDE DEF n
  <2>3. \A j \in 1..Len(n) : n[j] = Prefix(p, i)[j] BY <1>1, <2>1, <2>2
  <2> QED BY <2>1, <2>2, <2>3, SamePath DEF n
<1>3. CASE KindBefore(body, p, i) = "list" /\ p[i] \in Digits
  <2>1. Index[p[i]] <= Index[p[i]] BY <1>3, BodyAssumption DEF Digits
  <2>2. p[i] \in {d \in Digits : Index[d] <= Index[p[i]]} BY <1>3, <2>1
  <2>3. Made(body, p, i) =
          {Append(Prefix(p, i - 1), d) : d \in {d \in Digits : Index[d] <= Index[p[i]]}}
    BY <1>3 DEF Made
  <2> QED BY <1>1, <1>2, <2>2, <2>3
<1>4. CASE ~(KindBefore(body, p, i) = "list" /\ p[i] \in Digits)
  BY <1>1, <1>2, <1>4 DEF Made
<1> QED BY <1>3, <1>4

LEMMA GrownNodes ==
    ASSUME NEW body, DOMAIN body \subseteq Paths, Rooted(body), NEW f \in Fields
    PROVE  /\ \A n \in DOMAIN Grown(body, f) :
                  /\ n \in DOMAIN body \/ (n \in Paths /\ n # <<>> /\ Near(n, f.path))
                  /\ n = f.path => Grown(body, f)[n] = Leaf(f.value)
                  /\ n # f.path /\ n \in DOMAIN body => Grown(body, f)[n] = body[n]
                  /\ n # f.path /\ n \notin DOMAIN body =>
                       Grown(body, f)[n] = Node(KindAt(f.path, Len(n)))
           /\ \A i \in 1..Len(f.path) : Prefix(f.path, i) \in DOMAIN Grown(body, f)
           /\ f.path \in DOMAIN Grown(body, f)
           /\ \A n \in DOMAIN body : ~Leads(f.path, n) => n \in DOMAIN Grown(body, f)
<1> DEFINE p == f.path
           made == UNION {Made(body, p, i) : i \in 1..Len(p)}
<1>1. p \in Paths /\ p # <<>> BY FieldType
<1>2. DOMAIN Grown(body, f) = {m \in DOMAIN body : ~Leads(p, m)} \cup made BY DEF Grown
<1>3. \A n \in made : n \in Paths /\ n # <<>> /\ Near(n, p) BY <1>1, MadeNearby
<1>4. (\A i \in 1..Len(p) : Prefix(p, i) \in made) /\ p \in made
  <2>1. \A i \in 1..Len(p) : Prefix(p, i) \in made BY <1>1, WayMade
  <2>2. Len(p) \in 1..Len(p) /\ Prefix(p, Len(p)) = p BY <1>1, FieldType, WholePrefix
  <2> QED BY <2>1, <2>2
<1>5. \A n \in DOMAIN Grown(body, f) :
        Grown(body, f)[n] = IF n = p THEN Leaf(f.value)
                            ELSE IF n \in DOMAIN body THEN body[n]
                            ELSE IF Leads(n, p) THEN Node(KindAt(p, Len(n)))
                            ELSE Node(Filling(p, Len(n)))
  BY DEF Grown
<1>6. Filling(p, 0) = KindAt(p, 0) /\ \A i : Filling(p, i) = KindAt(p, i) BY DEF Filling
<1> HIDE DEF p, made
<1>7. ASSUME NEW n \in DOMAIN Grown(body, f)
      PROVE  /\ n \in DOMAIN body \/ (n \in Paths /\ n # <<>> /\ Near(n, p))
             /\ n = p => Grown(body, f)[n] = Leaf(f.value)
             /\ n # p /\ n \in DOMAIN body => Grown(body, f)[n] = body[n]
             /\ n # p /\ n \notin DOMAIN body => Grown(body, f)[n] = Node(KindAt(p, Len(n)))
  BY <1>2, <1>3, <1>5, <1>6
<1> QED BY <1>2, <1>4, <1>7 DEF p

LEMMA GrownType ==
    ASSUME NEW body, DOMAIN body \subseteq Paths, \A n \in DOMAIN body : body[n] \in Nodes,
           Rooted(body), NEW f \in Fields
    PROVE  /\ DOMAIN Grown(body, f) \subseteq Paths
           /\ \A n \in DOMAIN Grown(body, f) : Grown(body, f)[n] \in Nodes
           /\ Rooted(Grown(body, f))
<1>1. f.path \in Paths /\ f.path # <<>> /\ Leaf(f.value) \in Nodes
  BY FieldType DEF Nodes
<1>2. DOMAIN Grown(body, f) \subseteq Paths BY GrownNodes
<1>3. ASSUME NEW n \in DOMAIN Grown(body, f) PROVE Grown(body, f)[n] \in Nodes
  BY <1>1, GrownNodes, NodeType
<1>4. Rooted(Grown(body, f))
  <2>1. ~Leads(f.path, <<>>)
    BY FieldType DEF Leads
  <2>2. <<>> \in DOMAIN Grown(body, f) BY <2>1, GrownNodes DEF Rooted
  <2> QED BY <1>1, <2>2, GrownNodes DEF Rooted
<1> QED BY <1>2, <1>3, <1>4

LEMMA GrownShape ==
    ASSUME NEW body, DOMAIN body \subseteq Paths, Rooted(body), NEW f \in Fields,
           NEW fields \in SUBSET Fields, Shaped(body, fields), \E g \in fields : g.path = f.path
    PROVE  Shaped(Grown(body, f), fields)
<1> DEFINE p == f.path
           grown == Grown(body, f)
<1>1. p \in Paths /\ Len(p) \in Nat \ {0} BY FieldType
<1>2. PICK g \in fields : g.path = p OBVIOUS
<1> SUFFICES ASSUME NEW n \in DOMAIN grown, n # <<>>
             PROVE  \E h \in fields : Near(n, h.path) /\ Ready(grown, n, h.path)
  BY DEF Shaped
<1>3. /\ n \in DOMAIN body \/ (n \in Paths /\ n # <<>> /\ Near(n, p))
      /\ n # p /\ n \in DOMAIN body => grown[n] = body[n]
      /\ n # p /\ n \notin DOMAIN body => grown[n] = Node(KindAt(p, Len(n)))
  BY GrownNodes
<1> HIDE DEF grown
<1>4. CASE n = p
  <2>1. Near(n, p) /\ Ready(grown, n, p) BY <1>1, <1>4 DEF Near, Ready
  <2> QED BY <1>2, <2>1
<1>5. CASE n # p /\ n \in DOMAIN body
  <2>1. PICK h \in fields : Near(n, h.path) /\ Ready(body, n, h.path) BY <1>5 DEF Shaped
  <2>2. Ready(grown, n, h.path) BY <1>3, <1>5, <2>1 DEF Ready
  <2> QED BY <2>1, <2>2
<1>6. CASE n # p /\ n \notin DOMAIN body
  <2>1. Near(n, p) BY <1>3, <1>6
  <2>2. Ready(grown, n, p) BY <1>3, <1>6 DEF Ready, Node
  <2> QED BY <1>2, <2>1, <2>2
<1> QED BY <1>4, <1>5, <1>6

(* What was read stays where it is, unless the new field is named the same or lies      *)
(* in its way.                                                              *)
LEMMA GrownHolds ==
    ASSUME NEW body, DOMAIN body \subseteq Paths, Rooted(body), NEW f \in Fields, NEW fields,
           Holds(body, fields),
           \A g \in fields : g.path # f.path /\ ~Leads(f.path, g.path)
    PROVE  Holds(Grown(body, f), fields \cup {f})
BY GrownNodes DEF Holds

-----------------------------------------------------------------------------
(* The invariant *)

NoneWithin(fields) == \A f, g \in fields : ~Leads(f.path, g.path)

(* What is read so far is in the tree, and nothing else shapes it; what is to come      *)
(* shall be in it, or give way to a later field of its name.                        *)
BeingRead ==
    /\ later \subseteq sent
    /\ \A f \in todo : \E g \in sent : g.path = f.path /\ (g = f \/ g \in later)
    /\ Shaped(tree, sent)
    /\ NoneWithin(sent) => Holds(tree, sent \ (todo \cup later))

WasRead(fields) ==
    /\ NoneWithin(sent) => Holds(tree, fields) \/ tree = Empty
    /\ Consistent(sent) => Holds(tree, fields)

IntakeInv ==
    /\ TypeOK /\ NoNameTwice(sent) /\ Rooted(tree)
    /\ at = "waiting" => tree = Empty /\ sent = {} /\ todo = {} /\ later = {}
    /\ at = "reading" => BeingRead
    /\ at \in {"read", "merged"} => WasRead(sent)
    /\ at = "handled" => WasRead(Open(sent))

LEMMA EmptyBody ==
    /\ DOMAIN Empty \subseteq Paths /\ \A n \in DOMAIN Empty : Empty[n] \in Nodes
    /\ Rooted(Empty) /\ DOMAIN Empty = {<<>>}
    /\ \A fields : Shaped(Empty, fields)
<1>1. <<>> \in Paths /\ Node("dict") \in Nodes /\ Node("dict").kind = "dict"
  BY DEF Paths, Nodes, Node
<1>2. DOMAIN Empty = {<<>>} /\ Empty[<<>>] = Node("dict") BY DEF Empty
<1> QED BY <1>1, <1>2 DEF Rooted, Shaped

(* A request is taken apart into what is read first and what is read later, and means    *)
(* what is read last of each name.                                              *)
LEMMA InsideFields ==
    ASSUME NEW fields \in Requests
    PROVE  /\ fields \subseteq Fields /\ NoNameTwice(fields) /\ IsFiniteSet(fields)
           /\ Inside(fields) \subseteq Fields /\ NoNameTwice(Inside(fields))
           /\ IsFiniteSet(Inside(fields))
<1> DEFINE packs == fields \ Plain(fields)
<1>1. fields \subseteq Fields /\ NoNameTwice(fields) /\ IsFiniteSet(fields)
  BY IntakeAssumption DEF Flat
<1>2. \A f \in packs : f.path = Top("products") /\ f.value \in DOMAIN Expanded
  BY DEF Plain, Packed
<1>3. \A f \in packs : /\ Expanded[f.value] \subseteq Fields
                        /\ NoNameTwice(Expanded[f.value]) /\ IsFiniteSet(Expanded[f.value])
  BY <1>2, IntakeAssumption DEF Flat
<1>4. \A f, g \in packs : f = g BY <1>1, <1>2 DEF NoNameTwice
<1>5. Inside(fields) = UNION {Expanded[f.value] : f \in packs} BY DEF Inside
<1> HIDE DEF packs
<1>6. CASE packs = {}
  <2>1. Inside(fields) = {} BY <1>5, <1>6
  <2> QED BY <1>1, <2>1, FS_EmptySet DEF NoNameTwice
<1>7. ASSUME NEW f \in packs
      PROVE  /\ Inside(fields) \subseteq Fields /\ NoNameTwice(Inside(fields))
             /\ IsFiniteSet(Inside(fields))
  <2>1. Inside(fields) = Expanded[f.value] BY <1>4, <1>5
  <2> QED BY <1>3, <2>1
<1> QED BY <1>1, <1>6, <1>7

LEMMA KeyOfPath ==
    ASSUME NEW f \in Fields, NEW g \in Fields, NEW form, f.path = g.path
    PROVE  /\ Key(f, form) = Key(g, form)
           /\ \A h \in Fields : f.path = Key(h, form) => f.path = Key(f, form)
BY FieldType DEF Key, Top, Paths

LEMMA Unpacked ==
    ASSUME NEW fields \in Requests, NEW form, Unpack(fields, form)
    PROVE  /\ fields \subseteq Fields /\ NoNameTwice(fields)
           /\ Early(fields, form) \subseteq Fields
           /\ IsFiniteSet(Early(fields, form) \cup later')
           /\ sent' \subseteq Fields /\ later' \subseteq sent' /\ NoNameTwice(sent')
           /\ sent' \subseteq Early(fields, form) \cup later'
           /\ \A f \in Early(fields, form) :
                  \E g \in sent' : g.path = f.path /\ (g = f \/ g \in later')
<1> DEFINE plain == Plain(fields)
           inside == Inside(fields)
           early == Early(fields, form)
<1>1. /\ fields \subseteq Fields /\ NoNameTwice(fields) /\ IsFiniteSet(fields)
      /\ inside \subseteq Fields /\ NoNameTwice(inside) /\ IsFiniteSet(inside)
  BY InsideFields
<1>2. plain \subseteq fields BY DEF Plain
<1>3. early = {f \in plain : \A g \in inside : g.path # Key(f, form)}
                 \cup {g \in inside : \E f \in plain : g.path = Key(f, form)}
  BY DEF Early
<1>4. /\ later' = inside \ early
      /\ sent' = {f \in early : \A g \in later' : g.path # f.path} \cup later'
  BY DEF Unpack
<1> HIDE DEF plain, inside, early
<1>5. early \subseteq fields \cup inside BY <1>2, <1>3
<1>6. NoNameTwice(early)
  <2> SUFFICES ASSUME NEW f \in early, NEW g \in early, f.path = g.path, f \in plain, g \in inside
               PROVE  f = g
    BY <1>1, <1>2, <1>3 DEF NoNameTwice
  <2>1. CASE f \in inside BY <1>1, <2>1 DEF NoNameTwice
  <2>2. CASE \A h \in inside : h.path # Key(f, form)
    <3>1. CASE \A h \in inside : h.path # Key(g, form)
      <4>1. g.path # Key(g, form) BY <3>1
      <4>2. g \in plain \/ \E h \in plain : g.path = Key(h, form) BY <1>3
      <4>3. CASE g \in plain BY <1>1, <1>2, <4>3 DEF NoNameTwice
      <4>4. ASSUME NEW h \in plain, g.path = Key(h, form) PROVE FALSE
        <5>1. h \in Fields /\ g \in Fields BY <1>1, <1>2
        <5> QED BY <4>1, <4>4, <5>1, KeyOfPath
      <4> QED BY <4>2, <4>3, <4>4
    <3>2. CASE \E h \in inside : h.path = Key(g, form)
      <4>1. f \in Fields /\ g \in Fields BY <1>1, <1>2, <1>5
      <4>2. Key(f, form) = Key(g, form) BY <4>1, KeyOfPath
      <4> QED BY <2>2, <3>2, <4>2
    <3> QED BY <3>1, <3>2
  <2> QED BY <1>3, <2>1, <2>2
<1>7. sent' \subseteq Fields /\ later' \subseteq sent' /\ sent' \subseteq early \cup later'
  BY <1>1, <1>4, <1>5
<1>8. NoNameTwice(sent') BY <1>1, <1>4, <1>6 DEF NoNameTwice
<1>9. \A f \in early : \E g \in sent' : g.path = f.path /\ (g = f \/ g \in later')
  BY <1>4
<1>10. IsFiniteSet(early \cup later')
  <2>1. IsFiniteSet(fields \cup inside) BY <1>1, FS_Union
  <2>2. early \cup later' \subseteq fields \cup inside BY <1>4, <1>5
  <2> QED BY <2>1, <2>2, FS_Subset
<1> QED BY <1>1, <1>5, <1>7, <1>8, <1>9, <1>10 DEF early

(* An entry of JSON that is replaced contradicts none of the others.                *)
LEMMA EarlyJson ==
    ASSUME NEW fields \in Requests, Consistent(fields)
    PROVE  Consistent(Early(fields, "json"))
<1> DEFINE old == {f \in Plain(fields) : \A g \in Inside(fields) : g.path # Top(f.path[1])}
           new == {g \in Inside(fields) : \E f \in Plain(fields) : g.path = Top(f.path[1])}
<1>1. Early(fields, "json") = old \cup new BY DEF Early, Key
<1>2. /\ fields \subseteq Fields /\ Inside(fields) \subseteq Fields
      /\ NoNameTwice(Inside(fields)) /\ Plain(fields) \subseteq fields
  BY InsideFields DEF Plain
<1>3. \A g \in new : Len(g.path) = 1 /\ g \in Fields BY <1>2 DEF Top
<1>4. \A f \in old, g \in new : f.path[1] # g.path[1] /\ f \in Fields
  <2> SUFFICES ASSUME NEW f \in old, NEW g \in new, f.path[1] = g.path[1] PROVE FALSE
    BY <1>2
  <2>1. PICK h \in Plain(fields) : g.path = Top(h.path[1]) OBVIOUS
  <2>2. g.path = Top(f.path[1]) BY <2>1 DEF Top
  <2> QED BY <2>2
<1>5. \A f, g \in new : f.path[1] = g.path[1] => f = g
  <2> SUFFICES ASSUME NEW f \in new, NEW g \in new, f.path[1] = g.path[1] PROVE f = g
    OBVIOUS
  <2>1. f.path = g.path BY DEF Top
  <2> QED BY <1>2, <2>1 DEF NoNameTwice
<1> HIDE DEF new
<1>6. old \subseteq fields BY <1>2
<1> HIDE DEF old
<1>7. ASSUME NEW f \in old \cup new, NEW g \in old \cup new
      PROVE  Agree(f.path, g.path) /\ (f.path = g.path => f = g)
  <2>1. f.path # <<>> /\ g.path # <<>> /\ f.path \in Paths /\ g.path \in Paths
    BY <1>2, <1>3, <1>6, FieldType
  <2>2. Len(f.path) \in Nat \ {0} /\ Len(g.path) \in Nat \ {0} BY <2>1 DEF Paths
  <2>3. CASE f \in old /\ g \in old BY <1>6, <2>3 DEF Consistent
  <2>4. CASE f.path[1] # g.path[1]
    <3>1. ~Leads(f.path, g.path) BY <2>2, <2>4 DEF Leads
    <3>2. \A i \in 1..Len(f.path) : ~(\A j \in 1..(i - 1) : f.path[j] = g.path[j]) \/ i = 1
      BY <2>2, <2>4
    <3> QED BY <2>4, <3>1, <3>2 DEF Agree
  <2>5. CASE f = g /\ Len(f.path) = 1 BY <2>2, <2>5 DEF Agree, Leads
  <2> QED BY <1>3, <1>4, <1>5, <2>3, <2>4, <2>5
<1> QED BY <1>1, <1>7 DEF Consistent

(* A body of JSON is what its fields say.                                         *)
LEMMA NestedBody ==
    ASSUME NEW fields \in SUBSET Fields, Consistent(fields), NEW keys \in BOOLEAN,
           NEW all, \A f \in fields : \E g \in all : g.path = f.path
    PROVE  LET body == Nested(fields, keys)
           IN  /\ DOMAIN body \subseteq Paths /\ \A n \in DOMAIN body : body[n] \in Nodes
               /\ Rooted(body) /\ Holds(body, fields) /\ Shaped(body, all)
<1> DEFINE body == Nested(fields, keys)
           prefixes == UNION {{Prefix(f.path, i) : i \in 1..Len(f.path)} : f \in fields}
           Below(n) == {f \in fields : Leads(n, f.path)}
<1>1. DOMAIN body = {<<>>} \cup prefixes BY DEF Nested
<1>2. \A n \in DOMAIN body :
        body[n] = IF n # <<>> /\ Below(n) = {} THEN Leaf((CHOOSE f \in fields : f.path = n).value)
                  ELSE IF n # <<>> /\ ~keys /\ \A f \in Below(n) : f.path[Len(n) + 1] \in Digits
                  THEN Node("list") ELSE Node("dict")
  BY DEF Nested
<1>3. <<>> \in Paths /\ Len(<<>>) = 0 BY DEF Paths
<1>4. {Node("list"), Node("dict")} \subseteq Nodes
      /\ Node("list").kind = "list" /\ Node("dict").kind = "dict"
  BY DEF Nodes, Node
<1> HIDE DEF body, Below
(* A node is on the way of a field, and a leaf where the field is.                    *)
<1>5. ASSUME NEW n \in prefixes
      PROVE  /\ n \in Paths /\ n # <<>>
             /\ \E f \in fields : Len(n) \in 1..Len(f.path) /\ n = Prefix(f.path, Len(n))
                                  /\ \A j \in 1..Len(n) : n[j] = f.path[j]
  <2> PICK f \in fields : n \in {Prefix(f.path, i) : i \in 1..Len(f.path)} OBVIOUS
  <2>1. PICK i \in 1..Len(f.path) : n = Prefix(f.path, i) OBVIOUS
  <2>2. f.path \in Paths /\ i \in 0..Len(f.path) /\ i # 0 BY <2>1, FieldType
  <2>3. n \in Paths /\ Len(n) = i /\ \A j \in 1..i : n[j] = f.path[j]
    BY <2>1, <2>2, PrefixType
  <2> QED BY <1>3, <2>1, <2>2, <2>3
<1> HIDE DEF prefixes
<1>6. ASSUME NEW n \in prefixes, Below(n) = {}
      PROVE  \E f \in fields : f.path = n /\ body[n] = Leaf(f.value)
  <2>1. PICK f \in fields : Len(n) \in 1..Len(f.path) /\ n = Prefix(f.path, Len(n))
                            /\ \A j \in 1..Len(n) : n[j] = f.path[j]
    BY <1>5
  <2>2. ~Leads(n, f.path) BY <1>6 DEF Below
  <2>3. Len(n) = Len(f.path) BY <2>1, <2>2, FieldType DEF Leads
  <2>4. f.path = n BY <2>1, <2>3, FieldType, WholePrefix
  <2>5. (CHOOSE g \in fields : g.path = n) \in fields
        /\ (CHOOSE g \in fields : g.path = n).path = n
    BY <2>4
  <2>6. (CHOOSE g \in fields : g.path = n) = f BY <2>4, <2>5 DEF Consistent
  <2>7. body[n] = Leaf(f.value) BY <1>1, <1>2, <1>5, <1>6, <2>6
  <2> QED BY <2>4, <2>7
<1>7. ASSUME NEW n \in prefixes, Below(n) # {}
      PROVE  \E f \in fields : /\ Near(n, f.path) /\ Ready(body, n, f.path)
                               /\ body[n] \in {Node("list"), Node("dict")}
  <2>1. PICK f \in fields : f \in Below(n) BY <1>7 DEF Below
  <2>2. Leads(n, f.path) /\ n \in Paths /\ n # <<>> BY <1>5, <2>1 DEF Below
  <2>3. Len(n) \in 1..Len(f.path) /\ Len(n) < Len(f.path)
    BY <2>2, FieldType, LeadingPrefix, <1>3 DEF Leads, Paths
  <2>4. Near(n, f.path) BY <2>2, <2>3 DEF Near, Leads
  <2>5. body[n] \in {Node("list"), Node("dict")} BY <1>1, <1>2, <1>7
  <2>6. body[n] = Node("list") => f.path[Len(n) + 1] \in Digits
    BY <1>1, <1>2, <1>4, <1>7, <2>1
  <2>7. Ready(body, n, f.path) BY <1>4, <2>3, <2>5, <2>6 DEF Ready, KindAt
  <2> QED BY <2>4, <2>5, <2>7
<1>8. DOMAIN body \subseteq Paths BY <1>1, <1>3, <1>5
<1>9. body[<<>>] \in {Node("dict")} BY <1>1, <1>2
<1>10. ASSUME NEW n \in DOMAIN body PROVE body[n] \in Nodes
  <2>1. CASE n = <<>> BY <1>4, <1>9, <2>1
  <2>2. CASE n \in prefixes /\ Below(n) = {}
    <3>1. PICK f \in fields : body[n] = Leaf(f.value) BY <1>6, <2>2
    <3> QED BY <3>1, FieldType DEF Nodes
  <2>3. CASE n \in prefixes /\ Below(n) # {} BY <1>4, <1>7, <2>3
  <2> QED BY <1>1, <2>1, <2>2, <2>3
<1>11. Rooted(body) BY <1>1, <1>4, <1>9 DEF Rooted
<1>12. ASSUME NEW f \in fields PROVE f.path \in DOMAIN body /\ body[f.path] = Leaf(f.value)
  <2>1. f.path \in Paths /\ Len(f.path) \in 1..Len(f.path) /\ f.path = Prefix(f.path, Len(f.path))
    BY FieldType, WholePrefix
  <2>2. f.path \in prefixes BY <2>1 DEF prefixes
  <2>3. Below(f.path) = {} BY NoneLeads DEF Below
  <2>4. PICK g \in fields : g.path = f.path /\ body[f.path] = Leaf(g.value)
    BY <1>6, <2>2, <2>3
  <2>5. g = f BY <2>4 DEF Consistent
  <2> QED BY <1>1, <2>2, <2>4, <2>5
<1>13. ASSUME NEW n \in DOMAIN body \ {<<>>}
       PROVE  \E g \in all : Near(n, g.path) /\ Ready(body, n, g.path)
  <2>1. n \in prefixes BY <1>1
  <2>2. CASE Below(n) = {}
    <3>1. PICK f \in fields : f.path = n BY <1>6, <2>1, <2>2
    <3>2. Near(n, n) /\ Ready(body, n, n) BY <3>1, FieldType DEF Near, Ready
    <3> QED BY <3>1, <3>2
  <2>3. CASE Below(n) # {}
    <3>1. PICK f \in fields : Near(n, f.path) /\ Ready(body, n, f.path) BY <1>7, <2>1, <2>3
    <3> QED BY <3>1
  <2> QED BY <2>2, <2>3
<1> QED BY <1>8, <1>10, <1>11, <1>12, <1>13 DEF body, Holds, Shaped

-----------------------------------------------------------------------------
(* The steps *)

LEMMA ReceiveIsOK == ASSUME IntakeInv, Receive PROVE IntakeInv'
<1>1. /\ at = "waiting" /\ tree = Empty /\ sent = {} /\ todo = {} /\ later = {}
      /\ header' \in Secrets \cup {NoValue, Redacted}
  BY DEF Receive, IntakeInv
<1>2. CASE ReceiveNothing
  <2>1. /\ at' = "read" /\ UNCHANGED <<sent, todo, later, tree>> /\ format' = "none"
    BY <1>2 DEF ReceiveNothing
  <2>2. TypeOK' BY <1>1, <2>1 DEF IntakeInv, TypeOK
  <2>3. WasRead(sent)' BY <1>1, <2>1 DEF WasRead, Holds
  <2> QED BY <2>1, <2>2, <2>3 DEF IntakeInv, NoNameTwice, Rooted
<1>3. ASSUME NEW fields \in Requests,
             ReceiveForm(fields) \/ \E keys \in BOOLEAN : ReceiveJson(fields, keys)
      PROVE  IntakeInv'
  <2>1. PICK form \in {"form", "json"} :
           /\ Unpack(fields, form)
           /\ form = "form" => ReceiveForm(fields)
           /\ form = "json" => \E keys \in BOOLEAN : ReceiveJson(fields, keys)
    BY <1>3 DEF ReceiveForm, ReceiveJson
  <2> DEFINE early == Early(fields, form)
  <2>5. at' = "reading" /\ format' \in {"form", "json"} BY <2>1 DEF Unpack
  <2>2. /\ early \subseteq Fields
        /\ sent' \subseteq Fields /\ later' \subseteq sent' /\ NoNameTwice(sent')
        /\ sent' \subseteq early \cup later'
        /\ \A f \in early : \E g \in sent' : g.path = f.path /\ (g = f \/ g \in later')
    BY <2>1, Unpacked
  <2>3. CASE form = "form"
    <3>1. todo' = early /\ tree' = Empty BY <1>1, <2>1, <2>3 DEF ReceiveForm
    <3> HIDE DEF early
    <3>2. sent' \ (todo' \cup later') = {} BY <2>2, <3>1
    <3>3. BeingRead' BY <2>2, <3>1, <3>2, EmptyBody DEF BeingRead, Holds
    <3>4. TypeOK' BY <1>1, <2>5, <2>2, <3>1, EmptyBody DEF TypeOK
    <3>5. Rooted(tree)' BY <3>1, EmptyBody
    <3>6. NoNameTwice(sent)' BY <2>2
    <3> QED BY <2>5, <3>3, <3>4, <3>5, <3>6 DEF IntakeInv
  <2>4. CASE form = "json"
    <3>0. PICK keys \in BOOLEAN : ReceiveJson(fields, keys) BY <2>1, <2>4
    <3>1. /\ Consistent(fields) /\ todo' = {} /\ tree' = Nested(early, keys)
      BY <1>1, <2>4, <3>0 DEF ReceiveJson
    <3>2. early \in SUBSET Fields /\ Consistent(early)
      BY <2>2, <2>4, <3>1, EarlyJson
    <3> HIDE DEF early
    <3>3. \A f \in early : \E g \in sent' : g.path = f.path BY <2>2
    <3>4. /\ DOMAIN tree' \subseteq Paths /\ \A n \in DOMAIN tree' : tree'[n] \in Nodes
          /\ Rooted(tree') /\ Holds(tree', early) /\ Shaped(tree', sent')
      BY <3>1, <3>2, <3>3, NestedBody
    <3>5. Holds(tree', sent' \ (todo' \cup later')) BY <2>2, <3>1, <3>4 DEF Holds
    <3>6. BeingRead' BY <2>2, <3>1, <3>4, <3>5 DEF BeingRead
    <3>7. TypeOK' BY <1>1, <2>5, <2>2, <3>1, <3>4 DEF TypeOK
    <3>8. NoNameTwice(sent)' /\ Rooted(tree)' BY <2>2, <3>4
    <3> QED BY <2>5, <3>6, <3>7, <3>8 DEF IntakeInv
  <2> QED BY <2>3, <2>4
<1> QED BY <1>2, <1>3 DEF Receive

(* What is still to be read means some field of what is sent.                        *)
LEMMA UpcomingIsSent ==
    ASSUME IntakeInv, at = "reading", NEW f \in Upcoming
    PROVE  f \in Fields /\ f \in todo \cup later /\ \E g \in sent : g.path = f.path
BY DEF IntakeInv, TypeOK, BeingRead, Upcoming

LEMMA ReadFieldIsOK == ASSUME IntakeInv, ReadField PROVE IntakeInv'
<1>1. PICK f \in Upcoming :
        /\ tree' = Grown(tree, f)
        /\ todo' = todo \ {f} /\ later' = IF todo = {} THEN later \ {f} ELSE later
  BY DEF ReadField
<1>2. at = "reading" /\ UNCHANGED <<at, format, header, sent>> BY DEF ReadField
<1>3. /\ TypeOK /\ NoNameTwice(sent) /\ Rooted(tree) /\ BeingRead
      /\ DOMAIN tree \subseteq Paths /\ \A n \in DOMAIN tree : tree[n] \in Nodes
  BY <1>2 DEF IntakeInv, TypeOK
<1>4. f \in Fields /\ f \in todo \cup later /\ \E g \in sent : g.path = f.path
  BY <1>2, UpcomingIsSent
<1>5. /\ DOMAIN tree' \subseteq Paths /\ \A n \in DOMAIN tree' : tree'[n] \in Nodes
      /\ Rooted(tree')
  BY <1>1, <1>3, <1>4, GrownType
<1>6. sent \in SUBSET Fields BY <1>3 DEF TypeOK
<1>7. Shaped(tree', sent) BY <1>1, <1>3, <1>4, <1>6, GrownShape DEF BeingRead
<1>8. TypeOK' BY <1>1, <1>2, <1>3, <1>5 DEF TypeOK
<1>9. ASSUME NoneWithin(sent) PROVE Holds(tree', sent \ (todo' \cup later'))
  <2> DEFINE read == sent \ (todo \cup later)
  <2>1. Holds(tree, read) BY <1>3, <1>9 DEF BeingRead
  <2>2. PICK g \in sent : g.path = f.path /\ (g = f \/ g \in later)
    BY <1>3, <1>4 DEF BeingRead
  <2>3. ASSUME NEW h \in read PROVE h.path # f.path /\ ~Leads(f.path, h.path)
    <3>1. ~Leads(g.path, h.path) BY <1>9, <2>2 DEF NoneWithin
    <3>2. h.path = f.path => h = g BY <1>3, <2>2 DEF NoNameTwice
    <3> QED BY <1>4, <2>2, <3>1, <3>2
  <2>4. Holds(Grown(tree, f), read \cup {f})
    <3> HIDE DEF read
    <3> QED BY <1>3, <1>4, <2>1, <2>3, GrownHolds
  <2>5. sent \ (todo' \cup later') \subseteq read \cup {f} BY <1>1
  <2> QED BY <1>1, <2>4, <2>5 DEF Holds
<1>10. \A h \in todo' : \E g \in sent : g.path = h.path /\ (g = h \/ g \in later')
  <2>1. CASE todo = {} BY <1>1, <2>1
  <2>2. CASE todo # {} BY <1>1, <1>3, <2>2 DEF BeingRead
  <2> QED BY <2>1, <2>2
<1>11. later' \subseteq sent BY <1>1, <1>3 DEF BeingRead
<1>12. BeingRead' BY <1>2, <1>7, <1>9, <1>10, <1>11 DEF BeingRead
<1> QED BY <1>2, <1>3, <1>5, <1>8, <1>12 DEF IntakeInv

(* No field of a body without contradictions fails to fit.                           *)
LEMMA ConsistentFits ==
    ASSUME IntakeInv, at = "reading", Consistent(sent), NEW f \in todo \cup later
    PROVE  ~Conflict(tree, f.path)
<1>1. PICK g \in sent : g.path = f.path BY DEF IntakeInv, BeingRead
<1>2. /\ sent \in SUBSET Fields /\ DOMAIN tree \subseteq Paths
      /\ Rooted(tree) /\ Shaped(tree, sent)
  BY DEF IntakeInv, TypeOK, BeingRead
<1> QED BY <1>1, <1>2, NothingInTheWay

LEMMA FieldDoesNotFitIsOK == ASSUME IntakeInv, FieldDoesNotFit PROVE IntakeInv'
<1>1. /\ at = "reading" /\ tree' = Empty /\ todo' = {} /\ later' = {}
      /\ at' \in {"read", "refused"} /\ UNCHANGED <<format, header, sent>>
  BY DEF FieldDoesNotFit
<1>2. PICK f \in Upcoming : Conflict(tree, f.path) BY DEF FieldDoesNotFit
<1>3. ~Consistent(sent) BY <1>1, <1>2, UpcomingIsSent, ConsistentFits
<1>4. WasRead(sent)' BY <1>1, <1>3 DEF WasRead
<1>5. TypeOK' BY <1>1, EmptyBody DEF IntakeInv, TypeOK
<1>6. Rooted(tree)' BY <1>1, EmptyBody
<1> QED BY <1>1, <1>4, <1>5, <1>6 DEF IntakeInv

LEMMA AllReadIsOK == ASSUME IntakeInv, AllRead PROVE IntakeInv'
<1>1. /\ at = "reading" /\ todo = {} /\ later = {} /\ at' = "read"
      /\ UNCHANGED <<format, header, sent, todo, later, tree>>
  BY DEF AllRead, Upcoming
<1>2. BeingRead BY <1>1 DEF IntakeInv
<1>3. Consistent(sent) => NoneWithin(sent)
  BY NoneLeads DEF NoneWithin, IntakeInv, TypeOK
<1>4. NoneWithin(sent) => Holds(tree, sent)
  <2>1. sent \ (todo \cup later) = sent BY <1>1
  <2> QED BY <1>2, <2>1 DEF BeingRead
<1>5. WasRead(sent)' BY <1>1, <1>3, <1>4 DEF WasRead
<1> QED BY <1>1, <1>5 DEF IntakeInv, TypeOK

(* What moves up from the parameters covers nothing.                                *)
LEMMA MergedBody ==
    ASSUME TypeOK, Rooted(tree)
    PROVE  /\ DOMAIN Merged \subseteq Paths /\ \A n \in DOMAIN Merged : Merged[n] \in Nodes
           /\ DOMAIN tree \subseteq DOMAIN Merged
           /\ \A n \in DOMAIN tree : Merged[n] = tree[n]
<1> DEFINE Moved == {n \in DOMAIN tree : Len(n) > 1 /\ n[1] = "parameters" /\ ~Has(n[2])}
<1>1. DOMAIN Merged = DOMAIN tree \cup {Tail(n) : n \in Moved} BY DEF Merged
<1>2. \A m \in DOMAIN Merged :
        Merged[m] = IF m \in DOMAIN tree THEN tree[m] ELSE tree[Top("parameters") \o m]
  BY DEF Merged
<1>3. ASSUME NEW n \in Moved
      PROVE  Tail(n) \in Paths /\ Top("parameters") \o Tail(n) = n
  <2>1. n \in Seq(Segments) /\ Len(n) > 1 /\ n[1] = "parameters" BY DEF TypeOK, Paths
  <2>2. n # <<>> /\ Head(n) = "parameters" BY <2>1
  <2>3. Tail(n) \in Seq(Segments) BY <2>1, <2>2, HeadTailProperties
  <2>4. <<Head(n)>> \o Tail(n) = n BY <2>1, <2>2
  <2> QED BY <2>2, <2>3, <2>4 DEF Paths, Top
<1> HIDE DEF Moved
<1>4. ASSUME NEW m \in DOMAIN Merged PROVE Merged[m] \in Nodes /\ m \in Paths
  <2>1. CASE m \in DOMAIN tree BY <1>1, <1>2, <2>1 DEF TypeOK
  <2>2. CASE m \notin DOMAIN tree
    <3>1. PICK n \in Moved : m = Tail(n) BY <1>1, <2>2
    <3>2. Top("parameters") \o m = n /\ m \in Paths BY <1>3, <3>1
    <3>3. n \in DOMAIN tree BY DEF Moved
    <3> QED BY <1>2, <2>2, <3>2, <3>3 DEF TypeOK
  <2> QED BY <2>1, <2>2
<1> QED BY <1>1, <1>2, <1>4

LEMMA MergeParametersIsOK == ASSUME IntakeInv, MergeParameters PROVE IntakeInv'
<1>1. /\ at = "read" /\ at' = "merged" /\ UNCHANGED <<format, header, sent, todo, later>>
      /\ \/ tree' = tree
         \/ tree' = Merged /\ Has("parameters")
  BY DEF MergeParameters
<1>2. TypeOK /\ Rooted(tree) /\ WasRead(sent) BY <1>1 DEF IntakeInv
<1>3. /\ DOMAIN tree' \subseteq Paths /\ \A n \in DOMAIN tree' : tree'[n] \in Nodes
      /\ DOMAIN tree \subseteq DOMAIN tree'
      /\ \A n \in DOMAIN tree : tree'[n] = tree[n]
  BY <1>1, <1>2, MergedBody DEF TypeOK
<1>4. tree = Empty => tree' = tree
  <2>1. ASSUME tree = Empty PROVE ~Has("parameters")
    <3>1. Top("parameters") # <<>> BY DEF Top
    <3> QED BY <2>1, <3>1, EmptyBody DEF Has
  <2> QED BY <1>1, <2>1
<1>5. Holds(tree, sent) => Holds(tree', sent) BY <1>3 DEF Holds
<1>6. WasRead(sent)' BY <1>1, <1>2, <1>4, <1>5 DEF WasRead
<1>7. TypeOK' BY <1>1, <1>2, <1>3 DEF TypeOK
<1>8. Rooted(tree)' BY <1>2, <1>3 DEF Rooted
<1> QED BY <1>1, <1>6, <1>7, <1>8 DEF IntakeInv

LEMMA AdmitIsOK == ASSUME IntakeInv, Admit PROVE IntakeInv'
<1>1. /\ at = "merged" /\ at' = "handled" /\ tree' = Scrubbed
      /\ UNCHANGED <<format, header, sent, todo, later>>
  BY DEF Admit
<1>2. TypeOK /\ Rooted(tree) /\ WasRead(sent) BY <1>1 DEF IntakeInv
<1>3. /\ DOMAIN tree' = DOMAIN tree
      /\ \A n \in DOMAIN tree :
           /\ tree'[n] \in {tree[n], Leaf(Redacted)}
           /\ n = <<>> \/ n[Len(n)] \notin Range(SecretKeys) => tree'[n] = tree[n]
  BY <1>1 DEF Scrubbed, Last
<1>4. Leaf(Redacted) \in Nodes BY IntakeAssumption DEF Nodes
<1>5. TypeOK' BY <1>1, <1>2, <1>3, <1>4 DEF TypeOK
<1>6. Rooted(tree)' BY <1>2, <1>3 DEF Rooted
<1>7. tree = Empty => tree' = Empty
  <2> SUFFICES ASSUME tree = Empty PROVE tree' = Empty OBVIOUS
  <2>1. DOMAIN tree' = {<<>>} /\ tree'[<<>>] = tree[<<>>] BY <1>3, EmptyBody
  <2>2. tree' = [n \in DOMAIN tree |-> tree'[n]] BY <1>1, <1>3 DEF Scrubbed
  <2> QED BY <2>1, <2>2, EmptyBody DEF Empty
<1>8. Holds(tree, sent) => Holds(tree', Open(sent)) BY <1>3 DEF Holds, Open
<1>9. WasRead(Open(sent))' BY <1>1, <1>2, <1>7, <1>8 DEF WasRead, Open
<1> QED BY <1>1, <1>5, <1>6, <1>9 DEF IntakeInv

LEMMA RefuseIsOK == ASSUME IntakeInv, Refuse PROVE IntakeInv'
BY DEF Refuse, IntakeInv, TypeOK

LEMMA Initially == Init => IntakeInv
<1> SUFFICES ASSUME Init PROVE IntakeInv OBVIOUS
<1>1. TypeOK BY EmptyBody DEF Init, TypeOK
<1> QED BY <1>1, EmptyBody DEF Init, IntakeInv, NoNameTwice

LEMMA Inductively == IntakeInv /\ [Next]_vars => IntakeInv'
<1> SUFFICES ASSUME IntakeInv, [Next]_vars PROVE IntakeInv' OBVIOUS
<1>1. CASE UNCHANGED vars
  BY <1>1 DEF vars, IntakeInv, TypeOK, BeingRead, WasRead, NoneWithin, Open
<1> QED
  BY <1>1, ReceiveIsOK, ReadFieldIsOK, FieldDoesNotFitIsOK, AllReadIsOK, MergeParametersIsOK,
     AdmitIsOK, RefuseIsOK DEF Next

LEMMA Always == Spec => []IntakeInv
BY Initially, Inductively, PTL DEF Spec

(* Types.                                                                   *)
THEOREM Types == Spec => []TypeOK
<1>1. IntakeInv => TypeOK BY DEF IntakeInv
<1> QED BY <1>1, Always, PTL

(* The order of the fields of a body without contradictions does not matter: each of     *)
(* them can be read whatever was read before, and a handler finds it at its name.       *)
THEOREM AnyOrderWillDo == Spec => []ReadInAnyOrder
<1>1. IntakeInv => ReadInAnyOrder
  BY ConsistentFits DEF IntakeInv, WasRead, ReadInAnyOrder
<1> QED BY <1>1, Always, PTL

(* A body is read whole or not at all: what came before a field that cannot be read is   *)
(* gone with it.                                                             *)
THEOREM WholeOrEmpty == Spec => []AllOrNothing
<1>1. IntakeInv => AllOrNothing
  BY DEF IntakeInv, WasRead, NoneWithin, AllOrNothing
<1> QED BY <1>1, Always, PTL

-----------------------------------------------------------------------------
(* How the items are counted *)

(* What leads to every field is there.                                            *)
Reached(body, fields) ==
    \A f \in fields : \A i \in 1..Len(f.path) : Prefix(f.path, i) \in DOMAIN body

(* What leads to a part of a path leads to the path.                                 *)
LEMMA LeadsFurther ==
    ASSUME NEW p \in Paths, NEW q \in Paths, NEW i \in 1..Len(q), Leads(p, Prefix(q, i))
    PROVE  Leads(p, q)
<1>1. /\ i \in 0..Len(q) /\ Len(Prefix(q, i)) = i /\ \A j \in 1..i : Prefix(q, i)[j] = q[j]
  <2>1. i \in 0..Len(q) OBVIOUS
  <2> QED BY <2>1, PrefixType
<1>2. Len(p) \in Nat /\ Len(p) < i BY <1>1 DEF Leads, Paths
<1>3. \A j \in 1..Len(p) : j \in 1..i BY <1>2
<1> QED BY <1>1, <1>2, <1>3 DEF Leads, Paths

LEMMA GrownReaches ==
    ASSUME NEW body, DOMAIN body \subseteq Paths, Rooted(body), NEW f \in Fields,
           NEW fields \in SUBSET Fields, Reached(body, fields),
           \A g \in fields : ~Leads(f.path, g.path)
    PROVE  Reached(Grown(body, f), fields \cup {f})
<1>1. ASSUME NEW g \in fields, NEW i \in 1..Len(g.path)
      PROVE  Prefix(g.path, i) \in DOMAIN Grown(body, f)
  <2>1. Prefix(g.path, i) \in DOMAIN body BY DEF Reached
  <2>2. ~Leads(f.path, Prefix(g.path, i)) BY FieldType, LeadsFurther
  <2> QED BY <2>1, <2>2, GrownNodes
<1>2. \A i \in 1..Len(f.path) : Prefix(f.path, i) \in DOMAIN Grown(body, f) BY GrownNodes
<1> QED BY <1>1, <1>2 DEF Reached

LEMMA NestedReaches ==
    ASSUME NEW fields, NEW keys PROVE Reached(Nested(fields, keys), fields)
BY DEF Nested, Reached

-----------------------------------------------------------------------------
LEMMA PlaceType ==
    ASSUME NEW f \in Fields
    PROVE  /\ PlaceOf(f) \in Paths /\ Len(PlaceOf(f)) \in Nat \ {0}
           /\ ~Inner(f) => PlaceOf(f) = f.path
           /\ Inner(f) => /\ Len(PlaceOf(f)) = Len(f.path) - 1
                          /\ \A j \in 1..Len(PlaceOf(f)) : PlaceOf(f)[j] = f.path[j + 1]
                          /\ Top("parameters") \o PlaceOf(f) = f.path
<1> DEFINE p == f.path
<1>1. p \in Paths /\ p # <<>> /\ Len(p) \in Nat \ {0} BY FieldType
<1>2. CASE Inner(f)
  <2>1. PlaceOf(f) = Tail(p) /\ p[1] = "parameters" /\ Len(p) > 1 BY <1>2 DEF PlaceOf, Inner
  <2> HIDE DEF p
  <2>2. /\ Tail(p) \in Paths /\ Len(Tail(p)) = Len(p) - 1
        /\ \A j \in 1..Len(Tail(p)) : Tail(p)[j] = p[j + 1]
    BY <1>1, HeadTailProperties DEF Paths
  <2>3. Top("parameters") \o Tail(p) = p BY <1>1, <2>1 DEF Top, Paths
  <2> QED BY <1>1, <1>2, <2>1, <2>2, <2>3 DEF p
<1>3. CASE ~Inner(f) BY <1>1, <1>3 DEF PlaceOf
<1> QED BY <1>2, <1>3

(* A place as it is named: the children of lists and what is not merged aside.          *)
Ordinary(n) == n[1] \notin Digits /\ n[1] # "parameters"
Hides(n) == n[Len(n)] \in Range(SecretKeys)
NoClash == \A f, g \in sent : Inner(f) => f.path[2] # g.path[1]

(* After the merge: every node is there on account of a field, and every field is at its  *)
(* place.  Secrets are scrubbed, and a name used twice may keep the value it had.     *)
PlacedNodes ==
    \A n \in DOMAIN tree \ {<<>>} : Ordinary(n) =>
        \E f \in sent : Near(n, PlaceOf(f)) /\ (Hides(n) \/ Ready(tree, n, PlaceOf(f)))
PlacedFields ==
    \A f \in sent : Ordinary(PlaceOf(f)) =>
        /\ \A i \in 1..Len(PlaceOf(f)) : Prefix(PlaceOf(f), i) \in DOMAIN tree
        /\ Hides(PlaceOf(f)) \/ tree[PlaceOf(f)] = Leaf(f.value)

(* What the counts rest on, from the first field to the handler.                      *)
Counting ==
    /\ IsFiniteSet(sent)
    /\ Consistent(sent) =>
        /\ at = "reading" => Reached(tree, sent \ (todo \cup later))
        /\ at = "read" => Shaped(tree, sent) /\ Reached(tree, sent)
        /\ at \in {"merged", "handled"} => PlacedNodes /\ (NoClash => PlacedFields)

LEMMA OneOrMore == ASSUME NEW k \in Nat \ {0} PROVE k = 1 \/ k > 1
OBVIOUS

(* A node has the first name of the path it is near to.                              *)
LEMMA NearFirst ==
    ASSUME NEW n \in Paths, NEW p \in Paths, Near(n, p)
    PROVE  n[1] = p[1] /\ Len(n) \in Nat \ {0} /\ Len(p) \in Nat \ {0} /\ Len(n) <= Len(p)
<1>1. Len(n) \in Nat \ {0} /\ Len(p) \in Nat \ {0} /\ Len(n) <= Len(p) BY DEF Near, Paths
<1>2. CASE Len(n) = 1 BY <1>1, <1>2 DEF Near
<1>3. CASE Len(n) > 1
  <2>1. 1 \in 1..(Len(n) - 1) BY <1>1, <1>3
  <2> QED BY <1>1, <2>1 DEF Near
<1>4. Len(n) = 1 \/ Len(n) > 1 BY <1>1, OneOrMore
<1> QED BY <1>1, <1>2, <1>3, <1>4

-----------------------------------------------------------------------------
LEMMA ReceiveCounts == ASSUME IntakeInv, Counting, Receive PROVE Counting'
<1>1. at = "waiting" /\ sent = {} /\ tree = Empty /\ todo = {}
  BY DEF Receive, IntakeInv
<1>2. CASE ReceiveNothing
  <2>1. at' = "read" /\ sent' = {} /\ tree' = Empty BY <1>1, <1>2 DEF ReceiveNothing
  <2>2. Shaped(tree', sent') /\ Reached(tree', sent') BY <2>1, EmptyBody DEF Reached
  <2>3. IsFiniteSet(sent') BY <2>1, FS_EmptySet
  <2> QED BY <2>1, <2>2, <2>3 DEF Counting
<1>3. ASSUME NEW fields \in Requests,
             ReceiveForm(fields) \/ \E keys \in BOOLEAN : ReceiveJson(fields, keys)
      PROVE  Counting'
  <2>1. PICK form \in {"form", "json"} :
           /\ Unpack(fields, form)
           /\ form = "form" => ReceiveForm(fields)
           /\ form = "json" => \E keys \in BOOLEAN : ReceiveJson(fields, keys)
    BY <1>3 DEF ReceiveForm, ReceiveJson
  <2> DEFINE early == Early(fields, form)
  <2>2. /\ sent' \subseteq early \cup later' /\ IsFiniteSet(early \cup later')
    BY <2>1, Unpacked
  <2>3. IsFiniteSet(sent') BY <2>2, FS_Subset
  <2>4. Reached(tree', sent' \ (todo' \cup later'))
    <3>1. CASE form = "form"
      <4>1. todo' = early BY <2>1, <3>1 DEF ReceiveForm
      <4>2. sent' \ (todo' \cup later') = {} BY <2>2, <4>1
      <4> QED BY <4>2 DEF Reached
    <3>2. CASE form = "json"
      <4>1. PICK keys \in BOOLEAN : tree' = Nested(early, keys)
        BY <2>1, <3>2 DEF ReceiveJson
      <4>2. Reached(tree', early) BY <4>1, NestedReaches
      <4> QED BY <2>2, <4>2 DEF Reached
    <3> QED BY <3>1, <3>2
  <2>5. at' = "reading" BY <2>1 DEF Unpack
  <2> QED BY <2>3, <2>4, <2>5 DEF Counting
<1> QED BY <1>2, <1>3 DEF Receive

LEMMA ReadFieldCounts == ASSUME IntakeInv, Counting, ReadField PROVE Counting'
<1>1. PICK f \in Upcoming :
        /\ tree' = Grown(tree, f)
        /\ todo' = todo \ {f} /\ later' = IF todo = {} THEN later \ {f} ELSE later
  BY DEF ReadField
<1>2. at = "reading" /\ at' = "reading" /\ sent' = sent BY DEF ReadField
<1>3. Rooted(tree) /\ BeingRead /\ DOMAIN tree \subseteq Paths /\ sent \subseteq Fields
  BY <1>2 DEF IntakeInv, TypeOK
<1>4. f \in Fields /\ f \in todo \cup later /\ \E g \in sent : g.path = f.path
  BY <1>2, UpcomingIsSent
<1>5. ASSUME Consistent(sent) PROVE Reached(tree', sent \ (todo' \cup later'))
  <2> DEFINE read == sent \ (todo \cup later)
  <2>1. Reached(tree, read) BY <1>2, <1>5 DEF Counting
  <2>2. \A g \in read : ~Leads(f.path, g.path) BY <1>3, <1>4, <1>5, NoneLeads
  <2>3. Reached(Grown(tree, f), read \cup {f})
    <3>1. read \in SUBSET Fields BY <1>3
    <3> HIDE DEF read
    <3> QED BY <1>3, <1>4, <2>1, <2>2, <3>1, GrownReaches
  <2>4. sent \ (todo' \cup later') \subseteq read \cup {f} BY <1>1
  <2> QED BY <1>1, <2>3, <2>4 DEF Reached
<1> QED BY <1>2, <1>5 DEF Counting

LEMMA FieldDoesNotFitCounts == ASSUME IntakeInv, Counting, FieldDoesNotFit PROVE Counting'
<1>1. at = "reading" /\ sent' = sent BY DEF FieldDoesNotFit
<1>2. PICK f \in Upcoming : Conflict(tree, f.path) BY DEF FieldDoesNotFit
<1>3. ~Consistent(sent) BY <1>1, <1>2, UpcomingIsSent, ConsistentFits
<1> QED BY <1>1, <1>3 DEF Counting

LEMMA AllReadCounts == ASSUME IntakeInv, Counting, AllRead PROVE Counting'
<1>1. /\ at = "reading" /\ todo = {} /\ later = {} /\ at' = "read"
      /\ UNCHANGED <<format, header, sent, todo, later, tree>>
  BY DEF AllRead, Upcoming
<1>2. Shaped(tree, sent) BY <1>1 DEF IntakeInv, BeingRead
<1>3. sent \ (todo \cup later) = sent BY <1>1
<1> QED BY <1>1, <1>2, <1>3 DEF Counting

(* The kind that a path gives to a node does not depend on what comes before.          *)
LEMMA KindShift ==
    ASSUME NEW f \in Fields, Inner(f), NEW i \in 1..Len(PlaceOf(f))
    PROVE  KindAt(PlaceOf(f), i) = KindAt(f.path, i + 1)
<1>1. /\ Len(PlaceOf(f)) = Len(f.path) - 1 /\ Len(PlaceOf(f)) \in Nat \ {0}
      /\ \A j \in 1..Len(PlaceOf(f)) : PlaceOf(f)[j] = f.path[j + 1]
  BY PlaceType
<1>2. Len(f.path) \in Nat \ {0} BY FieldType
<1>3. CASE i = Len(PlaceOf(f)) BY <1>1, <1>2, <1>3 DEF KindAt
<1>4. CASE i # Len(PlaceOf(f))
  <2>1. i + 1 \in 1..Len(PlaceOf(f)) /\ i + 1 # Len(f.path) BY <1>1, <1>2, <1>4
  <2>2. PlaceOf(f)[i + 1] = f.path[(i + 1) + 1] BY <1>1, <2>1
  <2> QED BY <1>4, <2>1, <2>2 DEF KindAt
<1> QED BY <1>3, <1>4

(* A node under the parameters is near to a field there, and so is what it becomes       *)
(* near to the place of the field.                                              *)
LEMMA NearInside ==
    ASSUME NEW f \in Fields, NEW n \in Paths, NEW m \in Paths, Near(m, f.path),
           m[1] = "parameters", Len(m) = Len(n) + 1, Len(n) \in Nat \ {0},
           \A j \in 1..Len(n) : n[j] = m[j + 1], n[1] \notin Digits
    PROVE  /\ Inner(f) /\ Near(n, PlaceOf(f))
           /\ Len(n) < Len(PlaceOf(f)) =>
                  /\ Len(m) < Len(f.path)
                  /\ KindAt(PlaceOf(f), Len(n)) = KindAt(f.path, Len(m))
<1> DEFINE p == f.path
           q == PlaceOf(f)
<1>1. p \in Paths /\ Len(p) \in Nat \ {0} /\ q \in Paths BY FieldType, PlaceType
<1>2. p[1] = "parameters" /\ Len(m) <= Len(p) /\ Len(m) > 1 BY <1>1, NearFirst
<1>3. Inner(f) BY <1>1, <1>2 DEF Inner
<1>4. /\ Len(q) = Len(p) - 1 /\ \A j \in 1..Len(q) : q[j] = p[j + 1]
  BY <1>3, PlaceType
<1> HIDE DEF p, q
<1>5. Len(n) \in 1..Len(q) BY <1>1, <1>2, <1>4
<1>6. \A j \in 1..(Len(n) - 1) : n[j] = q[j]
  <2> TAKE j \in 1..(Len(n) - 1)
  <2>1. j \in 1..Len(n) /\ j \in 1..Len(q) /\ j + 1 \in 1..(Len(m) - 1) BY <1>5
  <2> QED BY <1>4, <2>1 DEF Near, p
<1>7. n[Len(n)] = m[Len(m)] /\ q[Len(n)] = p[Len(m)]
  <2>1. Len(n) \in 1..Len(n) OBVIOUS
  <2> QED BY <1>4, <1>5, <2>1
<1>8. \/ m[Len(m)] = p[Len(m)]
      \/ /\ m[Len(m)] \in Digits /\ p[Len(m)] \in Digits
         /\ Index[m[Len(m)]] <= Index[p[Len(m)]]
  BY DEF Near, p
<1>9. Near(n, q)
  <2>1. CASE m[Len(m)] = p[Len(m)] BY <1>5, <1>6, <1>7, <2>1 DEF Near
  <2>2. CASE m[Len(m)] # p[Len(m)]
    <3>1. Len(n) # 1 BY <1>7, <1>8, <2>2
    <3> QED BY <1>5, <1>6, <1>7, <1>8, <2>2, <3>1 DEF Near
  <2> QED BY <2>1, <2>2
<1>10. ASSUME Len(n) < Len(q)
       PROVE  Len(m) < Len(p) /\ KindAt(q, Len(n)) = KindAt(p, Len(m))
  <2>1. KindAt(q, Len(n)) = KindAt(p, Len(n) + 1) BY <1>3, <1>5, KindShift DEF p, q
  <2> QED BY <1>1, <1>4, <1>10, <2>1
<1> QED BY <1>3, <1>9, <1>10 DEF p, q

(* The parameters are a dictionary if something in them has a name.                    *)
LEMMA ParametersAreNamed ==
    ASSUME TypeOK, Consistent(sent), Shaped(tree, sent), Reached(tree, sent),
           NEW f \in sent, Inner(f), f.path[2] \notin Digits
    PROVE  Has("parameters") /\ tree[Top("parameters")].kind = "dict"
<1> DEFINE p == f.path
           n == Top("parameters")
<1>1. p \in Paths /\ Len(p) \in Nat /\ Len(p) > 1 /\ p[1] = "parameters"
  <2>1. f \in Fields BY DEF TypeOK
  <2> QED BY <2>1, FieldType DEF Inner
<1>2. Len(n) = 1 /\ n[1] = "parameters" /\ n # <<>> BY DEF Top
<1>3. Prefix(p, 1) = n
  <2>1. 1 \in 0..Len(p) BY <1>1
  <2>2. /\ Prefix(p, 1) \in Paths /\ Len(Prefix(p, 1)) = 1
        /\ \A j \in 1..1 : Prefix(p, 1)[j] = p[j]
    BY <1>1, <2>1, PrefixType
  <2>3. Prefix(p, 1)[1] = "parameters" BY <1>1, <2>2
  <2> HIDE DEF p
  <2>4. Prefix(p, 1) = <<Prefix(p, 1)[1]>> BY <2>2 DEF Paths
  <2> QED BY <2>3, <2>4 DEF Top
<1>4. n \in DOMAIN tree
  <2>1. 1 \in 1..Len(p) BY <1>1
  <2>2. Prefix(p, 1) \in DOMAIN tree BY <2>1 DEF Reached
  <2> QED BY <1>3, <2>2
<1>5. n \in Paths BY <1>4 DEF TypeOK
<1> HIDE DEF n
<1>6. PICK g \in sent : Near(n, g.path) /\ Ready(tree, n, g.path)
  <2>1. n \in DOMAIN tree \ {<<>>} BY <1>2, <1>4
  <2> HIDE DEF p
  <2> QED BY <2>1 DEF Shaped
<1>7. sent \in SUBSET Fields /\ g \in Fields /\ f \in Fields BY DEF TypeOK
<1>8. g.path \in Paths /\ Len(g.path) \in Nat \ {0} /\ g.path[1] = "parameters"
  BY <1>2, <1>5, <1>6, <1>7, FieldType, NearFirst
<1>9. Len(g.path) > 1
  <2>1. ~Leads(g.path, p) BY <1>7, NoneLeads
  <2> QED BY <1>1, <1>8, <2>1 DEF Leads
<1>10. g.path[2] \in Digits <=> p[2] \in Digits
  <2>1. Agree(g.path, p) BY DEF Consistent
  <2>2. 2 \in 1..Len(g.path) /\ 2 <= Len(p) BY <1>1, <1>8, <1>9
  <2>3. \A j \in 1..(2 - 1) : g.path[j] = p[j] BY <1>1, <1>8
  <2> HIDE DEF p
  <2> QED BY <2>1, <2>2, <2>3 DEF Agree
<1>11. KindAt(g.path, 1) = "dict" BY <1>8, <1>9, <1>10 DEF KindAt
<1> QED BY <1>2, <1>4, <1>6, <1>9, <1>11 DEF Ready, Has, n

(* The nodes that MergeParameters copies.                                          *)
MovedUp == {n \in DOMAIN tree : Len(n) > 1 /\ n[1] = "parameters" /\ ~Has(n[2])}

(* What moves up is what was inside the parameters, without their name.                 *)
LEMMA MovesUp ==
    ASSUME TypeOK, NEW n \in MovedUp
    PROVE  /\ n \in Paths /\ n[1] = "parameters" /\ Tail(n) \in Paths
           /\ Len(n) = Len(Tail(n)) + 1 /\ Len(Tail(n)) \in Nat \ {0}
           /\ \A j \in 1..Len(Tail(n)) : Tail(n)[j] = n[j + 1]
           /\ Top("parameters") \o Tail(n) = n
<1>1. n \in Seq(Segments) /\ Len(n) > 1 /\ n[1] = "parameters" BY DEF TypeOK, Paths, MovedUp
<1>2. n # <<>> /\ Head(n) = "parameters" /\ Len(n) \in Nat BY <1>1
<1>3. /\ Tail(n) \in Seq(Segments) /\ Len(Tail(n)) = Len(n) - 1
      /\ \A j \in 1..Len(Tail(n)) : Tail(n)[j] = n[j + 1]
  BY <1>1, <1>2, HeadTailProperties
<1>4. <<Head(n)>> \o Tail(n) = n BY <1>1, <1>2
<1> QED BY <1>1, <1>2, <1>3, <1>4 DEF Paths, Top

(* No node lies outside of what is sent.                                          *)
LEMMA NotThere ==
    ASSUME TypeOK, Shaped(tree, sent), NEW n \in DOMAIN tree, n # <<>>
    PROVE  \E g \in sent : g.path[1] = n[1]
<1>1. PICK g \in sent : Near(n, g.path) BY DEF Shaped
<1>2. n \in Paths /\ g.path \in Paths BY FieldType DEF TypeOK
<1> QED BY <1>1, <1>2, NearFirst

LEMMA MergedNodes ==
    ASSUME TypeOK, Rooted(tree), Shaped(tree, sent),
           tree' = tree \/ tree' = Merged, sent' = sent
    PROVE  PlacedNodes'
<1> SUFFICES ASSUME NEW n \in DOMAIN tree', n # <<>>, Ordinary(n)
             PROVE  \E f \in sent : Near(n, PlaceOf(f)) /\ (Hides(n) \/ Ready(tree', n, PlaceOf(f)))
  BY DEF PlacedNodes
<1>1. DOMAIN tree \subseteq Paths /\ sent \subseteq Fields BY DEF TypeOK
<1>2. DOMAIN tree \subseteq DOMAIN tree' /\ \A m \in DOMAIN tree : tree'[m] = tree[m]
  BY MergedBody
<1>3. CASE n \in DOMAIN tree
  <2>1. PICK f \in sent : Near(n, f.path) /\ Ready(tree, n, f.path) BY <1>3 DEF Shaped
  <2>2. f \in Fields /\ n \in Paths /\ f.path \in Paths BY <1>1, <1>3, FieldType
  <2>3. f.path[1] # "parameters" BY <2>1, <2>2, NearFirst DEF Ordinary
  <2>4. PlaceOf(f) = f.path BY <2>3 DEF PlaceOf, Inner
  <2>5. Ready(tree', n, f.path) BY <1>2, <1>3, <2>1 DEF Ready
  <2> QED BY <2>1, <2>4, <2>5
<1>4. CASE n \notin DOMAIN tree
  <2>1. DOMAIN Merged = DOMAIN tree \cup {Tail(m) : m \in MovedUp} BY DEF Merged, MovedUp
  <2>2. tree' = Merged BY <1>4
  <2>3. PICK m \in MovedUp : n = Tail(m) BY <1>4, <2>1, <2>2
  <2>4. /\ m \in Paths /\ m[1] = "parameters" /\ n \in Paths
        /\ Len(m) = Len(n) + 1 /\ Len(n) \in Nat \ {0}
        /\ \A j \in 1..Len(n) : n[j] = m[j + 1]
        /\ Top("parameters") \o n = m
    BY <2>3, MovesUp
  <2>5. m \in DOMAIN tree /\ m # <<>> BY <2>3 DEF MovedUp
  <2>6. PICK f \in sent : Near(m, f.path) /\ Ready(tree, m, f.path) BY <2>5 DEF Shaped
  <2>7. f \in Fields /\ n[1] \notin Digits BY <1>1 DEF Ordinary
  <2>8. /\ Inner(f) /\ Near(n, PlaceOf(f))
        /\ Len(n) < Len(PlaceOf(f)) =>
               /\ Len(m) < Len(f.path)
               /\ KindAt(PlaceOf(f), Len(n)) = KindAt(f.path, Len(m))
    BY <2>4, <2>6, <2>7, NearInside
  <2>9. tree'[n] = tree[m] BY <1>4, <2>2, <2>4 DEF Merged
  <2>10. Ready(tree', n, PlaceOf(f)) BY <2>6, <2>8, <2>9 DEF Ready
  <2> QED BY <2>8, <2>10
<1> QED BY <1>3, <1>4

LEMMA MergedFields ==
    ASSUME TypeOK, Consistent(sent), Shaped(tree, sent), Reached(tree, sent), Holds(tree, sent),
           NoClash, MergeParameters
    PROVE  PlacedFields'
<1> USE DEF MovedUp
<1>1. sent' = sent BY DEF MergeParameters
<1> SUFFICES ASSUME NEW f \in sent, Ordinary(PlaceOf(f))
             PROVE  /\ \A i \in 1..Len(PlaceOf(f)) : Prefix(PlaceOf(f), i) \in DOMAIN tree'
                    /\ tree'[PlaceOf(f)] = Leaf(f.value)
  BY <1>1 DEF PlacedFields
<1> DEFINE p == f.path
           q == PlaceOf(f)
<1>2. f \in Fields /\ p \in Paths /\ q \in Paths /\ Len(q) \in Nat \ {0} /\ Len(p) \in Nat \ {0}
  <2>1. f \in Fields BY DEF TypeOK
  <2> QED BY <2>1, FieldType, PlaceType
<1>3. p \in DOMAIN tree /\ tree[p] = Leaf(f.value) BY DEF Holds
<1>4. \A i \in 1..Len(p) : Prefix(p, i) \in DOMAIN tree BY DEF Reached
<1>5. CASE ~Inner(f)
  <2>1. q = p BY <1>2, <1>5, PlaceType
  <2>2. DOMAIN tree \subseteq DOMAIN tree' /\ \A m \in DOMAIN tree : tree'[m] = tree[m]
    <3>1. tree' = tree \/ tree' = Merged BY DEF MergeParameters
    <3> QED BY <3>1, MergedBody, EmptyBody DEF Merged
  <2> QED BY <1>3, <1>4, <2>1, <2>2
<1>6. CASE Inner(f)
  <2>1. /\ Len(q) = Len(p) - 1 /\ \A j \in 1..Len(q) : q[j] = p[j + 1]
        /\ Top("parameters") \o q = p
    BY <1>2, <1>6, PlaceType
  <2>2. p[1] = "parameters" /\ Len(p) > 1 BY <1>6 DEF Inner
  <2>3. q[1] = p[2]
    <3>1. 1 \in 1..Len(q) BY <1>2
    <3> QED BY <2>1, <3>1
  <2>4. Has("parameters") /\ tree[Top("parameters")].kind = "dict"
    BY <1>6, <2>3, ParametersAreNamed DEF Ordinary
  <2>5. tree' = Merged BY <2>4 DEF MergeParameters
  <2>6. \A g \in sent : g.path[1] # p[2] BY <1>6 DEF NoClash
  <2>7. ~Has(p[2])
    <3>1. Top(p[2]) # <<>> /\ Top(p[2])[1] = p[2] BY DEF Top
    <3>2. ASSUME Top(p[2]) \in DOMAIN tree PROVE FALSE
      <4>1. PICK g \in sent : g.path[1] = Top(p[2])[1]
        <5> HIDE DEF p
        <5> QED BY <3>1, <3>2, NotThere
      <4> QED BY <2>6, <3>1, <4>1
    <3> QED BY <3>2 DEF Has
  <2>8. DOMAIN tree' = DOMAIN tree \cup {Tail(m) : m \in MovedUp} BY <2>5 DEF Merged
  <2>9. ASSUME NEW i \in 1..Len(q) PROVE Prefix(q, i) \in DOMAIN tree'
    <3> DEFINE m == Prefix(p, i + 1)
    <3>1. i + 1 \in 1..Len(p) /\ i + 1 \in 0..Len(p) /\ i \in 0..Len(q) /\ i \in Nat \ {0}
      BY <1>2, <2>1
    <3>2. m \in Paths /\ Len(m) = i + 1 /\ \A j \in 1..(i + 1) : m[j] = p[j]
      BY <1>2, <3>1, PrefixType
    <3>3. m \in DOMAIN tree BY <1>4, <3>1
    <3>4. Prefix(q, i) \in Paths /\ Len(Prefix(q, i)) = i /\ \A j \in 1..i : Prefix(q, i)[j] = q[j]
      BY <1>2, <3>1, PrefixType
    <3> HIDE DEF m, p, q
    <3>5. 1 \in 1..(i + 1) /\ 2 \in 1..(i + 1) BY <3>1
    <3>6. m[1] = "parameters" /\ m[2] = p[2] /\ Len(m) > 1 BY <2>2, <3>1, <3>2, <3>5
    <3>7. m \in MovedUp BY <2>7, <3>3, <3>6
    <3>8. /\ Tail(m) \in Paths /\ Len(m) = Len(Tail(m)) + 1 /\ Len(Tail(m)) \in Nat
          /\ \A j \in 1..Len(Tail(m)) : Tail(m)[j] = m[j + 1]
      <4> HIDE DEF MovedUp
      <4> QED BY <3>7, MovesUp
    <3>9. Len(Tail(m)) = i BY <3>1, <3>2, <3>8
    <3>10. \A j \in 1..i : Tail(m)[j] = Prefix(q, i)[j]
      <4> TAKE j \in 1..i
      <4>1. j \in 1..Len(Tail(m)) /\ j + 1 \in 1..(i + 1) /\ j \in 1..Len(q) BY <1>2, <3>1, <3>9 DEF q
      <4> QED BY <2>1, <3>2, <3>4, <3>8, <4>1
    <3>11. Tail(m) = Prefix(q, i) BY <3>4, <3>8, <3>9, <3>10, SamePath
    <3> QED BY <2>8, <3>7, <3>11
  <2>10. q \notin DOMAIN tree
    <3>1. ASSUME q \in DOMAIN tree PROVE FALSE
      <4>1. q # <<>> BY <1>2
      <4>2. PICK g \in sent : g.path[1] = q[1]
        <5> HIDE DEF q
        <5> QED BY <3>1, <4>1, NotThere
      <4> QED BY <2>3, <2>6, <4>2
    <3> QED BY <3>1
  <2>11. q \in DOMAIN tree'
    <3>1. Len(q) \in 1..Len(q) /\ Prefix(q, Len(q)) = q BY <1>2, WholePrefix
    <3> QED BY <2>9, <3>1
  <2>12. tree'[q] = tree[p]
    <3> HIDE DEF q, p
    <3> QED BY <2>1, <2>5, <2>10, <2>11 DEF Merged
  <2> QED BY <1>3, <2>9, <2>12
<1> QED BY <1>5, <1>6

LEMMA MergeParametersCounts == ASSUME IntakeInv, Counting, MergeParameters PROVE Counting'
<1>1. /\ at = "read" /\ at' = "merged" /\ sent' = sent
      /\ tree' = tree \/ tree' = Merged
  BY DEF MergeParameters
<1>2. TypeOK /\ Rooted(tree) /\ WasRead(sent) BY <1>1 DEF IntakeInv
<1>3. ASSUME Consistent(sent) PROVE PlacedNodes' /\ (NoClash' => PlacedFields')
  <2>1. Shaped(tree, sent) /\ Reached(tree, sent) BY <1>1, <1>3 DEF Counting
  <2>2. Holds(tree, sent) BY <1>2, <1>3 DEF WasRead
  <2>3. PlacedNodes' BY <1>1, <1>2, <2>1, MergedNodes
  <2>4. NoClash' => NoClash BY <1>1 DEF NoClash
  <2> QED BY <1>2, <1>3, <2>1, <2>2, <2>3, <2>4, MergedFields
<1> QED BY <1>1, <1>3 DEF Counting

LEMMA AdmitCounts == ASSUME IntakeInv, Counting, Admit PROVE Counting'
<1>1. at = "merged" /\ at' = "handled" /\ tree' = Scrubbed /\ sent' = sent BY DEF Admit
<1>2. TypeOK BY DEF IntakeInv
<1>3. /\ DOMAIN tree' = DOMAIN tree
      /\ \A n \in DOMAIN tree : n # <<>> /\ ~Hides(n) => tree'[n] = tree[n]
  BY <1>1 DEF Scrubbed, Hides, Last
<1>4. ASSUME Consistent(sent) PROVE PlacedNodes' /\ (NoClash' => PlacedFields')
  <2>1. PlacedNodes /\ (NoClash => PlacedFields) BY <1>1, <1>4 DEF Counting
  <2>2. PlacedNodes'
    <3> SUFFICES ASSUME NEW n \in DOMAIN tree \ {<<>>}, Ordinary(n)
                 PROVE  \E f \in sent : Near(n, PlaceOf(f)) /\ (Hides(n) \/ Ready(tree', n, PlaceOf(f)))
      BY <1>1, <1>3 DEF PlacedNodes
    <3>1. PICK f \in sent : Near(n, PlaceOf(f)) /\ (Hides(n) \/ Ready(tree, n, PlaceOf(f)))
      BY <2>1 DEF PlacedNodes
    <3>2. Hides(n) \/ Ready(tree', n, PlaceOf(f)) BY <1>3, <3>1 DEF Ready
    <3> QED BY <3>1, <3>2
  <2>3. ASSUME NoClash PROVE PlacedFields'
    <3> SUFFICES ASSUME NEW f \in sent, Ordinary(PlaceOf(f))
                 PROVE  /\ \A i \in 1..Len(PlaceOf(f)) : Prefix(PlaceOf(f), i) \in DOMAIN tree'
                        /\ Hides(PlaceOf(f)) \/ tree'[PlaceOf(f)] = Leaf(f.value)
      BY <1>1 DEF PlacedFields
    <3>1. /\ \A i \in 1..Len(PlaceOf(f)) : Prefix(PlaceOf(f), i) \in DOMAIN tree
          /\ Hides(PlaceOf(f)) \/ tree[PlaceOf(f)] = Leaf(f.value)
      BY <2>1, <2>3 DEF PlacedFields
    <3>2. PlaceOf(f) \in Paths /\ Len(PlaceOf(f)) \in Nat \ {0} BY <1>2, PlaceType DEF TypeOK
    <3>3. Len(PlaceOf(f)) \in 1..Len(PlaceOf(f)) /\ Prefix(PlaceOf(f), Len(PlaceOf(f))) = PlaceOf(f)
      BY <3>2, WholePrefix
    <3>4. PlaceOf(f) \in DOMAIN tree /\ PlaceOf(f) # <<>> BY <3>1, <3>2, <3>3
    <3> QED BY <1>3, <3>1, <3>4
  <2>4. NoClash' => NoClash BY <1>1 DEF NoClash
  <2> QED BY <2>2, <2>3, <2>4
<1> QED BY <1>1, <1>4 DEF Counting

LEMMA CountingStep == IntakeInv /\ Counting /\ [Next]_vars => Counting'
<1> SUFFICES ASSUME IntakeInv, Counting, [Next]_vars PROVE Counting' OBVIOUS
<1>1. CASE UNCHANGED vars
  BY <1>1 DEF vars, Counting, PlacedNodes, PlacedFields, NoClash
<1>2. CASE Refuse
  BY <1>2 DEF Refuse, Counting
<1> QED
  BY <1>1, <1>2, ReceiveCounts, ReadFieldCounts, FieldDoesNotFitCounts, AllReadCounts,
     MergeParametersCounts, AdmitCounts DEF Next

LEMMA AlwaysCounting == Spec => [](IntakeInv /\ Counting)
<1>1. Init => Counting BY FS_EmptySet DEF Init, Counting
<1> QED BY <1>1, Always, CountingStep, PTL DEF Spec

(* A set that is counted by other things, one each.                                *)
LEMMA SameCount ==
    ASSUME NEW S, IsFiniteSet(S), NEW T, NEW F, F \in [S -> T],
           \A a, b \in S : F[a] = F[b] => a = b, \A t \in T : \E a \in S : F[a] = t
    PROVE  Cardinality(T) = Cardinality(S)
<1>1. F \in Bijection(S, T) BY DEF Bijection, Injection, Surjection, IsInjective
<1>2. ExistsBijection(S, T) BY <1>1 DEF ExistsBijection
<1> QED BY <1>2, FS_Bijection

LEMMA OneThing == ASSUME NEW x PROVE Cardinality({x}) = 1
BY FS_Singleton

(* The values of an operator on what is sent are finitely many.                       *)
LEMMA FiniteNames ==
    ASSUME IsFiniteSet(sent)
    PROVE  /\ IsFiniteSet({PlaceOf(f)[1] : f \in sent})
           /\ IsFiniteSet({PlaceOf(f)[2] : f \in sent})
<1>1. ASSUME NEW i PROVE IsFiniteSet({PlaceOf(f)[i] : f \in sent})
  <2> DEFINE T == {PlaceOf(f)[i] : f \in sent}
             F == [f \in sent |-> PlaceOf(f)[i]]
  <2>1. F \in Surjection(sent, T) BY DEF Surjection
  <2> HIDE DEF F, T
  <2>2. IsFiniteSet(T) BY <2>1, FS_Surjection
  <2> QED BY <2>2 DEF T
<1> QED BY <1>1

(* The fields that say something: Places is where they come to lie.                   *)
TellingFields == {f \in sent : f.value # NoValue \/ Len(PlaceOf(f)) > 1}

(* What a body that reached a handler has under the names of the places.               *)
Arrived ==
    /\ TypeOK /\ IsFiniteSet(sent) /\ Consistent(sent) /\ NoClash
    /\ PlacedNodes /\ PlacedFields

(* Two places agree with each other as the fields do.                                *)
LEMMA PlacesAgree ==
    ASSUME Arrived, NEW f \in sent, NEW g \in sent, PlaceOf(f)[1] = PlaceOf(g)[1]
    PROVE  /\ Len(PlaceOf(f)) > 1 <=> Len(PlaceOf(g)) > 1
           /\ Len(PlaceOf(f)) > 1 => (PlaceOf(f)[2] \in Digits <=> PlaceOf(g)[2] \in Digits)
<1>1. f \in Fields /\ g \in Fields /\ sent \in SUBSET Fields /\ Consistent(sent) /\ NoClash
  BY DEF Arrived, TypeOK
<1>2. /\ f.path \in Paths /\ Len(f.path) \in Nat \ {0}
      /\ g.path \in Paths /\ Len(g.path) \in Nat \ {0}
  BY <1>1, FieldType
<1>3. ASSUME NEW h \in {f, g}
      PROVE  /\ Len(PlaceOf(h)) \in Nat \ {0}
             /\ ~Inner(h) => PlaceOf(h) = h.path
             /\ Inner(h) => /\ Len(PlaceOf(h)) = Len(h.path) - 1
                            /\ PlaceOf(h)[1] = h.path[2]
                            /\ Len(PlaceOf(h)) > 1 => PlaceOf(h)[2] = h.path[3]
                            /\ h.path[1] = "parameters"
  <2>1. /\ Len(PlaceOf(h)) \in Nat \ {0}
        /\ ~Inner(h) => PlaceOf(h) = h.path
        /\ Inner(h) => /\ Len(PlaceOf(h)) = Len(h.path) - 1
                       /\ \A j \in 1..Len(PlaceOf(h)) : PlaceOf(h)[j] = h.path[j + 1]
    BY <1>1, PlaceType
  <2>2. 1 \in 1..Len(PlaceOf(h)) /\ (Len(PlaceOf(h)) > 1 => 2 \in 1..Len(PlaceOf(h))) BY <2>1
  <2>3. Inner(h) => PlaceOf(h)[1] = h.path[1 + 1] BY <2>1, <2>2
  <2>4. Inner(h) /\ Len(PlaceOf(h)) > 1 => PlaceOf(h)[2] = h.path[2 + 1] BY <2>1, <2>2
  <2> QED BY <2>1, <2>3, <2>4 DEF Inner
<1>4. Inner(f) <=> Inner(g) BY <1>1, <1>3 DEF NoClash
<1>5. Agree(f.path, g.path) /\ Agree(g.path, f.path) BY <1>1 DEF Consistent
<1>6. CASE ~Inner(f)
  <2>1. PlaceOf(f) = f.path /\ PlaceOf(g) = g.path BY <1>3, <1>4, <1>6
  <2>2. f.path[1] = g.path[1] BY <2>1
  <2>3. Len(f.path) > 1 <=> Len(g.path) > 1 BY <1>2, <1>5, <2>2 DEF Agree, Leads
  <2>4. ASSUME Len(f.path) > 1 PROVE f.path[2] \in Digits <=> g.path[2] \in Digits
    <3>1. 2 \in 1..Len(f.path) /\ 2 <= Len(g.path) /\ 2 > 1 BY <1>2, <2>3, <2>4
    <3>2. \A j \in 1..(2 - 1) : f.path[j] = g.path[j] BY <2>2
    <3> QED BY <1>5, <3>1, <3>2 DEF Agree
  <2> QED BY <2>1, <2>3, <2>4
<1>7. CASE Inner(f)
  <2>1. /\ f.path[1] = g.path[1] /\ f.path[2] = g.path[2] /\ Len(f.path) > 1 /\ Len(g.path) > 1
    BY <1>2, <1>3, <1>4, <1>7
  <2>2. \A j \in 1..(3 - 1) : f.path[j] = g.path[j]
    <3>1. \A j \in 1..(3 - 1) : j = 1 \/ j = 2 OBVIOUS
    <3> QED BY <2>1, <3>1
  <2>3. Len(f.path) > 2 <=> Len(g.path) > 2
    <3>1. Len(f.path) = 2 => \A j \in 1..Len(f.path) : f.path[j] = g.path[j] BY <2>2
    <3>2. Len(g.path) = 2 => \A j \in 1..Len(g.path) : f.path[j] = g.path[j] BY <2>2
    <3>3. ~Leads(f.path, g.path) /\ ~Leads(g.path, f.path) BY <1>5 DEF Agree
    <3> QED BY <1>2, <2>1, <3>1, <3>2, <3>3 DEF Leads
  <2>4. ASSUME Len(f.path) > 2 PROVE f.path[3] \in Digits <=> g.path[3] \in Digits
    <3>1. 3 \in 1..Len(f.path) /\ 3 <= Len(g.path) /\ 3 > 1 BY <1>2, <2>3, <2>4
    <3> QED BY <1>5, <2>2, <3>1 DEF Agree
  <2> QED BY <1>2, <1>3, <1>4, <1>7, <2>3, <2>4
<1> QED BY <1>6, <1>7

(* A top name that can count is there for the fields that lie under it.                  *)
LEMMA NamedByAField ==
    ASSUME Arrived, NEW k, Ordinary(Top(k)), k \notin Range(SecretKeys)
    PROVE  /\ Has(k) => \E f \in sent : PlaceOf(f)[1] = k
           /\ Given(k) <=> \E f \in TellingFields : PlaceOf(f)[1] = k
           /\ Given(k) /\ tree[Top(k)].kind # "value" =>
                  \E f \in sent : PlaceOf(f)[1] = k /\ Len(PlaceOf(f)) > 1
           /\ \A f \in sent : PlaceOf(f)[1] = k /\ Len(PlaceOf(f)) > 1 =>
                  Has(k) /\ tree[Top(k)].kind \in {"dict", KindAt(PlaceOf(f), 1)}
<1> DEFINE n == Top(k)
<1>1. n # <<>> /\ Len(n) = 1 /\ n[1] = k /\ ~Hides(n) BY DEF Top, Hides
<1>2. /\ DOMAIN tree \subseteq Paths /\ sent \subseteq Fields
      /\ \A f \in sent : PlaceOf(f) \in Paths /\ Len(PlaceOf(f)) \in Nat \ {0}
  BY PlaceType DEF Arrived, TypeOK
<1>0. \A f \in sent : Len(PlaceOf(f)) = 1 \/ Len(PlaceOf(f)) > 1 BY <1>2, OneOrMore
<1>3. ASSUME NEW f \in sent, PlaceOf(f)[1] = k
      PROVE  /\ n \in DOMAIN tree
             /\ Len(PlaceOf(f)) = 1 => n = PlaceOf(f) /\ tree[n] = Leaf(f.value)
  <2> DEFINE p == PlaceOf(f)
  <2>1. p \in Paths /\ Len(p) \in Nat \ {0} /\ p[1] = k BY <1>2, <1>3
  <2> HIDE DEF p
  <2>2. 1 \in 0..Len(p) /\ 1 \in 1..Len(p) BY <2>1
  <2>3. Prefix(p, 1) \in Paths /\ Len(Prefix(p, 1)) = 1 /\ Prefix(p, 1)[1] = k
    <3>1. \A j \in 1..1 : Prefix(p, 1)[j] = p[j] BY <2>1, <2>2, PrefixType
    <3>2. 1 \in 1..1 OBVIOUS
    <3> QED BY <2>1, <2>2, <3>1, <3>2, PrefixType
  <2>4. Prefix(p, 1) = n BY <2>3 DEF Top, Paths
  <2>5. Ordinary(p) BY <1>1, <2>1 DEF Ordinary
  <2>6. /\ Prefix(p, 1) \in DOMAIN tree
        /\ Hides(p) \/ tree[p] = Leaf(f.value)
    BY <2>2, <2>5 DEF Arrived, PlacedFields, p
  <2>7. ASSUME Len(p) = 1 PROVE n = p /\ tree[p] = Leaf(f.value)
    <3>1. p = n BY <2>1, <2>7 DEF Top, Paths
    <3> QED BY <1>1, <2>6, <3>1
  <2> QED BY <2>4, <2>6, <2>7 DEF p
<1>4. ASSUME n \in DOMAIN tree
      PROVE  \E f \in sent : PlaceOf(f)[1] = k /\ Ready(tree, n, PlaceOf(f))
  <2>1. PICK f \in sent : Near(n, PlaceOf(f)) /\ Ready(tree, n, PlaceOf(f))
    BY <1>1, <1>4 DEF Arrived, PlacedNodes
  <2>2. n \in Paths /\ PlaceOf(f) \in Paths BY <1>2, <1>4
  <2> QED BY <1>1, <2>1, <2>2, NearFirst
<1>5. Has(k) <=> n \in DOMAIN tree BY DEF Has
<1>6. Given(k) <=> n \in DOMAIN tree /\ tree[n] # Leaf(NoValue) BY DEF Given, Has
<1> HIDE DEF n
<1>7. ASSUME NEW f \in sent, PlaceOf(f)[1] = k, Len(PlaceOf(f)) > 1
      PROVE  n \in DOMAIN tree /\ tree[n].kind \in {"dict", KindAt(PlaceOf(f), 1)}
             /\ tree[n].kind \in {"list", "dict"}
  <2>1. n \in DOMAIN tree BY <1>3, <1>7
  <2>2. PICK g \in sent : PlaceOf(g)[1] = k /\ Ready(tree, n, PlaceOf(g)) BY <1>4, <2>1
  <2>3. /\ Len(PlaceOf(g)) > 1
        /\ PlaceOf(f)[2] \in Digits <=> PlaceOf(g)[2] \in Digits
    BY <1>7, <2>2, PlacesAgree
  <2>4. KindAt(PlaceOf(g), 1) = KindAt(PlaceOf(f), 1) /\ KindAt(PlaceOf(f), 1) \in {"list", "dict"}
    BY <1>2, <1>7, <2>3 DEF KindAt
  <2> QED BY <1>1, <1>2, <2>1, <2>2, <2>3, <2>4 DEF Ready
<1>8. ASSUME NEW f \in TellingFields, PlaceOf(f)[1] = k PROVE Given(k)
  <2>1. f \in sent /\ (f.value # NoValue \/ Len(PlaceOf(f)) > 1) BY DEF TellingFields
  <2>2. CASE Len(PlaceOf(f)) > 1
    <3>1. tree[n] # Leaf(NoValue) BY <1>7, <1>8, <2>1, <2>2 DEF Leaf
    <3> QED BY <1>3, <1>6, <1>8, <2>1, <3>1
  <2>3. CASE ~(Len(PlaceOf(f)) > 1)
    <3>1. Len(PlaceOf(f)) = 1 BY <1>0, <2>1, <2>3
    <3>2. tree[n] = Leaf(f.value) /\ f.value # NoValue BY <1>3, <1>8, <2>1, <2>3, <3>1
    <3> QED BY <1>3, <1>6, <1>8, <2>1, <3>2 DEF Leaf
  <2> QED BY <2>2, <2>3
<1>9. ASSUME Given(k) PROVE \E f \in TellingFields : PlaceOf(f)[1] = k
  <2>1. PICK f \in sent : PlaceOf(f)[1] = k BY <1>4, <1>6, <1>9
  <2>2. f \in TellingFields
    <3>1. CASE Len(PlaceOf(f)) > 1 BY <3>1 DEF TellingFields
    <3>2. CASE ~(Len(PlaceOf(f)) > 1)
      <4>1. Len(PlaceOf(f)) = 1 BY <1>0, <3>2
      <4> QED BY <1>3, <1>6, <1>9, <2>1, <4>1 DEF TellingFields
    <3> QED BY <3>1, <3>2
  <2> QED BY <2>1, <2>2
<1>10. ASSUME Given(k), tree[n].kind # "value"
       PROVE  \E f \in sent : PlaceOf(f)[1] = k /\ Len(PlaceOf(f)) > 1
  <2>1. PICK f \in sent : PlaceOf(f)[1] = k BY <1>4, <1>6, <1>10
  <2>2. CASE Len(PlaceOf(f)) = 1
    <3>1. tree[n] = Leaf(f.value) BY <1>3, <2>1, <2>2
    <3> QED BY <1>10, <3>1 DEF Leaf
  <2>3. CASE Len(PlaceOf(f)) > 1 BY <2>1, <2>3
  <2> QED BY <1>0, <2>2, <2>3
<1> QED BY <1>4, <1>5, <1>7, <1>8, <1>9, <1>10 DEF n

LEMMA ItemNamesAreOrdinary ==
    ASSUME NEW k \in ItemNames \cup IdLike
    PROVE  Ordinary(Top(k)) /\ k \notin Range(SecretKeys)
<1>1. k # "parameters" BY NamesAssumption DEF ItemNames, RowNames
<1>2. k \notin Digits /\ k \notin Range(SecretKeys) BY NamesAssumption
<1> QED BY <1>1, <1>2 DEF Ordinary, Top

(* Among the names of items only those of the one style are given.                     *)
LEMMA OneStyle ==
    ASSUME Arrived, NEW style \in ItemStyles, Countable(style)
    PROVE  /\ \A k \in RowNames : k # style => ~Given(k) /\ ~Truthy(k)
           /\ style # "product_id" => ~Given("product_id")
           /\ style # "numbered" => \A k \in NumberedIds : ~Given(k)
           /\ \A k \in IdLike : ~Given(k)
           /\ \E f \in TellingFields : Style(PlaceOf(f)) = style
<1>1. /\ {Style(p) : p \in Places} \cap ItemStyles = {style}
      /\ {p[1] : p \in Places} \cap IdLike = {}
  BY DEF Countable
<1>2. Places = {PlaceOf(f) : f \in TellingFields} BY DEF Places, TellingFields
<1>3. ASSUME NEW k \in ItemNames \cup IdLike, Given(k)
      PROVE  \E p \in Places : p[1] = k
  <2>1. Ordinary(Top(k)) /\ k \notin Range(SecretKeys) BY ItemNamesAreOrdinary
  <2>2. PICK f \in TellingFields : PlaceOf(f)[1] = k BY <1>3, <2>1, NamedByAField
  <2> QED BY <1>2, <2>2
<1>4. ASSUME NEW k \in RowNames \cup {"product_id"}, k # style PROVE ~Given(k)
  <2> SUFFICES ASSUME Given(k) PROVE FALSE OBVIOUS
  <2>1. PICK p \in Places : p[1] = k BY <1>3 DEF ItemNames
  <2>2. k \notin NumberedIds BY NamesAssumption
  <2>3. Style(p) = k /\ k \in ItemStyles BY <2>1, <2>2 DEF Style, ItemStyles
  <2> QED BY <1>1, <1>4, <2>3
<1>5. ASSUME NEW k \in NumberedIds, style # "numbered" PROVE ~Given(k)
  <2> SUFFICES ASSUME Given(k) PROVE FALSE OBVIOUS
  <2>1. PICK p \in Places : p[1] = k BY <1>3 DEF ItemNames
  <2>2. Style(p) = "numbered" /\ "numbered" \in ItemStyles BY <2>1 DEF Style, ItemStyles
  <2> QED BY <1>1, <1>5, <2>2
<1>6. \A k \in IdLike : ~Given(k) BY <1>1, <1>3
<1>7. \E f \in TellingFields : Style(PlaceOf(f)) = style BY <1>1, <1>2
<1> QED BY <1>4, <1>5, <1>6, <1>7 DEF Truthy

(* Of the names of rows, in whatever order, the only one that is used comes first.       *)
LEMMA FirstIsTheOnly ==
    ASSUME NEW names \in {<<"rows", "products", "items">>, <<"products", "rows", "items">>},
           NEW style, \A k \in RowNames : k # style => ~Truthy(k)
    PROVE  /\ style \notin RowNames => FirstOf(names) = {}
           /\ style \in RowNames /\ Truthy(style) => FirstOf(names) = {style}
<1>1. DOMAIN names = 1..3 /\ \A i \in 1..3 : names[i] \in RowNames
  <2>1. DOMAIN names = 1..3 OBVIOUS
  <2>2. names[1] \in RowNames /\ names[2] \in RowNames /\ names[3] \in RowNames
    BY DEF RowNames
  <2> QED BY <2>1, <2>2
<1>2. style \in RowNames => \E i \in 1..3 : names[i] = style BY DEF RowNames
<1>3. \A i, j \in 1..3 : names[i] = names[j] => i = j
  <2>1. names[1] # names[2] /\ names[1] # names[3] /\ names[2] # names[3] OBVIOUS
  <2> QED BY <2>1
<1> HIDE DEF RowNames
<1>4. CASE style \notin RowNames BY <1>1, <1>4 DEF FirstOf
<1>5. CASE style \in RowNames /\ Truthy(style)
  <2>1. PICK i \in 1..3 : names[i] = style BY <1>2, <1>5
  <2>2. \A j \in 1..3 : Truthy(names[j]) <=> j = i BY <1>1, <1>3, <1>5, <2>1
  <2>3. \A j \in 1..(i - 1) : ~Truthy(names[j])
    <3>1. \A j \in 1..(i - 1) : j \in 1..3 /\ j # i OBVIOUS
    <3> QED BY <2>2, <3>1
  <2> QED BY <1>1, <2>1, <2>2, <2>3 DEF FirstOf
<1> QED BY <1>4, <1>5

-----------------------------------------------------------------------------
(* Items that are numbered by their names *)

LEMMA NumberedAreCounted ==
    ASSUME Arrived, Countable("numbered")
    PROVE  Cardinality(Items) = Meant("numbered") /\ IncomingCount = Meant("numbered")
<1> DEFINE K == {k \in NumberedIds : Given(k)}
           N == {Top(k) : k \in K}
<1>1. "numbered" \in ItemStyles /\ "numbered" \notin RowNames BY DEF ItemStyles, RowNames
<1>2. /\ \A k \in RowNames : ~Given(k) /\ ~Truthy(k)
      /\ ~Given("product_id") /\ \A k \in IdLike : ~Given(k)
  BY <1>1, OneStyle
<1>3. FirstOf(<<"rows", "products", "items">>) = {} /\ FirstOf(<<"products", "rows", "items">>) = {}
  BY <1>1, <1>2, FirstIsTheOnly
<1>4. Items = N BY <1>2, <1>3 DEF Items
<1>5. IncomingCount = Cardinality(K)
  <2>1. {k \in NumberedIds \cup IdLike : Given(k)} = K BY <1>2
  <2>2. IncomingCount = CountById BY <1>3 DEF IncomingCount
  <2> QED BY <1>2, <2>1, <2>2 DEF CountById
<1>6. K = NumberedIds \cap {p[1] : p \in Places}
  <2>1. \A k \in NumberedIds : Given(k) <=> \E f \in TellingFields : PlaceOf(f)[1] = k
    BY NamedByAField, ItemNamesAreOrdinary DEF ItemNames
  <2>2. Places = {PlaceOf(f) : f \in TellingFields} BY DEF Places, TellingFields
  <2> QED BY <2>1, <2>2
<1>7. IsFiniteSet(K)
  <2>1. IsFiniteSet({PlaceOf(f)[1] : f \in sent}) BY FiniteNames DEF Arrived
  <2>2. K \subseteq {PlaceOf(f)[1] : f \in sent} BY <1>6 DEF Places
  <2> HIDE DEF K
  <2> QED BY <2>1, <2>2, FS_Subset
<1>8. Cardinality(N) = Cardinality(K)
  <2> DEFINE F == [k \in K |-> Top(k)]
  <2>1. F \in [K -> N] OBVIOUS
  <2>2. \A a, b \in K : F[a] = F[b] => a = b BY DEF Top
  <2>3. \A t \in N : \E a \in K : F[a] = t OBVIOUS
  <2> HIDE DEF F, N, K
  <2> QED BY <1>7, <2>1, <2>2, <2>3, SameCount
<1>9. Meant("numbered") = Cardinality(K) BY <1>6 DEF Meant
<1> QED BY <1>4, <1>5, <1>8, <1>9

LEMMA OneIdIsCounted ==
    ASSUME Arrived, Countable("product_id")
    PROVE  Cardinality(Items) = Meant("product_id") /\ IncomingCount = Meant("product_id")
<1>1. "product_id" \in ItemStyles /\ "product_id" \notin RowNames /\ "product_id" # "numbered"
  BY DEF ItemStyles, RowNames
<1>2. /\ \A k \in RowNames : ~Given(k) /\ ~Truthy(k)
      /\ \A k \in NumberedIds : ~Given(k)
  BY <1>1, OneStyle
<1>3. FirstOf(<<"rows", "products", "items">>) = {} /\ FirstOf(<<"products", "rows", "items">>) = {}
  BY <1>1, <1>2, FirstIsTheOnly
<1>4. Given("product_id")
  <2>1. PICK f \in TellingFields : Style(PlaceOf(f)) = "product_id" BY <1>1, OneStyle
  <2>2. PlaceOf(f)[1] = "product_id" BY <1>1, <2>1 DEF Style
  <2> QED BY <2>2, NamedByAField, ItemNamesAreOrdinary DEF ItemNames
<1>5. {Top(k) : k \in {k \in NumberedIds : Given(k)}} = {} BY <1>2
<1>6. Items = {Top("product_id")} BY <1>3, <1>4, <1>5 DEF Items
<1>7. IncomingCount = 1 BY <1>3, <1>4 DEF IncomingCount, CountById
<1>8. Meant("product_id") = 1 BY DEF Meant
<1> QED BY <1>6, <1>7, <1>8, OneThing

(* The fields of rows all go on in the same way below the name of the rows.              *)
LEMMA RowFields ==
    ASSUME Arrived, NEW style \in RowNames, Countable(style)
    PROVE  /\ \E f \in sent : PlaceOf(f)[1] = style
           /\ \A f \in sent : PlaceOf(f)[1] = style =>
                  /\ PlaceOf(f) \in Places /\ PlaceOf(f) \in Paths /\ Len(PlaceOf(f)) > 1
                  /\ Len(PlaceOf(f)) \in Nat
                  /\ PlaceOf(f)[2] \in Digits =>
                         Len(PlaceOf(f)) > 2 /\ KindAt(PlaceOf(f), 2) = "dict"
           /\ \A f, g \in sent : PlaceOf(f)[1] = style /\ PlaceOf(g)[1] = style =>
                  (PlaceOf(f)[2] \in Digits <=> PlaceOf(g)[2] \in Digits)
<1>1. style \in ItemStyles /\ style # "numbered" /\ style \notin NumberedIds
  BY NamesAssumption DEF ItemStyles, RowNames
<1>2. PICK f \in TellingFields : Style(PlaceOf(f)) = style BY <1>1, OneStyle
<1>3. PlaceOf(f)[1] = style /\ f \in sent /\ PlaceOf(f) \in Places
  BY <1>1, <1>2 DEF Style, TellingFields, Places
<1>4. \A p \in Places : p[1] = style =>
          Len(p) > 1 /\ (p[2] \in Digits => Len(p) > 2 /\ p[3] \notin Digits)
  BY <1>1 DEF Countable, Style
<1>5. ASSUME NEW g \in sent, PlaceOf(g)[1] = style
      PROVE  /\ PlaceOf(g) \in Places /\ PlaceOf(g) \in Paths /\ Len(PlaceOf(g)) > 1
             /\ Len(PlaceOf(g)) \in Nat
             /\ PlaceOf(g)[2] \in Digits =>
                    Len(PlaceOf(g)) > 2 /\ KindAt(PlaceOf(g), 2) = "dict"
  <2>1. Len(PlaceOf(g)) > 1 BY <1>3, <1>4, <1>5, PlacesAgree
  <2>2. PlaceOf(g) \in Places BY <2>1 DEF Places
  <2>3. PlaceOf(g) \in Paths /\ Len(PlaceOf(g)) \in Nat BY PlaceType DEF Arrived, TypeOK
  <2>4. PlaceOf(g)[2] \in Digits => Len(PlaceOf(g)) > 2 /\ PlaceOf(g)[3] \notin Digits
    BY <1>4, <1>5, <2>2
  <2> QED BY <2>1, <2>2, <2>3, <2>4 DEF KindAt
<1>6. \A g, h \in sent : PlaceOf(g)[1] = style /\ PlaceOf(h)[1] = style =>
          (PlaceOf(g)[2] \in Digits <=> PlaceOf(h)[2] \in Digits)
  BY <1>5, PlacesAgree
<1> QED BY <1>3, <1>5, <1>6

(* The children of the rows are what their fields name.                               *)
LEMMA RowChildren ==
    ASSUME Arrived, NEW style \in RowNames, Countable(style)
    PROVE  /\ \A f \in sent : PlaceOf(f)[1] = style =>
                  <<style, PlaceOf(f)[2]>> \in Children(Top(style))
           /\ \A m \in Children(Top(style)) : \E f \in sent :
                  /\ m = <<style, m[2]>> /\ m[2] \in Segments /\ PlaceOf(f)[1] = style
                  /\ \/ m[2] = PlaceOf(f)[2]
                     \/ /\ m[2] \in Digits /\ PlaceOf(f)[2] \in Digits
                        /\ Index[m[2]] <= Index[PlaceOf(f)[2]]
                  /\ m[2] \in Digits => tree[m].kind = "dict"
<1> DEFINE n == Top(style)
<1>1. Len(n) = 1 /\ n[1] = style BY DEF Top
<1>2. DOMAIN tree \subseteq Paths BY DEF Arrived, TypeOK
<1>3. Ordinary(Top(style)) /\ style \notin Range(SecretKeys)
  BY ItemNamesAreOrdinary DEF ItemNames
<1> HIDE DEF n
<1>4. ASSUME NEW f \in sent, PlaceOf(f)[1] = style
      PROVE  <<style, PlaceOf(f)[2]>> \in Children(n)
  <2> DEFINE p == PlaceOf(f)
             m == Prefix(p, 2)
  <2>1. p \in Paths /\ Len(p) \in Nat /\ Len(p) > 1 /\ p[1] = style BY <1>4, RowFields
  <2> HIDE DEF p
  <2>2. 2 \in 0..Len(p) /\ 2 \in 1..Len(p) BY <2>1
  <2>3. m \in Paths /\ Len(m) = 2 /\ \A j \in 1..2 : m[j] = p[j] BY <2>1, <2>2, PrefixType
  <2>4. Ordinary(p) BY <1>3, <2>1 DEF Ordinary, Top
  <2>5. m \in DOMAIN tree BY <2>2, <2>4 DEF Arrived, PlacedFields, p
  <2> HIDE DEF m
  <2>6. m[1] = style /\ m[2] = p[2]
    <3>1. 1 \in 1..2 /\ 2 \in 1..2 OBVIOUS
    <3> QED BY <2>1, <2>3, <3>1
  <2>7. m = <<style, p[2]>> BY <2>3, <2>6 DEF Paths
  <2>8. Leads(n, m)
    <3>1. \A j \in 1..1 : j = 1 OBVIOUS
    <3> QED BY <1>1, <2>3, <2>6, <3>1 DEF Leads
  <2>9. m \in Children(n) BY <1>1, <2>3, <2>5, <2>8 DEF Children
  <2> QED BY <2>7, <2>9 DEF p
<1>5. ASSUME NEW m \in Children(n)
      PROVE  \E f \in sent :
                 /\ m = <<style, m[2]>> /\ m[2] \in Segments /\ PlaceOf(f)[1] = style
                 /\ \/ m[2] = PlaceOf(f)[2]
                    \/ /\ m[2] \in Digits /\ PlaceOf(f)[2] \in Digits
                       /\ Index[m[2]] <= Index[PlaceOf(f)[2]]
                 /\ m[2] \in Digits => tree[m].kind = "dict"
  <2>1. m \in DOMAIN tree /\ Len(m) = 2 /\ Leads(n, m) /\ m \in Paths
    BY <1>1, <1>2 DEF Children
  <2>2. m[1] = style
    <3>1. 1 \in 1..Len(n) BY <1>1
    <3> QED BY <1>1, <2>1, <3>1 DEF Leads
  <2>3. m # <<>> /\ Ordinary(m) BY <1>3, <2>1, <2>2 DEF Ordinary, Top
  <2>4. PICK f \in sent : Near(m, PlaceOf(f)) /\ (Hides(m) \/ Ready(tree, m, PlaceOf(f)))
    BY <2>1, <2>3 DEF Arrived, PlacedNodes
  <2>5. PlaceOf(f) \in Paths BY PlaceType DEF Arrived, TypeOK
  <2>6. PlaceOf(f)[1] = style BY <2>1, <2>2, <2>4, <2>5, NearFirst
  <2>7. m = <<style, m[2]>> /\ m[2] \in Segments BY <2>1, <2>2 DEF Paths
  <2>8. \/ m[2] = PlaceOf(f)[2]
        \/ /\ m[2] \in Digits /\ PlaceOf(f)[2] \in Digits
           /\ Index[m[2]] <= Index[PlaceOf(f)[2]]
    BY <2>1, <2>4 DEF Near
  <2>9. ASSUME m[2] \in Digits PROVE tree[m].kind = "dict"
    <3>1. ~Hides(m) BY <2>1, <2>9, NamesAssumption DEF Hides
    <3>2. PlaceOf(f)[2] \in Digits BY <2>8, <2>9
    <3>3. Len(PlaceOf(f)) > 2 /\ KindAt(PlaceOf(f), 2) = "dict" BY <2>6, <3>2, RowFields
    <3> QED BY <2>1, <2>4, <3>1, <3>3 DEF Ready
  <2> QED BY <2>6, <2>7, <2>8, <2>9
<1> QED BY <1>4, <1>5 DEF n

(* The only used name is that of the rows, and both codes look there.                    *)
LEMMA RowsAreFound ==
    ASSUME Arrived, NEW style \in RowNames, Countable(style)
    PROVE  /\ FirstOf(<<"rows", "products", "items">>) = {style}
           /\ FirstOf(<<"products", "rows", "items">>) = {style}
           /\ {k \in NumberedIds : Given(k)} = {}
           /\ \A f \in sent : PlaceOf(f)[1] = style =>
                  tree[Top(style)].kind \in {"dict", KindAt(PlaceOf(f), 1)}
<1>1. style \in ItemStyles /\ style # "numbered" BY DEF ItemStyles, RowNames
<1>2. Ordinary(Top(style)) /\ style \notin Range(SecretKeys)
  BY ItemNamesAreOrdinary DEF ItemNames
<1>3. PICK f \in sent : PlaceOf(f)[1] = style BY RowFields
<1>4. Len(PlaceOf(f)) > 1 BY <1>3, RowFields
<1>5. f \in TellingFields BY <1>4 DEF TellingFields
<1>6. Given(style) BY <1>2, <1>3, <1>5, NamedByAField
<1>7. Children(Top(style)) # {} BY <1>3, RowChildren
<1>8. Truthy(style) BY <1>6, <1>7 DEF Truthy
<1>9. (\A k \in RowNames : k # style => ~Truthy(k)) /\ \A k \in NumberedIds : ~Given(k)
  BY <1>1, OneStyle
<1>10. \A g \in sent : PlaceOf(g)[1] = style =>
           tree[Top(style)].kind \in {"dict", KindAt(PlaceOf(g), 1)}
  BY <1>2, RowFields, NamedByAField
<1> QED BY <1>8, <1>9, <1>10, FirstIsTheOnly

(* Rows by number: as many as there are numbers.                                    *)
LEMMA NumberedRowsAreCounted ==
    ASSUME Arrived, NEW style \in RowNames, Countable(style),
           NEW h \in sent, PlaceOf(h)[1] = style, PlaceOf(h)[2] \in Digits
    PROVE  Cardinality(Items) = Meant(style) /\ IncomingCount = Meant(style)
<1> DEFINE n == Top(style)
           C == Children(n)
<1>1. \A f \in sent : PlaceOf(f)[1] = style => PlaceOf(f)[2] \in Digits BY RowFields
<1>2. \A f \in sent : PlaceOf(f)[1] = style => PlaceOf(f)[2] \in Numbers(style)
  BY <1>1, RowFields DEF Numbers
<1>3. \A s \in Numbers(style) : \E f \in sent : PlaceOf(f)[1] = style /\ s = PlaceOf(f)[2]
  BY DEF Numbers, Places
<1>4. Numbers(style) \subseteq Digits /\ Numbers(style) # {} BY <1>1, <1>2, <1>3
<1>5. \A s \in Numbers(style) : <<style, s>> \in C BY <1>3, RowChildren
<1>6. ASSUME NEW m \in C
      PROVE  m = <<style, m[2]>> /\ m[2] \in Numbers(style) /\ tree[m].kind = "dict"
  <2>1. PICK f \in sent :
            /\ m = <<style, m[2]>> /\ m[2] \in Segments /\ PlaceOf(f)[1] = style
            /\ \/ m[2] = PlaceOf(f)[2]
               \/ /\ m[2] \in Digits /\ PlaceOf(f)[2] \in Digits
                  /\ Index[m[2]] <= Index[PlaceOf(f)[2]]
            /\ m[2] \in Digits => tree[m].kind = "dict"
    BY RowChildren
  <2>2. m[2] \in Digits BY <1>1, <2>1
  <2>3. PlaceOf(f)[2] \in Numbers(style) /\ PlaceOf(f)[2] \in Digits BY <1>1, <1>2, <2>1
  <2>4. Index[m[2]] \in Nat /\ Index[PlaceOf(f)[2]] \in Nat
    BY <2>2, <2>3, BodyAssumption DEF Digits
  <2>5. m[2] \in Numbers(style)
    <3>1. CASE m[2] = PlaceOf(f)[2] BY <2>3, <3>1
    <3>2. CASE Index[m[2]] < Index[PlaceOf(f)[2]] BY <2>2, <2>3, <3>2 DEF Countable
    <3>3. CASE Index[m[2]] = Index[PlaceOf(f)[2]]
      BY <2>2, <2>3, <3>1, <3>3, BodyAssumption DEF Digits
    <3> QED BY <2>1, <2>4, <3>1, <3>2, <3>3
  <2> QED BY <2>1, <2>2, <2>5
<1>7. Cardinality(C) = Cardinality(Numbers(style))
  <2> DEFINE S == Numbers(style)
             F == [s \in S |-> <<style, s>>]
  <2>1. IsFiniteSet(S)
    <3>1. IsFiniteSet({PlaceOf(f)[2] : f \in sent}) BY FiniteNames DEF Arrived
    <3>2. S \subseteq {PlaceOf(f)[2] : f \in sent} BY <1>3
    <3> HIDE DEF S
    <3> QED BY <3>1, <3>2, FS_Subset
  <2>2. F \in [S -> C] BY <1>5
  <2>3. \A a, b \in S : F[a] = F[b] => a = b OBVIOUS
  <2>4. \A t \in C : \E a \in S : F[a] = t BY <1>6
  <2> HIDE DEF F, S, C
  <2>5. Cardinality(C) = Cardinality(S) BY <2>1, <2>2, <2>3, <2>4, SameCount
  <2> QED BY <2>5 DEF S
<1>8. Meant(style) = Cardinality(C)
  <2>1. style # "numbered" /\ style # "product_id" BY DEF RowNames
  <2> QED BY <1>4, <1>7, <2>1 DEF Meant
<1>9. /\ FirstOf(<<"rows", "products", "items">>) = {style}
      /\ FirstOf(<<"products", "rows", "items">>) = {style}
      /\ {k \in NumberedIds : Given(k)} = {}
      /\ tree[n].kind \in {"dict", "list"}
  <2>1. KindAt(PlaceOf(h), 1) \in {"dict", "list"} BY RowFields DEF KindAt
  <2>2. tree[n].kind \in {"dict", KindAt(PlaceOf(h), 1)} BY RowsAreFound
  <2> QED BY <2>1, <2>2, RowsAreFound
<1>10. C # {} BY <1>4, <1>5
<1>11. \A m \in C : Last(m) \in Digits
  <2> TAKE m \in C
  <2>1. m = <<style, m[2]>> /\ m[2] \in Digits BY <1>4, <1>6
  <2>2. Last(m) = m[2] BY <2>1 DEF Last
  <2> QED BY <2>1, <2>2
<1> HIDE DEF C, n
<1>12. Rows(n) = C
  <2>1. {m \in C : tree[m].kind = "dict"} = C BY <1>6
  <2> QED BY <1>9, <1>11, <2>1 DEF Rows, C
<1>13. Items = C
  <2>1. UNION {Rows(Top(name)) : name \in {style}} = C BY <1>12 DEF n
  <2>2. {Top(k) : k \in {k \in NumberedIds : Given(k)}} = {} BY <1>9
  <2> QED BY <1>9, <1>10, <2>1, <2>2 DEF Items
<1>14. IncomingCount = Cardinality(C)
  <2>1. (CHOOSE name \in {style} : TRUE) = style OBVIOUS
  <2> QED BY <1>9, <1>11, <2>1 DEF IncomingCount, C, n
<1> QED BY <1>8, <1>13, <1>14

(* One row that is not in a list.                                                 *)
LEMMA ASingleRowIsCounted ==
    ASSUME Arrived, NEW style \in RowNames, Countable(style),
           NEW h \in sent, PlaceOf(h)[1] = style, PlaceOf(h)[2] \notin Digits
    PROVE  Cardinality(Items) = Meant(style) /\ IncomingCount = Meant(style)
<1> DEFINE n == Top(style)
           C == Children(n)
<1>1. \A f \in sent : PlaceOf(f)[1] = style => PlaceOf(f)[2] \notin Digits BY RowFields
<1>2. Numbers(style) \cap Digits = {} BY <1>1 DEF Numbers, Places
<1>3. Meant(style) = 1
  <2>1. style # "numbered" /\ style # "product_id" BY DEF RowNames
  <2>2. ~(Numbers(style) \subseteq Digits /\ Numbers(style) # {}) BY <1>2
  <2> QED BY <2>1, <2>2 DEF Meant
<1>4. /\ FirstOf(<<"rows", "products", "items">>) = {style}
      /\ FirstOf(<<"products", "rows", "items">>) = {style}
      /\ {k \in NumberedIds : Given(k)} = {}
      /\ tree[n].kind = "dict"
  <2>1. Len(PlaceOf(h)) > 1 /\ Len(PlaceOf(h)) \in Nat BY RowFields
  <2>2. KindAt(PlaceOf(h), 1) = "dict" BY <2>1 DEF KindAt
  <2>3. tree[n].kind \in {"dict", KindAt(PlaceOf(h), 1)} BY RowsAreFound
  <2> QED BY <2>2, <2>3, RowsAreFound
<1>5. <<style, PlaceOf(h)[2]>> \in C BY RowChildren
<1>6. \E m \in C : Last(m) \notin Digits
  <2>1. Last(<<style, PlaceOf(h)[2]>>) = PlaceOf(h)[2] BY DEF Last
  <2> QED BY <1>5, <2>1
<1> HIDE DEF C
<1>7. Rows(n) = {n} BY <1>4, <1>6 DEF Rows, C
<1>8. Items = {n}
  <2>1. UNION {Rows(Top(name)) : name \in {style}} = {n} BY <1>7
  <2>2. {Top(k) : k \in {k \in NumberedIds : Given(k)}} = {} BY <1>4
  <2> HIDE DEF n
  <2> QED BY <1>4, <2>1, <2>2 DEF Items
<1>9. IncomingCount = 1
  <2>1. (CHOOSE name \in {style} : TRUE) = style OBVIOUS
  <2> QED BY <1>4, <1>6, <2>1 DEF IncomingCount, C
<1> QED BY <1>3, <1>8, <1>9, OneThing

(* However the items of a body are named, it is worked out twice that they are as many   *)
(* as the sender means, by the extraction and by the counter.                        *)
THEOREM ItemsAreCounted == Spec => []BothCountsAgree
<1>1. IntakeInv /\ Counting => BothCountsAgree
  <2> SUFFICES ASSUME IntakeInv, Counting, at = "handled", Consistent(sent),
                      NEW style \in ItemStyles, Countable(style)
               PROVE  Cardinality(Items) = Meant(style) /\ IncomingCount = Meant(style)
    BY DEF BothCountsAgree
  <2>1. NoClash BY DEF NoClash, Countable
  <2>2. Arrived BY <2>1 DEF Arrived, Counting, IntakeInv
  <2>3. CASE style \in RowNames
    <3>1. PICK f \in sent : PlaceOf(f)[1] = style BY <2>2, <2>3, RowFields
    <3>2. CASE PlaceOf(f)[2] \in Digits BY <2>2, <2>3, <3>1, <3>2, NumberedRowsAreCounted
    <3>3. CASE PlaceOf(f)[2] \notin Digits BY <2>2, <2>3, <3>1, <3>3, ASingleRowIsCounted
    <3> QED BY <3>2, <3>3
  <2>4. CASE style = "numbered" BY <2>2, <2>4, NumberedAreCounted
  <2>5. CASE style = "product_id" BY <2>2, <2>5, OneIdIsCounted
  <2> QED BY <2>3, <2>4, <2>5 DEF ItemStyles
<1> QED BY <1>1, AlwaysCounting, PTL
=============================================================================
