-------------------------------- MODULE Intake --------------------------------
(***************************************************************************)
(* The way of a request into the service: its body is read, its parameters are       *)
(* merged into it, the secret is looked for, and a handler gets what was read.  The   *)
(* routes of /product, /products and /exchange all begin like this.               *)
(*                                                                         *)
(* Left out: the size limit, null in JSON, rows or parameters sent as a string of      *)
(* JSON, and what the actions of a webhook do with the items, which is the subject    *)
(* of InventoryEvents.                                                         *)
(***************************************************************************)
EXTENDS RequestBody, SequencesExt

CONSTANTS
    Requests,      \* what is sent: sets of fields
    Expanded,      \* the fields that some values of "products" are, URL-encoded
    SecretKeys,    \* where a secret may be, in the order in which it is looked for
    Secrets,       \* the allowed ones
    Redacted,
    NoValue,       \* a blank value, or no header
    NumberedIds,   \* product_id1, product_id2 ...
    IdLike         \* every other name that begins with product_id

Flat(fields) == fields \subseteq Fields /\ NoNameTwice(fields) /\ IsFiniteSet(fields)

ASSUME IntakeAssumption ==
    /\ Redacted \notin Secrets /\ NoValue \notin Secrets
    /\ Redacted \in Values
    /\ \A fields \in Requests : Flat(fields)
    /\ \A v \in DOMAIN Expanded : Flat(Expanded[v])

(* The names that mean something are not taken for each other.                       *)
RowNames == {"products", "rows", "items"}
ItemNames == RowNames \cup {"product_id"} \cup NumberedIds
ASSUME NamesAssumption ==
    /\ NumberedIds \cap (RowNames \cup {"product_id", "parameters", "numbered"}) = {}
    /\ (ItemNames \cup IdLike) \cap Digits = {} /\ "parameters" \notin IdLike
    /\ Range(SecretKeys) \cap (ItemNames \cup IdLike \cup Digits) = {}

VARIABLES
    at,            \* how far the request has got
    format,        \* "form", "json", or "none" for no body at all
    header,        \* the secret in a header, NoValue for none
    sent,          \* history: the fields that are sent
    todo,          \* fields still to be read
    later,         \* fields found in one that holds several
    tree           \* the body as read so far

vars == <<at, format, header, sent, todo, later, tree>>

Init ==
    /\ at = "waiting" /\ format = "none" /\ header = NoValue
    /\ sent = {} /\ todo = {} /\ later = {} /\ tree = Empty

Top(name) == <<name>>
Has(name) == Top(name) \in DOMAIN tree
Given(name) == Has(name) /\ tree[Top(name)] # Leaf(NoValue)
Children(n) == {m \in DOMAIN tree : Len(m) = Len(n) + 1 /\ Leads(n, m)}

(* A body of JSON is nested already; numbers may be keys of a dictionary in it.       *)
Nested(fields, numbersAreKeys) ==
    [n \in {<<>>} \cup UNION {{Prefix(f.path, i) : i \in 1..Len(f.path)} : f \in fields} |->
        LET below == {f \in fields : Leads(n, f.path)}
        IN  IF n # <<>> /\ below = {} THEN Leaf((CHOOSE f \in fields : f.path = n).value)
            ELSE IF n # <<>> /\ ~numbersAreKeys /\ \A f \in below : f.path[Len(n) + 1] \in Digits
            THEN Node("list") ELSE Node("dict")]

(* A field "products" may itself be a list of fields.                              *)
Packed(f) == f.path = Top("products") /\ f.value \in DOMAIN Expanded
Plain(fields) == {f \in fields : ~Packed(f)}
Inside(fields) == UNION {Expanded[f.value] : f \in fields \ Plain(fields)}

(* The entry of the payload a field belongs to: of JSON, all of what is nested.         *)
Key(f, form) == IF form = "json" THEN Top(f.path[1]) ELSE f.path

(* What is inside takes the place of an entry of its name, which is read before what   *)
(* is new.                                                                    *)
Early(fields, form) ==
    {f \in Plain(fields) : \A g \in Inside(fields) : g.path # Key(f, form)}
        \cup {g \in Inside(fields) : \E f \in Plain(fields) : g.path = Key(f, form)}

Unpack(fields, form) ==
    /\ format' = form
    /\ later' = Inside(fields) \ Early(fields, form)
    /\ sent' = {f \in Early(fields, form) : \A g \in later' : g.path # f.path} \cup later'
    /\ at' = "reading"

ReceiveJson(fields, numbersAreKeys) ==
    /\ Consistent(fields) /\ Unpack(fields, "json")
    /\ tree' = Nested(Early(fields, "json"), numbersAreKeys)
    /\ UNCHANGED todo

ReceiveForm(fields) ==
    /\ Unpack(fields, "form")
    /\ todo' = Early(fields, "form")
    /\ UNCHANGED tree

ReceiveNothing ==
    /\ format' = "none" /\ at' = "read" /\ UNCHANGED <<sent, todo, later, tree>>

Receive ==
    /\ at = "waiting"
    /\ header' \in Secrets \cup {NoValue, Redacted}
    /\ \/ ReceiveNothing
       \/ \E fields \in Requests :
              \/ ReceiveForm(fields)
              \/ \E keys \in BOOLEAN : ReceiveJson(fields, keys)

Upcoming == IF todo # {} THEN todo ELSE later

(* One turn of the loop of _parse_php_array_notation.                            *)
ReadField ==
    /\ at = "reading"
    /\ \E f \in Upcoming :
           /\ ~Conflict(tree, f.path)
           /\ tree' = Grown(tree, f)
           /\ todo' = todo \ {f} /\ later' = IF todo = {} THEN later \ {f} ELSE later
    /\ UNCHANGED <<at, format, header, sent>>

(* Slip: what was read before the field that cannot be read is kept.               *)
KeepsWhatItHas ==
    /\ at = "reading"
    /\ \E f \in Upcoming : Conflict(tree, f.path)
    /\ todo' = {} /\ later' = {} /\ UNCHANGED tree
    /\ at' = "read"
    /\ UNCHANGED <<format, header, sent>>

(* A field that does not fit raises.  A form is read again, to the same end, and its   *)
(* body is an empty one; JSON is answered with 500.                              *)
FieldDoesNotFit ==
    /\ at = "reading"
    /\ \E f \in Upcoming : Conflict(tree, f.path)
    /\ tree' = Empty /\ todo' = {} /\ later' = {}
    /\ at' = IF format = "form" THEN "read" ELSE "refused"
    /\ UNCHANGED <<format, header, sent>>

AllRead ==
    /\ at = "reading" /\ Upcoming = {}
    /\ at' = "read"
    /\ UNCHANGED <<format, header, sent, todo, later, tree>>

(* What lies under "parameters" also lies at the top, where there is nothing.        *)
Merged ==
    LET Moved == {n \in DOMAIN tree :
                     Len(n) > 1 /\ n[1] = "parameters" /\ ~Has(n[2])}
    IN  [m \in DOMAIN tree \cup {Tail(n) : n \in Moved} |->
            IF m \in DOMAIN tree THEN tree[m] ELSE tree[Top("parameters") \o m]]

MergeParameters ==
    /\ at = "read"
    /\ tree' = IF Has("parameters") /\ tree[Top("parameters")].kind = "dict"
               THEN Merged ELSE tree
    /\ at' = "merged"
    /\ UNCHANGED <<format, header, sent, todo, later>>

(* resolve_secret: the header, or the first name that has something.               *)
SecretSent ==
    LET named == SelectSeq(SecretKeys, Given)
    IN  IF header # NoValue THEN Leaf(header)
        ELSE IF named = <<>> THEN Leaf(NoValue) ELSE tree[Top(Head(named))]

Scrubbed ==
    [n \in DOMAIN tree |->
        IF n # <<>> /\ Last(n) \in Range(SecretKeys)
           /\ ~\E i \in 1..Len(n) - 2 :
                  tree[Prefix(n, i)].kind = "list" /\ tree[Prefix(n, i + 1)].kind = "list"
        THEN Leaf(Redacted) ELSE tree[n]]

(* require_secret: without any allowed secret, everyone may enter.                   *)
MayEnter == Secrets = {} \/ SecretSent \in {Leaf(s) : s \in Secrets}

(* The request passes, the secrets are scrubbed, and a handler is called.          *)
Admit ==
    /\ at = "merged" /\ MayEnter
    /\ tree' = Scrubbed
    /\ at' = "handled"
    /\ UNCHANGED <<format, header, sent, todo, later>>

(* Answered with 401.                                                         *)
Refuse ==
    /\ at = "merged" /\ ~MayEnter
    /\ at' = "refused"
    /\ UNCHANGED <<format, header, sent, todo, later, tree>>

Next ==
    \/ Receive \/ ReadField \/ FieldDoesNotFit \/ AllRead
    \/ MergeParameters \/ Admit \/ Refuse

Spec == Init /\ [][Next]_vars
-----------------------------------------------------------------------------
Truthy(name) ==
    Given(name) /\ (tree[Top(name)].kind = "value" \/ Children(Top(name)) # {})

(* The first of the names under which there is something, if there is one.              *)
FirstOf(names) ==
    {names[i] : i \in {i \in DOMAIN names :
        Truthy(names[i]) /\ \A j \in 1..(i - 1) : ~Truthy(names[j])}}

(* _normalize_sequence: the rows under a name.                                   *)
Rows(n) ==
    LET dicts == {m \in Children(n) : tree[m].kind = "dict"}
    IN  CASE tree[n].kind = "list" -> dicts
          [] tree[n].kind = "dict" ->
                 IF \A m \in Children(n) : Last(m) \in Digits THEN dicts ELSE {n}
          [] OTHER -> {}

(* _extract_quantity_update_items and _extract_price_update_items.               *)
Items ==
    LET rows == UNION {Rows(Top(name)) : name \in FirstOf(<<"rows", "products", "items">>)}
        numbered == {Top(k) : k \in {k \in NumberedIds : Given(k)}}
    IN  IF numbered # {} THEN numbered
        ELSE IF rows # {} THEN rows
        ELSE IF Given("product_id") THEN {Top("product_id")} ELSE {}

CountById ==
    IF Given("product_id") THEN 1 ELSE Cardinality({k \in NumberedIds \cup IdLike : Given(k)})

(* Slip: a dictionary is one item, whatever its keys.                             *)
CountWithoutNumberedKeys ==
    LET lists == {name \in FirstOf(<<"products", "rows", "items">>) : tree[Top(name)].kind = "list"}
        dicts == {name \in FirstOf(<<"products", "rows", "items">>) : tree[Top(name)].kind = "dict"}
    IN  IF lists # {} THEN Cardinality(UNION {Children(Top(name)) : name \in lists})
        ELSE IF dicts # {} THEN 1 ELSE CountById

(* _incoming_webhook_count, of another module, with its own idea of the names.        *)
IncomingCount ==
    LET named == FirstOf(<<"products", "rows", "items">>)
        n == Top(CHOOSE name \in named : TRUE)
        nested == named # {} /\ tree[n].kind \in {"list", "dict"}
    IN  IF ~nested THEN CountById
        ELSE IF tree[n].kind = "list" \/ \A m \in Children(n) : Last(m) \in Digits
        THEN Cardinality(Children(n)) ELSE 1
-----------------------------------------------------------------------------
(* Types.                                                                   *)
TypeOK ==
    /\ at \in {"waiting", "reading", "read", "merged", "handled", "refused"}
    /\ format \in {"form", "json", "none"}
    /\ header \in Secrets \cup {NoValue, Redacted}
    /\ sent \subseteq Fields /\ todo \subseteq Fields /\ later \subseteq Fields
    /\ DOMAIN tree \subseteq Paths /\ \A n \in DOMAIN tree : tree[n] \in Nodes

Open(fields) == {f \in fields : f.path[Len(f.path)] \notin Range(SecretKeys)}

(* The fields that are named alike mean the same in whatever order they come: of a     *)
(* body without contradictions a handler finds every field where its name says,       *)
(* also after the parameters were merged into it.                               *)
ReadInAnyOrder ==
    /\ at = "reading" /\ Consistent(sent) =>
           \A f \in todo \cup later : ~Conflict(tree, f.path)
    /\ at = "handled" /\ Consistent(sent) => Holds(tree, Open(sent))

(* A handler gets all of a body or nothing of it, never the part before the field       *)
(* that could not be read, unless the body names a field within another: there the    *)
(* later one wins.                                                            *)
AllOrNothing ==
    at = "handled" /\ (\A f, g \in sent : ~Leads(f.path, g.path)) =>
        Holds(tree, Open(sent)) \/ tree = Empty

(* Where a field comes to lie, and how the items are named by those that say something. *)
Inner(f) == f.path[1] = "parameters" /\ Len(f.path) > 1
PlaceOf(f) == IF Inner(f) THEN Tail(f.path) ELSE f.path
Places == {PlaceOf(f) : f \in {f \in sent : f.value # NoValue \/ Len(PlaceOf(f)) > 1}}
Style(p) == IF p[1] \in NumberedIds THEN "numbered" ELSE p[1]
ItemStyles == RowNames \cup {"numbered", "product_id"}
Numbers(name) == {p[2] : p \in {q \in Places : q[1] = name /\ Len(q) > 2}}

(* How many items a body means that names them in one way and counts them from 0.      *)
Meant(style) ==
    CASE style = "numbered" -> Cardinality(NumberedIds \cap {p[1] : p \in Places})
      [] style = "product_id" -> 1
      [] OTHER -> IF Numbers(style) \subseteq Digits /\ Numbers(style) # {}
                  THEN Cardinality(Numbers(style)) ELSE 1

(* Rows are dictionaries, and what lies under the parameters is not there twice.        *)
Countable(style) ==
    /\ {Style(p) : p \in Places} \cap ItemStyles = {style}
    /\ {p[1] : p \in Places} \cap IdLike = {}
    /\ \A f, g \in sent : Inner(f) => f.path[2] # g.path[1]
    /\ \A p \in Places : Style(p) \in RowNames =>
           Len(p) > 1 /\ (p[2] \in Digits => Len(p) > 2 /\ p[3] \notin Digits)
    /\ \A s \in Numbers(style) \cap Digits :
           \A d \in Digits : Index[d] < Index[s] => d \in Numbers(style)

(* The items that are extracted and the number that BaseLinker is told are worked out    *)
(* by different code from the same body: both are what the sender means.            *)
BothCountsAgree ==
    at = "handled" /\ Consistent(sent) =>
        \A style \in ItemStyles : Countable(style) =>
            Cardinality(Items) = Meant(style) /\ IncomingCount = Meant(style)
=============================================================================
