------------------------------ MODULE OrderUpdates ------------------------------
(***************************************************************************)
(* Updating orders: sync_order_update_to_discogs of the exchange, which goes     *)
(* through the orders of an update one by one, and orders_status of the           *)
(* connector, which edits an order and then writes to its buyer.                *)
(*                                                                         *)
(* An update is a record: its kind (update_type, or "direct" for orders_status),  *)
(* the status it asks for, whether it carries a tracking number and a comment,    *)
(* and the orders it names, each once.  The wording of messages is left out.     *)
(***************************************************************************)
EXTENDS DiscogsOrders, Sequences

CONSTANTS
    Workers,
    Updates,
    NoStatus,      \* the update asks for no status Discogs has
    Tries,         \* attempts _request makes when no answer comes
    MaxUpdates     \* bound on the updates delivered

Kinds == {"status", "paid", "delivery_number", "other", "direct"}
Update == [kind : Kinds, want : Statuses \cup {NoStatus}, tracking : BOOLEAN,
           comment : BOOLEAN, ids : Seq(Orders)]
NoUpdate == [kind |-> "other", want |-> NoStatus, tracking |-> FALSE, comment |-> FALSE,
             ids |-> <<>>]

ASSUME UpdatesAssumption ==
    /\ NoStatus \notin Statuses
    /\ Updates \subseteq Update
    /\ Tries \in Nat \ {0} /\ MaxUpdates \in Nat

VARIABLES
    pc,            \* "idle", "order", "edit" or "message"
    update,        \* the update each worker is at
    left,          \* the ids it has still to go through
    post,          \* the status its edit sets, NoStatus for tracking alone
    seen,          \* the status it has read
    attempt,       \* of the request it is making
    counted,       \* orders it has processed
    failed,        \* orders it has listed as failed
    taken,         \* updates delivered
    written,       \* history: the orders it has edited and written to
    held           \* history: orders that had the status asked for meanwhile

request == <<post, seen, attempt>>
jobs == <<pc, update, left, request, counted, failed, taken, written>>

Order(w) == Head(left[w])
Ids(u) == {u.ids[i] : i \in 1..Len(u.ids)}

(* What an update asks for: an edit, of the status or of the tracking number, or a  *)
(* message.                                                                 *)
Skipped(u) == u.kind = "other" \/ (u.kind = "paid" /\ u.want = NoStatus) \/ u.ids = <<>>
HasEdit(u) == u.kind # "delivery_number" /\ (u.want # NoStatus \/ u.tracking)
HasMessage(u) ==
    \/ u.kind = "delivery_number" /\ u.tracking
    \/ u.kind = "direct" /\ (u.tracking \/ u.comment)
Checked(u) == u.kind \in {"status", "paid"} /\ u.want # NoStatus
Empty(u) == u.kind # "direct" /\ u.want = NoStatus /\ ~u.tracking /\ ~u.comment

UpdatesInit ==
    /\ pc = [w \in Workers |-> "idle"] /\ update = [w \in Workers |-> NoUpdate]
    /\ left = [w \in Workers |-> <<>>] /\ attempt = [w \in Workers |-> 1]
    /\ post = [w \in Workers |-> NoStatus] /\ seen = [w \in Workers |-> NoStatus]
    /\ counted = [w \in Workers |-> {}] /\ failed = [w \in Workers |-> {}]
    /\ taken = 0
    /\ written = [w \in Workers |-> {}] /\ held = [w \in Workers |-> {}]

Take(w, u) ==
    /\ pc[w] = "idle" /\ taken < MaxUpdates
    /\ taken' = taken + 1
    /\ pc' = [pc EXCEPT ![w] = "order"]
    /\ update' = [update EXCEPT ![w] = u]
    /\ left' = [left EXCEPT ![w] = IF Skipped(u) THEN <<>> ELSE u.ids]
    /\ UNCHANGED <<orders, request, counted, failed, written>>

(* The order is done with, and is listed in the one or the other.                *)
Leave(w, good, bad) ==
    /\ pc' = [pc EXCEPT ![w] = "order"]
    /\ left' = [left EXCEPT ![w] = Tail(@)]
    /\ counted' = [counted EXCEPT ![w] = @ \cup good]
    /\ failed' = [failed EXCEPT ![w] = @ \cup bad]
    /\ post' = [post EXCEPT ![w] = NoStatus]
    /\ attempt' = [attempt EXCEPT ![w] = 1]
    /\ seen' = [seen EXCEPT ![w] = NoStatus]
    /\ UNCHANGED <<update, taken>>

(* A request about the order follows.                                         *)
Turn(w, next, s, current) ==
    /\ pc' = [pc EXCEPT ![w] = next]
    /\ post' = [post EXCEPT ![w] = s]
    /\ seen' = [seen EXCEPT ![w] = current]
    /\ attempt' = [attempt EXCEPT ![w] = 1]
    /\ UNCHANGED <<update, left, counted, failed, taken>>

AtOrder(w) == pc[w] = "order" /\ left[w] # <<>>

(* An order for which there is nothing to send is an error if the update is        *)
(* altogether empty, and is passed over in silence otherwise.                   *)
PassOver(w) ==
    LET u == update[w] IN
    /\ AtOrder(w) /\ ~HasEdit(u) /\ ~HasMessage(u)
    /\ Leave(w, IF u.kind = "direct" THEN {Order(w)} ELSE {}, IF Empty(u) THEN {Order(w)} ELSE {})
    /\ UNCHANGED <<orders, written>>

Proceed(w) ==
    LET u == update[w] IN
    /\ AtOrder(w) /\ ~Checked(u)
    /\ \/ HasEdit(u) /\ Turn(w, "edit", u.want, NoStatus)
       \/ ~HasEdit(u) /\ HasMessage(u) /\ Turn(w, "message", NoStatus, NoStatus)
    /\ UNCHANGED <<orders, written>>

(* Slip: any status is sent that is not the order's already.                     *)
AnyStatus(current, want) == current # want

(* One whose next statuses are known must be led to one of them.                 *)
Allowed(current, want) ==
    current # want /\ (NextStatus[current] = {} \/ want \in NextStatus[current])

(* _prepare_status_edit: an order that has the status already needs no edit, but    *)
(* for a tracking number.                                                    *)
GetOrder(w) ==
    LET u == update[w]
        current == status[Order(w)]
    IN /\ AtOrder(w) /\ Checked(u) /\ rank[Order(w)] > 0
       /\ \/ current = u.want /\ u.tracking /\ Turn(w, "edit", NoStatus, current)
          \/ current = u.want /\ ~u.tracking /\ Leave(w, {Order(w)}, {})
          \/ Allowed(current, u.want) /\ Turn(w, "edit", u.want, current)
          \/ current # u.want /\ ~Allowed(current, u.want) /\ Leave(w, {}, {Order(w)})
       /\ UNCHANGED <<orders, written>>

(* Slip: an order that cannot be read is passed over.                           *)
GetOrderFailsSilently(w) ==
    /\ AtOrder(w) /\ Checked(update[w])
    /\ Leave(w, {}, {})
    /\ UNCHANGED <<orders, written>>

GetOrderFails(w) ==
    /\ AtOrder(w) /\ Checked(update[w])
    /\ Leave(w, {}, {Order(w)})
    /\ UNCHANGED <<orders, written>>

-----------------------------------------------------------------------------
Sending(w) == pc[w] \in {"edit", "message"}

(* What Discogs does when the edit, or the message, reaches it.  Either may set the   *)
(* status.                                                                  *)
Applied(w) ==
    LET o == Order(w) IN
    /\ rank[o] > 0
    /\ SetStatus(o, IF post[w] # NoStatus THEN post[w] ELSE status[o])
    /\ written' = [written EXCEPT ![w] = @ \cup {<<o, pc[w]>>}]
    /\ UNCHANGED created

(* Slip: an order is done with after its edit, whatever becomes of the message.    *)
AcceptedOnce(w) ==
    /\ Sending(w) /\ Applied(w)
    /\ Leave(w, {Order(w)}, {})

(* The request is answered.  After the edit comes the message, if there is one; it   *)
(* names the status once more.                                                *)
Accepted(w) ==
    /\ Sending(w) /\ Applied(w)
    /\ IF pc[w] = "edit" /\ HasMessage(update[w])
       THEN Turn(w, "message", update[w].want, NoStatus)
       ELSE Leave(w, {Order(w)}, {})

(* Slip: there is an attempt after the last.                                    *)
AnotherAttemptLate(w) == attempt[w] <= Tries

AnotherAttempt(w) == attempt[w] < Tries

(* No answer comes, whether or not the request arrived: it is made again, and fails  *)
(* with the last attempt.                                                    *)
Unanswered(w) ==
    /\ Sending(w)
    /\ Applied(w) \/ UNCHANGED <<orders, written>>
    /\ \/ /\ AnotherAttempt(w)
          /\ attempt' = [attempt EXCEPT ![w] = @ + 1]
          /\ UNCHANGED <<pc, update, left, post, seen, counted, failed, taken>>
       \/ ~AnotherAttempt(w) /\ Leave(w, {}, {Order(w)})

(* Discogs refuses the request, for whatever reason; that is not tried again.      *)
Refused(w) ==
    /\ Sending(w)
    /\ Leave(w, {}, {Order(w)})
    /\ UNCHANGED <<orders, written>>

(* The counter goes to BaseLinker; if nothing was processed and something failed,   *)
(* an error does.                                                            *)
Reply(w) ==
    /\ pc[w] = "order" /\ left[w] = <<>>
    /\ pc' = [pc EXCEPT ![w] = "idle"]
    /\ update' = [update EXCEPT ![w] = NoUpdate]
    /\ counted' = [counted EXCEPT ![w] = {}] /\ failed' = [failed EXCEPT ![w] = {}]
    /\ written' = [written EXCEPT ![w] = {}]
    /\ UNCHANGED <<orders, left, request, taken>>

UpdatesStep ==
    \E w \in Workers :
        \/ \E u \in Updates : Take(w, u)
        \/ PassOver(w) \/ Proceed(w) \/ GetOrder(w) \/ GetOrderFails(w)
        \/ Accepted(w) \/ Unanswered(w) \/ Refused(w) \/ Reply(w)

(* The history that watches the orders of each update.                           *)
Observed ==
    [w \in Workers |->
        (IF pc[w] = "idle" THEN {} ELSE held[w])
            \cup {o \in Ids(update'[w]) : status'[o] = update'[w].want}]

UpdatesTypeOK ==
    /\ pc \in [Workers -> {"idle", "order", "edit", "message"}]
    /\ update \in [Workers -> Update]
    /\ left \in [Workers -> Seq(Orders)]
    /\ post \in [Workers -> Statuses \cup {NoStatus}]
    /\ seen \in [Workers -> Statuses \cup {NoStatus}]
    /\ attempt \in [Workers -> 1..Tries]
    /\ counted \in [Workers -> SUBSET Orders] /\ failed \in [Workers -> SUBSET Orders]
    /\ taken \in 0..MaxUpdates
    /\ written \in [Workers -> SUBSET (Orders \X {"edit", "message"})]
    /\ held \in [Workers -> SUBSET Orders]

-----------------------------------------------------------------------------
(* What BaseLinker is told was processed has been done: every order counted had      *)
(* the status asked for while the update was at work, and whatever was to be sent     *)
(* was, though answers get lost and others act on the order in between.           *)
CountedMeansDone ==
    \A w \in Workers : \A o \in counted[w] :
        LET u == update[w] IN
        /\ u.want # NoStatus /\ u.kind # "delivery_number" => o \in held[w]
        /\ u.tracking /\ HasEdit(u) => <<o, "edit">> \in written[w]
        /\ HasMessage(u) => <<o, "message">> \in written[w]

(* No order of an update gets lost: at its end each one is processed or failed,      *)
(* except that an update may hold nothing for Discogs at all.                    *)
EveryOrderAccounted ==
    \A w \in Workers : \A o \in Ids(update[w]) :
        LET u == update[w] IN
        \/ \E i \in 1..Len(left[w]) : left[w][i] = o
        \/ o \in counted[w] \cup failed[w]
        \/ Skipped(u) \/ (~HasEdit(u) /\ ~HasMessage(u))

(* An update delivered late, or twice, does not lead an order where Discogs does not  *)
(* let it go: a status is sent only from one that allows it, unless somebody moved    *)
(* the order after it was read.  Those of orders_status are not checked at all.     *)
StatusesFollow ==
    \A w \in Workers : \A o \in Orders :
        (/\ Sending(w) /\ written'[w] # written[w] /\ o = Order(w)
         /\ update[w].kind # "direct" /\ status'[o] # status[o])
        => \/ status[o] # seen[w]
           \/ NextStatus[status[o]] = {} \/ status'[o] \in NextStatus[status[o]]
=============================================================================
