----------------------------- MODULE DiscogsOrders -----------------------------
(***************************************************************************)
(* The marketplace orders of Discogs, as far as reading and updating them       *)
(* depends on it: their statuses, when they were last active and in which order  *)
(* the list of them is.  Modules OrderReads and OrderUpdates act on them.       *)
(*                                                                         *)
(* Discogs is not part of the program.  What it does is taken from the requests  *)
(* the clients make: the list is sorted by last activity and cut into pages,     *)
(* an order names the statuses that may follow its own, an edit may be refused.  *)
(***************************************************************************)
EXTENDS Integers, FiniteSets

CONSTANTS
    Orders,
    Statuses,
    NewOrder,      \* the status of a new order
    NextStatus,    \* next_status of an order, by its status; {} where none is named
    MaxTime        \* bound on the clock, in seconds

ASSUME DiscogsAssumption ==
    /\ IsFiniteSet(Orders)
    /\ NewOrder \in Statuses
    /\ NextStatus \in [Statuses -> SUBSET Statuses]
    /\ MaxTime \in Nat

VARIABLES
    now,
    rank,          \* 1 for the order active last, 0 for one not yet placed
    created, changed, status,
    unreported,    \* history: orders whose last change BaseLinker has not been told
    excused        \* history: those of them a failed read may have hidden

orders == <<rank, created, changed, status, unreported, excused>>

Placed == {o \in Orders : rank[o] > 0}

(* Whatever happens to an order makes it the one active last.                   *)
Touch(o) ==
    /\ rank' = [p \in Orders |->
          IF p = o THEN 1
          ELSE IF rank[p] > 0 /\ (rank[o] = 0 \/ rank[p] < rank[o]) THEN rank[p] + 1
          ELSE rank[p]]
    /\ changed' = [changed EXCEPT ![o] = now]
    /\ unreported' = unreported \cup {o}
    /\ excused' = excused \ {o}

SetStatus(o, s) == Touch(o) /\ status' = [status EXCEPT ![o] = s]

PlaceOrder(o) ==
    /\ rank[o] = 0
    /\ SetStatus(o, NewOrder)
    /\ created' = [created EXCEPT ![o] = now]

(* The buyer or the seller acts on an order outside this service.               *)
ActOutside(o, s) ==
    /\ rank[o] > 0
    /\ s \in NextStatus[status[o]] \cup {status[o]}
    /\ SetStatus(o, s)
    /\ UNCHANGED created

DiscogsInit ==
    /\ now = 1
    /\ rank = [o \in Orders |-> 0]
    /\ created = [o \in Orders |-> 0] /\ changed = [o \in Orders |-> 0]
    /\ status = [o \in Orders |-> NewOrder]
    /\ unreported = {} /\ excused = {}

DiscogsStep ==
    /\ \E o \in Orders : PlaceOrder(o) \/ \E s \in Statuses : ActOutside(o, s)
    /\ UNCHANGED now

DiscogsTypeOK ==
    /\ now \in Nat
    /\ rank \in [Orders -> Nat]
    /\ created \in [Orders -> Nat] /\ changed \in [Orders -> Nat]
    /\ status \in [Orders -> Statuses]
    /\ unreported \subseteq Orders /\ excused \subseteq Orders
=============================================================================
