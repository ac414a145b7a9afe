------------------------------- MODULE OrderReads -------------------------------
(***************************************************************************)
(* Reading orders: OrdersGet of the exchange and OrdersList of the connector.    *)
(* BaseLinker asks again and again for what changed since its last poll, page     *)
(* by page, while orders are placed, paid, shipped and written to.              *)
(*                                                                         *)
(* How BaseLinker polls is external: each poll asks for the changes since the     *)
(* start of the one before, and for as many pages as the last answer names.      *)
(* Left out: the mapping of an order, the release details added to it, and the    *)
(* grace marks of sold listings, which no caller of today's cleanup looks at.     *)
(***************************************************************************)
EXTENDS DiscogsOrders

CONSTANTS
    PageSize,
    Lookback       \* _ORDER_UPDATE_LOOKBACK_SECONDS

ASSUME ReadsAssumption == PageSize \in Nat \ {0} /\ Lookback \in Nat

VARIABLES
    polling,       \* a poll is in progress
    cutoff,        \* time_from of the poll, the start of the one before
    start,         \* when the poll, or the last one, started
    page           \* the page it asks for next

reads == <<polling, cutoff, start, page>>

(* created_after reaches back behind the cutoff, for older orders that changed.   *)
CreatedAfter == IF cutoff > Lookback THEN cutoff - Lookback ELSE 0
Listed == {o \in Placed : created[o] >= CreatedAfter}

(* Slip: the orders that were active last come last.                            *)
PositionAscending(o) == Cardinality({p \in Listed : rank[p] >= rank[o]})

(* The place of an order in the list sorted by last_activity, descending.        *)
Position(o) == Cardinality({p \in Listed : rank[p] <= rank[o]})

OnPage(o) == Position(o) > (page - 1) * PageSize /\ Position(o) <= page * PageSize

InWindow(o) == changed[o] >= cutoff

BeginPoll ==
    /\ ~polling
    /\ polling' = TRUE
    /\ cutoff' = start /\ start' = now /\ page' = 1
    /\ UNCHANGED orders

(* One page: listed by Discogs, filtered by the time of the last change.  The     *)
(* last page is the one Discogs says is the last, at least one.                 *)
OrdersList ==
    /\ polling
    /\ unreported' = unreported \ {o \in Listed : OnPage(o) /\ InWindow(o)}
    /\ polling' = (Cardinality(Listed) > page * PageSize)
    /\ page' = IF polling' THEN page + 1 ELSE 1
    /\ UNCHANGED <<rank, created, changed, status, excused, cutoff, start>>

(* A read that fails is answered like an empty list of one page.                *)
OrdersListFails ==
    /\ polling
    /\ polling' = FALSE /\ page' = 1
    /\ excused' = excused \cup unreported
    /\ UNCHANGED <<rank, created, changed, status, unreported, cutoff, start>>

(* A single order, by its id.                                                *)
OrdersGet(o) ==
    /\ rank[o] > 0
    /\ unreported' = unreported \ {o}
    /\ UNCHANGED <<rank, created, changed, status, excused, reads>>

ReadsInit ==
    /\ polling = FALSE /\ cutoff = 1 /\ start = 1 /\ page = 1

ReadsStep ==
    /\ BeginPoll \/ OrdersList \/ OrdersListFails \/ \E o \in Orders : OrdersGet(o)
    /\ UNCHANGED now

ReadsTypeOK ==
    /\ polling \in BOOLEAN
    /\ cutoff \in Nat /\ start \in Nat /\ cutoff <= start /\ start <= now
    /\ page \in Nat \ {0}

-----------------------------------------------------------------------------
(* An order that changes long after it was placed falls out of the lookback.      *)
TooOld(o) == changed[o] > created[o] + Lookback

(* No change is ever lost between two polls or two pages: of an order BaseLinker  *)
(* has not been told about since it last changed, a later page of this poll or    *)
(* the next poll will tell, however the pages shift under the poll's feet.        *)
NothingMissed ==
    \A o \in unreported :
        \/ o \in excused \/ TooOld(o)
        \/ changed[o] >= start
        \/ polling /\ changed[o] >= cutoff /\ Position(o) > (page - 1) * PageSize
=============================================================================
