----------------------------- MODULE Marketplaces -----------------------------
(***************************************************************************)
(* The state the webhook service works on: the Discogs listings, the shop   *)
(* link BaseLinker keeps for each product, the service's process-local      *)
(* caches, and one job record per worker thread.  The marketplaces'         *)
(* operations are the outcomes the client methods can return; the worker    *)
(* modules DirectApi, Reconcile and InventoryEvents call them.              *)
(*                                                                         *)
(* A BaseLinker product is identified with its SKU.  Prices and stock are   *)
(* kept as far as the code branches on them: positive or not.               *)
(***************************************************************************)
EXTENDS Naturals, Sequences, FiniteSets

CONSTANTS
    Workers,            \* threads of the pool that runs handle_inventory_action
    Listings,           \* Discogs listing ids, used and still unused
    Skus,               \* SKUs, each one BaseLinker product
    Keys,               \* explicit idempotency keys
    Requests,           \* the webhook bodies BaseLinker may send
    NoListing,          \* the empty listing id ""
    ZeroListing,        \* the listing id "0" a link is reset to
    NoSku, NoKey,       \* the empty SKU, the absent idempotency key
    NoResult,           \* no cached result
    InspectedSkus,      \* products tagged "inspected"
    PricedSkus,         \* products whose BaseLinker price is positive
    DirectApiThreshold, \* largest batch of deletes sent one by one
    StartListing,       \* Discogs when the service starts
    StartLink,          \* BaseLinker's links when the service starts
    Faults,             \* the kinds of fault that may happen
    MaxFaults,          \* bound: faults in a behaviour
    MaxDeliveries       \* bound: webhook deliveries in a behaviour

Live == {"For Sale", "Draft", "Expired"}
Existing == Live \union {"Sold"}
Statuses == Existing \union {"Unused", "Gone"}
Kinds == {"add", "delete", "quantity", "price"}

ListingState == [status : Statuses, sku : Skus \union {NoSku}, priced : BOOLEAN]
Unused == [status |-> "Unused", sku |-> NoSku, priced |-> FALSE]

(* What a fetch returns; Absent when there was nothing to fetch or the fetch failed. *)
Snapshot == [status : Existing \union {"None"}, sku : Skus \union {NoSku}, priced : BOOLEAN]
Absent == [status |-> "None", sku |-> NoSku, priced |-> FALSE]

Link == Listings \union {NoListing, ZeroListing}

Item == [pid : Listings \union {NoListing}, sku : Skus \union {NoSku},
         stocked : BOOLEAN, priced : BOOLEAN]
Request == [kind : Kinds, batch : Seq(Item), key : Keys \union {NoKey},
            force : BOOLEAN, mapped : BOOLEAN]
Result == [status : {"OK", "QUEUED"}, reason : {"", "no_rows", "discogs_error"},
           first : Link, req : Requests]

ASSUME ConstantsAssumption ==
    /\ NoListing \notin Listings /\ ZeroListing \notin Listings
    /\ NoListing # ZeroListing
    /\ NoSku \notin Skus /\ NoKey \notin Keys
    /\ NoResult \notin Result
    /\ Requests \subseteq Request
    /\ InspectedSkus \subseteq Skus /\ PricedSkus \subseteq Skus
    /\ MaxFaults \in Nat /\ MaxDeliveries \in Nat /\ DirectApiThreshold \in Nat

(* The service starts on a marketplace its own rules describe: a linked      *)
(* listing is one of the linked product.                                    *)
ASSUME StartAssumption ==
    /\ StartListing \in [Listings -> ListingState]
    /\ \A l \in Listings : StartListing[l].status # "Unused" => StartListing[l].sku \in Skus
    /\ StartLink \in [Skus -> Link]
    /\ \A s \in Skus : StartLink[s] \in Listings =>
          /\ StartListing[StartLink[s]].sku = s
          /\ StartListing[StartLink[s]].status # "Unused"

VARIABLES
    listing,     \* Discogs: the state of each listing id
    removals,    \* Discogs: listings named by an uploaded delete CSV not yet applied
    link,        \* BaseLinker: the listing each product is linked to
    recent,      \* cache discogs-recent-listing-by-sku
    retired,     \* cache discogs-retired-listing
    fetched,     \* cache discogs-listing (only the SKU in it is ever read)
    idem,        \* cache idempotency
    recentOk,    \* cache inventory-success
    pc,          \* the step each worker is at
    job,         \* the locals of the request each worker serves
    faults,      \* faults so far
    deliveries   \* deliveries so far

market == <<listing, removals, link>>
caches == <<recent, retired, fetched, idem, recentOk>>
bounds == <<faults, deliveries>>
vars == <<market, caches, pc, job, bounds>>

-----------------------------------------------------------------------------
(* Jobs *)

Labels == {"idle", "recentSuccess", "idempotency", "item", "fetchProduct",
           "change", "changeFetch", "changeEdit", "loadCurrent", "loadCleanup",
           "decide", "lookupRecent", "fetchRecent", "create", "storeRecent",
           "addLink", "linkRecent", "linkNew", "cleanup", "cleanupRelist",
           "storeRelisted", "storeResult", "storeRecentSuccess", "reply"}

NoRequest == [kind |-> "add", batch |-> <<>>, key |-> NoKey, force |-> FALSE, mapped |-> FALSE]

(* The locals of an item not yet begun. *)
FreshJob(req, i) ==
    [req |-> req, i |-> i, sku |-> NoSku, cur |-> NoListing, curSnap |-> Absent,
     old |-> NoListing, oldSnap |-> Absent, new |-> NoListing, stocked |-> FALSE,
     ok |-> 0, bad |-> 0, first |-> NoListing, res |-> NoResult]

Job == [req : Requests \union {NoRequest}, i : Nat \ {0}, sku : Skus \union {NoSku},
        cur : Link, curSnap : Snapshot, old : Link, oldSnap : Snapshot, new : Link,
        stocked : BOOLEAN, ok : Nat, bad : Nat, first : Link,
        res : Result \union {NoResult}]

IdleJob == FreshJob(NoRequest, 1)

HasItem(w) == job[w].i <= Len(job[w].req.batch)
ItemOf(w) == job[w].req.batch[job[w].i]
KindOf(w) == job[w].req.kind

Step(w, from, to) == pc[w] = from /\ pc' = [pc EXCEPT ![w] = to]

(* Slip: an item that failed is counted nowhere. *)
FinishUncounted(w, good, lid) ==
    /\ pc' = [pc EXCEPT ![w] = "item"]
    /\ job' = [job EXCEPT ![w] =
                 [FreshJob(@.req, @.i + 1) EXCEPT !.ok = IF good THEN job[w].ok + 1 ELSE job[w].ok,
                                                  !.bad = job[w].bad]]

(* The item is finished: counted under results (good) or under errors.       *)
Finish(w, good, lid) ==
    /\ pc' = [pc EXCEPT ![w] = "item"]
    /\ LET j == job[w] IN
       job' = [job EXCEPT ![w] =
                 [FreshJob(j.req, j.i + 1) EXCEPT
                    !.ok = IF good THEN j.ok + 1 ELSE j.ok,
                    !.bad = IF good THEN j.bad ELSE j.bad + 1,
                    !.first = IF j.first = NoListing /\ good THEN lid ELSE j.first]]

(* Slip: an item that failed is tried again, for ever. *)
FailAgain(w) ==
    /\ pc' = [pc EXCEPT ![w] = "item"]
    /\ job' = [job EXCEPT ![w] = [FreshJob(@.req, @.i) EXCEPT !.ok = job[w].ok, !.bad = job[w].bad]]

Succeed(w, lid) == Finish(w, TRUE, lid)
Fail(w) == Finish(w, FALSE, NoListing)

(* One fault of the given kind happens; no fault happens.                    *)
Fault(kind) == kind \in Faults /\ faults < MaxFaults /\ faults' = faults + 1
NoFault == faults' = faults

-----------------------------------------------------------------------------
(* Discogs and BaseLinker, as the service's clients see them *)

IsListing(l) == l \in Listings
StatusOf(l) == listing[l].status

SetStatus(l, status) == listing' = [listing EXCEPT ![l].status = status]

(* GET of a listing: the listing itself, a 404 for one that is gone. *)
Fetchable(l) == IsListing(l) /\ StatusOf(l) \in Existing

(* POST of a new listing under an id Discogs has not used yet.  The pool of
   ids is a bound of the model, so creation fails when it is exhausted. *)
UnusedIds == {l \in Listings : StatusOf(l) = "Unused"}
FreshId == CHOOSE l \in UnusedIds : TRUE
Created(sku, status, priced) ==
    /\ UnusedIds # {}
    /\ listing' = [listing EXCEPT ![FreshId] =
                      [status |-> status, sku |-> sku, priced |-> priced]]

(* POST to an existing listing: refused unless it can still be modified. *)
Editable(l) == IsListing(l) /\ StatusOf(l) \in Live

-----------------------------------------------------------------------------
(* The world the service does not control *)

(* A buyer orders a listing that is for sale. *)
Purchase(l) ==
    /\ StatusOf(l) = "For Sale"
    /\ SetStatus(l, "Sold")
    /\ UNCHANGED <<removals, link, caches, pc, job, bounds>>

(* A listing offered too long expires. *)
Expire(l) ==
    /\ Fault("expire")
    /\ StatusOf(l) = "For Sale"
    /\ SetStatus(l, "Expired")
    /\ UNCHANGED <<removals, link, caches, pc, job, deliveries>>

(* The seller removes a listing on the Discogs site. *)
Withdraw(l) ==
    /\ Fault("withdraw")
    /\ StatusOf(l) \in Existing
    /\ SetStatus(l, "Gone")
    /\ UNCHANGED <<removals, link, caches, pc, job, deliveries>>

(* Discogs works through an uploaded delete CSV. *)
ApplyRemoval(l) ==
    /\ l \in removals
    /\ removals' = removals \ {l}
    /\ listing' = IF StatusOf(l) \in Existing
                  THEN [listing EXCEPT ![l].status = "Gone"] ELSE listing
    /\ UNCHANGED <<link, caches, pc, job, bounds>>

(* An entry of the shared TTL cache expires or is evicted.  Results live ten   *)
(* minutes, what is known of listings up to a week, so the two are told apart. *)
ForgetResult ==
    /\ Fault("forgetResult")
    /\ \/ \E t \in DOMAIN idem : /\ idem[t] # NoResult
                                 /\ idem' = [idem EXCEPT ![t] = NoResult]
                                 /\ UNCHANGED recentOk
       \/ \E t \in DOMAIN recentOk : /\ recentOk[t] # NoResult
                                     /\ recentOk' = [recentOk EXCEPT ![t] = NoResult]
                                     /\ UNCHANGED idem
    /\ UNCHANGED <<market, recent, retired, fetched, pc, job, deliveries>>

ForgetListing ==
    /\ Fault("forgetListing")
    /\ \/ \E s \in Skus : /\ recent[s] # NoListing
                          /\ recent' = [recent EXCEPT ![s] = NoListing]
                          /\ UNCHANGED <<retired, fetched>>
       \/ \E l \in retired : /\ retired' = retired \ {l}
                             /\ UNCHANGED <<recent, fetched>>
       \/ \E l \in fetched : /\ fetched' = fetched \ {l}
                             /\ UNCHANGED <<recent, retired>>
    /\ UNCHANGED <<market, idem, recentOk, pc, job, deliveries>>

World ==
    \/ \E l \in Listings : Purchase(l) \/ Expire(l) \/ Withdraw(l) \/ ApplyRemoval(l)
    \/ ForgetResult \/ ForgetListing
=============================================================================
