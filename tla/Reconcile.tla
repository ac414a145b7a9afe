------------------------------- MODULE Reconcile -------------------------------
(***************************************************************************)
(* The quantity path, _reconcile_resolved_bl_product: a stock level received *)
(* for a product is brought to its Discogs listing, which is drafted,        *)
(* reactivated, unlinked, re-linked or created anew; a linked listing that   *)
(* was sold is deleted on the way.  The module starts where FetchProduct     *)
(* (DirectApi) leaves the job, at label loadCurrent.                        *)
(***************************************************************************)
EXTENDS DirectApi

(* The listing the cleanup is about: the linked one, else the webhook's id. *)
CleanupId(w) == IF job[w].cur \in Listings THEN job[w].cur ELSE ItemOf(w).pid

(* Fetches l, cache bypassed; whatever goes wrong, there is no listing.        *)
Load(l, snap) ==
    \/ /\ Fetchable(l)
       /\ snap = listing[l]
       /\ fetched' = fetched \union {l}
       /\ NoFault
    \/ /\ IF Fetchable(l) THEN Fault("fetch") ELSE NoFault
       /\ snap = Absent
       /\ UNCHANGED fetched

(* The linked listing; when there is none, the cleanup listing is loaded next. *)
LoadCurrent(w) ==
    LET j == job[w]
        known == CleanupId(w) \in {j.cur, NoListing}
    IN  /\ pc[w] = "loadCurrent"
        /\ \E snap \in Snapshot :
              /\ Load(j.cur, snap)
              /\ Update(w, [j EXCEPT !.curSnap = snap, !.old = CleanupId(w), !.oldSnap = snap],
                        IF known THEN "decide" ELSE "loadCleanup")
        /\ UNCHANGED <<market, recent, retired, idem, recentOk, deliveries>>

LoadCleanup(w) ==
    /\ pc[w] = "loadCleanup"
    /\ \E snap \in Snapshot :
          Load(job[w].old, snap) /\ Update(w, [job[w] EXCEPT !.oldSnap = snap], "decide")
    /\ UNCHANGED <<market, recent, retired, idem, recentOk, deliveries>>

-----------------------------------------------------------------------------
(* The linked listing is reused: drafted without stock, reactivated with it, *)
(* and otherwise left alone.  A reused listing is its own cleanup listing,    *)
(* so nothing is cleaned up.                                                 *)

(* Slip: a listing is reused only while there is stock. *)
ReusableInStock(w) ==
    pc[w] = "decide" /\ job[w].stocked /\ CandidateAlive(job[w].curSnap, job[w].sku)

Reusable(w) == pc[w] = "decide" /\ CandidateAlive(job[w].curSnap, job[w].sku)

(* Slip: an empty stock level is not acted on. *)
StatusIgnoringZero(w) ==
    IF job[w].curSnap.status = "Draft" THEN "For Sale" ELSE job[w].curSnap.status

StatusFor(w) ==
    LET status == job[w].curSnap.status IN
    IF ~job[w].stocked THEN "Draft" ELSE IF status = "Draft" THEN "For Sale" ELSE status

Acknowledge(w) ==
    /\ Reusable(w)
    /\ StatusFor(w) = job[w].curSnap.status
    /\ Succeed(w, job[w].cur)
    /\ UNCHANGED <<market, caches, bounds>>

EditStatus(w) ==
    LET l == job[w].cur
        edited == [listing EXCEPT ![l].status = StatusFor(w)]
    IN  /\ Reusable(w)
        /\ StatusFor(w) # job[w].curSnap.status
        /\ \/ /\ Editable(l)
              /\ listing' = edited
              /\ fetched' = fetched \ {l}
              /\ Succeed(w, l)
              /\ NoFault
           \/ /\ IF Editable(l) THEN Fault("edit") ELSE NoFault
              /\ listing' \in {listing, IF Editable(l) THEN edited ELSE listing}
              /\ Fail(w)
              /\ UNCHANGED fetched
        /\ UNCHANGED <<removals, link, recent, retired, idem, recentOk, deliveries>>

-----------------------------------------------------------------------------
(* Otherwise the product is linked to another listing, or to none *)

ShouldCreate(w) == job[w].stocked /\ job[w].sku \in InspectedSkus

WantsListing(w) ==
    /\ pc[w] = "decide" /\ ~Reusable(w) /\ ShouldCreate(w)
    /\ Step(w, "decide", "lookupRecent")
    /\ UNCHANGED <<market, caches, job, bounds>>

(* Writes the link unless the product, as fetched, already had it.  A failed  *)
(* call, perhaps applied, fails the item.                                   *)
UpdateLink(w, target, to) ==
    LET j == job[w]
        linked == [link EXCEPT ![j.sku] = target]
    IN  /\ \/ /\ link' = IF j.cur = target THEN link ELSE linked
              /\ Update(w, [j EXCEPT !.new = target], to)
              /\ NoFault
           \/ /\ j.cur # target
              /\ Fault("link")
              /\ link' \in {link, linked}
              /\ Fail(w)
        /\ UNCHANGED <<listing, removals, caches, deliveries>>

LinkZero(w) ==
    /\ pc[w] = "decide" /\ ~Reusable(w) /\ ~ShouldCreate(w)
    /\ UpdateLink(w, ZeroListing, "cleanup")

LinkRecent(w) == pc[w] = "linkRecent" /\ UpdateLink(w, job[w].new, "cleanup")

(* A relist whose link cannot be written fails here: the listing it created   *)
(* is not yet remembered as recent.                                         *)
LinkNew(w) == pc[w] = "linkNew" /\ UpdateLink(w, job[w].new, "cleanupRelist")

-----------------------------------------------------------------------------
(* A linked listing found sold is deleted once the link is settled; the error *)
(* of that call is only reported.                                           *)

(* Slip: the fetched status is not looked at. *)
CleansUpAnything(w) == job[w].old \in Listings /\ job[w].old # job[w].new

CleansUp(w) ==
    /\ job[w].old \in Listings
    /\ job[w].old # job[w].new
    /\ job[w].oldSnap.status = "Sold"

AfterCleanup(w) ==
    \/ pc[w] = "cleanup" /\ Succeed(w, job[w].new)
    \/ pc[w] = "cleanupRelist" /\ Update(w, job[w], "storeRelisted")

NothingToClean(w) ==
    /\ ~CleansUp(w)
    /\ AfterCleanup(w)
    /\ UNCHANGED <<market, caches, bounds>>

(* Deleted, or found already missing: retired either way. *)
CleanUp(w) ==
    LET l == job[w].old IN
    /\ CleansUp(w)
    /\ AfterCleanup(w)
    /\ listing' = IF Fetchable(l) THEN [listing EXCEPT ![l].status = "Gone"] ELSE listing
    /\ fetched' = fetched \ {l}
    /\ retired' = retired \union {l}
    /\ UNCHANGED <<removals, link, recent, idem, recentOk, bounds>>

(* Slip: the listing is marked retired although it could not be deleted. *)
CleanUpFailsRetired(w) ==
    /\ CleansUp(w) /\ Fetchable(job[w].old)
    /\ Fault("delete")
    /\ AfterCleanup(w)
    /\ retired' = retired \union {job[w].old}
    /\ UNCHANGED <<market, recent, fetched, idem, recentOk, deliveries>>

CleanUpFails(w) ==
    /\ CleansUp(w) /\ Fetchable(job[w].old)
    /\ Fault("delete")
    /\ AfterCleanup(w)
    /\ UNCHANGED <<market, caches, deliveries>>

(* Last of all the relist is remembered. *)
StoreRelisted(w) ==
    /\ pc[w] = "storeRelisted"
    /\ recent' = [recent EXCEPT ![job[w].sku] = job[w].new]
    /\ Succeed(w, job[w].new)
    /\ UNCHANGED <<market, retired, fetched, idem, recentOk, bounds>>

ReconcileStep(w) ==
    \/ LoadCurrent(w) \/ LoadCleanup(w)
    \/ Acknowledge(w) \/ EditStatus(w)
    \/ WantsListing(w) \/ LinkZero(w) \/ LinkRecent(w) \/ LinkNew(w)
    \/ NothingToClean(w) \/ CleanUp(w) \/ CleanUpFails(w)
    \/ StoreRelisted(w)
=============================================================================
