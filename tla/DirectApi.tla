------------------------------- MODULE DirectApi -------------------------------
(***************************************************************************)
(* The item-by-item Discogs operations of _process_via_direct_api: adding a *)
(* listing and linking it back, changing a price, deleting a listing; and   *)
(* the steps shared with the quantity path (Reconcile): resolving the       *)
(* BaseLinker product, and looking up a recently created listing.  One      *)
(* action per remote call; what the code does in memory between two calls   *)
(* belongs to the action of the call before it.                             *)
(***************************************************************************)
EXTENDS Marketplaces

InBatch(w, kinds) == pc[w] = "item" /\ KindOf(w) \in kinds /\ HasItem(w)

Update(w, j, to) ==
    /\ job' = [job EXCEPT ![w] = j]
    /\ pc' = [pc EXCEPT ![w] = to]

(* Slip: only a listing on sale counts, a draft does not. *)
CandidateOnSale(snap, sku) == snap.status = "For Sale" /\ (sku = NoSku \/ snap.sku \in {sku, NoSku})

(* The linked or recent listing still exists for this SKU: any status but    *)
(* sold will do, Expired included.                                          *)
CandidateAlive(snap, sku) ==
    /\ snap.status \notin {"None", "Sold"}
    /\ sku = NoSku \/ snap.sku \in {sku, NoSku}

-----------------------------------------------------------------------------
(* Resolving the BaseLinker product of a quantity or price item *)

(* Neither a product id nor a SKU: nothing to resolve. *)
NoIdentifier(w) ==
    /\ InBatch(w, {"quantity", "price"})
    /\ ItemOf(w).pid = NoListing /\ ItemOf(w).sku = NoSku
    /\ Fail(w)
    /\ UNCHANGED <<market, caches, bounds>>

(* The webhook carries the SKU. *)
UseWebhookSku(w) ==
    /\ InBatch(w, {"quantity", "price"})
    /\ ItemOf(w).sku # NoSku
    /\ Update(w, [job[w] EXCEPT !.sku = ItemOf(w).sku], "fetchProduct")
    /\ UNCHANGED <<market, caches, bounds>>

(* Only a Discogs listing id: its SKU is read from the listing cache, or      *)
(* from Discogs.  A failed fetch is swallowed and leaves the SKU unknown.    *)
LookupListingSku(w) ==
    LET pid == ItemOf(w).pid
        known(sku) == Update(w, [job[w] EXCEPT !.sku = sku], "fetchProduct")
    IN  /\ InBatch(w, {"quantity", "price"})
        /\ pid # NoListing /\ ItemOf(w).sku = NoSku
        /\ \/ /\ pid \in fetched
              /\ known(listing[pid].sku)
              /\ UNCHANGED <<fetched, faults>>
           \/ /\ pid \notin fetched /\ Fetchable(pid)
              /\ known(listing[pid].sku)
              /\ fetched' = fetched \union {pid}
              /\ UNCHANGED faults
           \/ /\ pid \notin fetched
              /\ IF Fetchable(pid) THEN Fault("fetch") ELSE NoFault
              /\ known(NoSku)
              /\ UNCHANGED fetched
        /\ UNCHANGED <<market, recent, retired, idem, recentOk, deliveries>>

(* The product is found by its SKU and its link read.  A listing id is no     *)
(* BaseLinker product id, so without a SKU the scan finds nothing.           *)
FetchProduct(w) ==
    /\ pc[w] = "fetchProduct"
    /\ LET sku == job[w].sku IN
       \/ /\ sku # NoSku
          /\ \E stocked \in BOOLEAN :
               /\ KindOf(w) = "quantity" => stocked = ItemOf(w).stocked
               /\ Update(w, [job[w] EXCEPT !.cur = link[sku], !.stocked = stocked],
                         IF KindOf(w) = "quantity" THEN "loadCurrent" ELSE "change")
          /\ NoFault
       \/ /\ IF sku = NoSku THEN NoFault ELSE Fault("resolve")
          /\ Fail(w)
    /\ UNCHANGED <<market, caches, deliveries>>

-----------------------------------------------------------------------------
(* The listing recently created for a SKU *)

(* Slip: the add path creates without looking. *)
LookupRecentSkipped(w) ==
    LET sku == IF KindOf(w) = "add" THEN ItemOf(w).sku ELSE job[w].sku
    IN  /\ \/ InBatch(w, {"add"}) /\ ItemOf(w).sku # NoSku
           \/ pc[w] = "lookupRecent"
        /\ Update(w, [job[w] EXCEPT !.sku = sku], "create")
        /\ UNCHANGED <<market, caches, bounds>>

(* Reads the cache entry; the add path starts with it, the quantity path     *)
(* comes to it once it has decided to create a listing.                      *)
LookupRecentListing(w) ==
    LET add == KindOf(w) = "add"
        sku == IF add THEN ItemOf(w).sku ELSE job[w].sku
        j == [job[w] EXCEPT !.sku = sku, !.new = recent[sku]]
    IN  /\ \/ InBatch(w, {"add"}) /\ ItemOf(w).sku # NoSku
           \/ pc[w] = "lookupRecent"
        /\ Update(w, j, IF recent[sku] = NoListing THEN "create" ELSE "fetchRecent")
        /\ UNCHANGED <<market, caches, bounds>>

(* Fetches the recent listing, cache bypassed.  It is reused when alive; a    *)
(* sold or unfetchable one is ignored.                                      *)
FetchRecentListing(w) ==
    LET l == job[w].new
        snap == listing[l]
        ignore == Update(w, [job[w] EXCEPT !.new = NoListing], "create")
    IN  /\ pc[w] = "fetchRecent"
        /\ \/ /\ Fetchable(l)
              /\ fetched' = fetched \union {l}
              /\ IF CandidateAlive(snap, job[w].sku)
                 THEN Update(w, job[w], IF KindOf(w) = "add" THEN "storeRecent" ELSE "linkRecent")
                 ELSE ignore
              /\ NoFault
           \/ /\ IF Fetchable(l) THEN Fault("fetch") ELSE NoFault
              /\ ignore
              /\ UNCHANGED fetched
        /\ UNCHANGED <<market, recent, retired, idem, recentOk, deliveries>>

-----------------------------------------------------------------------------
(* Creating a listing *)

(* Slip: stock alone decides. *)
CreateStatusByStock(w) ==
    IF KindOf(w) = "add" /\ ~ItemOf(w).stocked THEN "Draft" ELSE "For Sale"

(* A row built from the webhook is for sale when it has price and stock; one  *)
(* from the fallback mapping always is.  A relist has stock by its guard.    *)
CreateStatus(w) ==
    LET add == KindOf(w) = "add"
        priced == IF add THEN ItemOf(w).priced ELSE job[w].sku \in PricedSkus
        stocked == IF add THEN ItemOf(w).stocked ELSE TRUE
    IN  IF (add /\ job[w].req.mapped) \/ (priced /\ stocked) THEN "For Sale" ELSE "Draft"

(* Slip: the create payload leaves out external_id. *)
PostWithoutSku(w) ==
    Created(NoSku, CreateStatus(w), IF KindOf(w) = "add" THEN ItemOf(w).priced ELSE TRUE)

PostListing(w) ==
    LET priced == IF KindOf(w) = "add" THEN ItemOf(w).priced ELSE job[w].sku \in PricedSkus
    IN  Created(job[w].sku, CreateStatus(w), priced)

CreateListing(w) ==
    /\ pc[w] = "create"
    /\ PostListing(w)
    /\ Update(w, [job[w] EXCEPT !.new = FreshId],
              IF KindOf(w) = "add" THEN "storeRecent" ELSE "linkNew")
    /\ UNCHANGED <<removals, link, caches, bounds>>

(* The listing is created but the response is lost: the client retries the POST. *)
CreateLost(w) ==
    /\ pc[w] = "create"
    /\ Fault("createLost")
    /\ PostListing(w)
    /\ UNCHANGED <<removals, link, caches, pc, job, deliveries>>

CreateFails(w) ==
    /\ pc[w] = "create"
    /\ IF UnusedIds = {} THEN NoFault ELSE Fault("create")
    /\ Fail(w)
    /\ UNCHANGED <<market, caches, deliveries>>

-----------------------------------------------------------------------------
(* ProductAdd *)

(* A row without a SKU is an error. *)
AddRejected(w) ==
    /\ InBatch(w, {"add"})
    /\ ItemOf(w).sku = NoSku
    /\ Fail(w)
    /\ UNCHANGED <<market, caches, bounds>>

(* Slip: the link is written and nothing remembered. *)
AddStoreNothing(w) ==
    /\ Step(w, "storeRecent", "addLink")
    /\ UNCHANGED <<market, caches, job, bounds>>

(* The listing is remembered before BaseLinker is told of it. *)
AddStoreRecent(w) ==
    /\ pc[w] = "storeRecent"
    /\ Step(w, "storeRecent", "addLink")
    /\ recent' = [recent EXCEPT ![job[w].sku] = job[w].new]
    /\ UNCHANGED <<market, retired, fetched, idem, recentOk, job, bounds>>

(* The link is written whatever it was; an error is logged and swallowed,    *)
(* and the call may have been applied all the same.                         *)
AddLink(w) ==
    /\ pc[w] = "addLink"
    /\ \/ /\ link' = [link EXCEPT ![job[w].sku] = job[w].new]
          /\ NoFault
       \/ /\ Fault("link")
          /\ link' \in {link, [link EXCEPT ![job[w].sku] = job[w].new]}
    /\ Succeed(w, job[w].new)
    /\ UNCHANGED <<listing, removals, caches, deliveries>>

-----------------------------------------------------------------------------
(* ProductsPriceUpdate.  An error inside the change is kept in the item's     *)
(* response, and the item counts as processed.                              *)

(* Slip: a link reset to "0" is taken for a listing. *)
ChangeTargetAnyLink(w) == IF job[w].cur # NoListing THEN job[w].cur ELSE ItemOf(w).pid

ChangeTarget(w) == IF job[w].cur \in Listings THEN job[w].cur ELSE ItemOf(w).pid

(* Nothing linked and no listing id, or a listing marked retired: acknowledged. *)
ChangeAcknowledged(w) ==
    /\ pc[w] = "change"
    /\ ChangeTarget(w) \in retired \union {NoListing}
    /\ Succeed(w, ChangeTarget(w))
    /\ UNCHANGED <<market, caches, bounds>>

ChangeBegin(w) ==
    /\ pc[w] = "change"
    /\ ChangeTarget(w) \notin retired \union {NoListing}
    /\ Update(w, [job[w] EXCEPT !.old = ChangeTarget(w)], "changeFetch")
    /\ UNCHANGED <<market, caches, bounds>>

ChangeFetch(w) ==
    LET l == job[w].old IN
    /\ pc[w] = "changeFetch"
    /\ \/ /\ Fetchable(l)
          /\ fetched' = fetched \union {l}
          /\ Update(w, [job[w] EXCEPT !.oldSnap = listing[l]], "changeEdit")
          /\ UNCHANGED <<retired, faults>>
       \/ /\ ~Fetchable(l)                       \* 404: retired from now on
          /\ fetched' = fetched \ {l}
          /\ retired' = retired \union {l}
          /\ Succeed(w, l)
          /\ UNCHANGED faults
       \/ /\ Fetchable(l) /\ Fault("fetch")
          /\ Succeed(w, l)
          /\ UNCHANGED <<fetched, retired>>
    /\ UNCHANGED <<market, recent, idem, recentOk, deliveries>>

(* A draft of an inspected product in stock goes back on sale. *)
Reactivates(w) ==
    /\ job[w].oldSnap.status = "Draft"
    /\ job[w].stocked /\ job[w].sku \in InspectedSkus

MustChange(w) ==
    \/ Reactivates(w)
    \/ ItemOf(w).priced /\ ~job[w].oldSnap.priced
    \/ job[w].oldSnap.sku # job[w].sku

(* Nothing differs, or the fetched status cannot be modified. *)
ChangeSkipped(w) ==
    /\ pc[w] = "changeEdit"
    /\ ~MustChange(w) \/ job[w].oldSnap.status \notin Live
    /\ Succeed(w, job[w].old)
    /\ UNCHANGED <<market, caches, bounds>>

(* Slip: the SKU sent is the webhook's, not the product's. *)
EditedWithWebhookSku(w) ==
    [listing EXCEPT ![job[w].old] =
       [status |-> IF Reactivates(w) THEN "For Sale" ELSE @.status,
        sku    |-> ItemOf(w).sku,
        priced |-> @.priced \/ ItemOf(w).priced]]

(* The edit Discogs receives: status only on reactivation, the price only     *)
(* when the webhook brings a positive one, the SKU always in step.           *)
Edited(w) ==
    [listing EXCEPT ![job[w].old] =
       [status |-> IF Reactivates(w) THEN "For Sale" ELSE @.status,
        sku    |-> job[w].sku,
        priced |-> @.priced \/ ItemOf(w).priced]]

ChangeEdit(w) ==
    LET l == job[w].old IN
    /\ pc[w] = "changeEdit"
    /\ MustChange(w) \/ ItemOf(w).priced
    /\ job[w].oldSnap.status \in Live
    /\ \/ /\ Editable(l)
          /\ listing' = Edited(w)
          /\ fetched' = fetched \ {l}
          /\ NoFault
       \/ /\ IF Editable(l) THEN Fault("edit") ELSE NoFault
          /\ listing' \in {listing, IF Editable(l) THEN Edited(w) ELSE listing}
          /\ UNCHANGED fetched
    /\ Succeed(w, l)
    /\ UNCHANGED <<removals, link, recent, retired, idem, recentOk, deliveries>>

-----------------------------------------------------------------------------
(* ProductDelete *)

Bulk(req) == req.kind = "delete" /\ Len(req.batch) > DirectApiThreshold

(* The listing goes, its cached fetch with it; the link stays as it is.       *)
(* When the response is lost the retried call answers 404.                   *)
DeleteListing(w) ==
    LET l == ItemOf(w).pid IN
    /\ InBatch(w, {"delete"}) /\ ~Bulk(job[w].req)
    /\ \/ /\ Fetchable(l)
          /\ SetStatus(l, "Gone")
          /\ fetched' = fetched \ {l}
          /\ Succeed(w, l)
          /\ UNCHANGED faults
       \/ /\ IF Fetchable(l) THEN Fault("delete") ELSE NoFault
          /\ listing' \in {listing, IF Fetchable(l) THEN [listing EXCEPT ![l].status = "Gone"]
                                    ELSE listing}
          /\ Fail(w)
          /\ UNCHANGED fetched
    /\ UNCHANGED <<removals, link, recent, retired, idem, recentOk, deliveries>>

(* A large batch is uploaded as one CSV, which Discogs applies later. *)
UploadDeletes(w) ==
    LET j == job[w]
        n == Len(j.req.batch)
        done(ok, bad) == Update(w, [FreshJob(j.req, n + 1) EXCEPT !.ok = ok, !.bad = bad], "item")
    IN  /\ InBatch(w, {"delete"}) /\ Bulk(j.req)
        /\ \/ /\ removals' = removals \union (Listings \intersect {j.req.batch[k].pid : k \in 1..n})
              /\ done(n, 0)
              /\ NoFault
           \/ /\ Fault("upload")
              /\ done(0, n)
              /\ UNCHANGED removals
        /\ UNCHANGED <<listing, link, caches, deliveries>>

DirectApiStep(w) ==
    \/ NoIdentifier(w) \/ UseWebhookSku(w) \/ LookupListingSku(w) \/ FetchProduct(w)
    \/ LookupRecentListing(w) \/ FetchRecentListing(w)
    \/ CreateListing(w) \/ CreateLost(w) \/ CreateFails(w)
    \/ AddRejected(w) \/ AddStoreRecent(w) \/ AddLink(w)
    \/ ChangeAcknowledged(w) \/ ChangeBegin(w) \/ ChangeFetch(w)
    \/ ChangeSkipped(w) \/ ChangeEdit(w)
    \/ DeleteListing(w) \/ UploadDeletes(w)
=============================================================================
