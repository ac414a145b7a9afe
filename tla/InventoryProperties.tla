-------------------------- MODULE InventoryProperties --------------------------
(***************************************************************************)
(* What the handling of inventory webhooks must guarantee.                  *)
(***************************************************************************)
EXTENDS InventoryEvents

(* Types of the marketplaces, the caches and the jobs. *)
TypeOK ==
    /\ listing \in [Listings -> ListingState]
    /\ removals \subseteq Listings
    /\ link \in [Skus -> Link]
    /\ recent \in [Skus -> Listings \union {NoListing}]
    /\ retired \subseteq Listings /\ fetched \subseteq Listings
    /\ idem \in [Tokens -> Result \union {NoResult}]
    /\ recentOk \in [PayloadTokens -> Result \union {NoResult}]
    /\ pc \in [Workers -> Labels]
    /\ job \in [Workers -> Job]
    /\ faults \in Nat /\ deliveries \in Nat

(* A listing that was created, for this SKU. *)
Owns(sku, l) == StatusOf(l) # "Unused" /\ listing[l].sku = sku

(* Links, remembered listings and what workers are about to write always name *)
(* listings of their own SKU, however events, retries and lost responses      *)
(* interleave: no product is ever linked to, or edited through, the listing   *)
(* of another (_update_baselinker_listing_link, store_recent_discogs_listing, *)
(* the external_id sent by every change).                                   *)
SkuIntegrity ==
    /\ \A s \in Skus : /\ link[s] \in Listings => Owns(s, link[s])
                       /\ recent[s] \in Listings => Owns(s, recent[s])
    /\ \A w \in Workers : \A l \in {job[w].cur, job[w].new, job[w].old} :
          l \in Listings /\ job[w].sku # NoSku => Owns(job[w].sku, l)

(* A retired marker makes every price change of that listing a silent no-op    *)
(* for half an hour, so only a listing Discogs no longer has may carry one:   *)
(* not one whose fetch merely failed, not a sold one whose deletion failed.   *)
RetiredIsGone == \A l \in retired : StatusOf(l) = "Gone"

(* A quantity, price or add webhook never removes a listing a buyer can still  *)
(* see: only a delete webhook naming it, an uploaded delete or the seller     *)
(* does.  The quantity path's cleanup decides on a status it fetched several  *)
(* calls earlier.                                                           *)
RemovesOnlyWhatItMay ==
    [][\A l \in Listings :
          StatusOf(l) \in Live /\ StatusOf(l)' = "Gone" =>
             \/ \E w \in Workers : KindOf(w) = "delete" /\ HasItem(w) /\ ItemOf(w).pid = l
             \/ l \in removals
             \/ "withdraw" \in Faults /\ UNCHANGED <<pc, job>>]_vars

(* Every item of a quantity or price webhook is answered for exactly once in   *)
(* the counter BaseLinker gets, whether it was done, refused or failed half   *)
(* way (_webhook_counter).                                                  *)
EveryItemCounted ==
    \A w \in Workers : pc[w] = "reply" /\ KindOf(w) \in LiveKinds =>
        Counter(w) = Len(job[w].req.batch)

(* A reply, computed or from a cache, is that of the same action on the same   *)
(* items (_idempotency_digest: "covering the action and payload").           *)
AnswerMatchesRequest ==
    \A w \in Workers : pc[w] = "reply" =>
        /\ job[w].res.req.kind = KindOf(w)
        /\ job[w].res.req.batch = job[w].req.batch

(* One copy of a record is offered once: no SKU has two listings that buyers   *)
(* could order, or that a webhook could put on sale.                         *)
OneLiveListing ==
    \A l, m \in Listings : l # m /\ StatusOf(l) \in Live /\ StatusOf(m) \in Live =>
        listing[l].sku # listing[m].sku

(* A live listing of the service can be found again: BaseLinker links to it,   *)
(* the recent-listing cache remembers it, or a worker is about to record it.  *)
NoOrphan ==
    \A l \in Listings : StatusOf(l) \in Live =>
        \/ link[listing[l].sku] = l \/ recent[listing[l].sku] = l
        \/ \E w \in Workers : job[w].new = l

(* When the last item of a quantity webhook says the stock is gone, and the    *)
(* webhook has been answered without error, no listing of that SKU is on sale. *)
SkuOf(item) == IF item.sku # NoSku THEN item.sku ELSE listing[item.pid].sku
ZeroStockHidden ==
    \A w \in Workers :
        LET batch == job[w].req.batch
            last == batch[Len(batch)]
        IN  /\ pc[w] = "reply" /\ KindOf(w) = "quantity" /\ job[w].bad = 0
            /\ batch # <<>> /\ ~last.stocked
            => \A l \in Listings : listing[l].sku = SkuOf(last) => StatusOf(l) # "For Sale"

(* Nothing is given away: what is on sale has a positive price ("avoid free    *)
(* sales", "we'd sell items for free").                                      *)
NoFreeSale == \A l \in Listings : StatusOf(l) = "For Sale" => listing[l].priced

(* Every request a worker took is answered, or lost with the process. *)
EveryRequestAnswered == \A w \in Workers : (pc[w] # "idle") ~> (pc[w] = "idle")

(* The service implements the life of a listing (module ListingLifecycle). *)
Lifecycle == INSTANCE ListingLifecycle
ListingsLiveTheirLife == Lifecycle!Spec
=============================================================================
