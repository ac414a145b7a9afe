-------------------------- MODULE InventoryInvariant --------------------------
(***************************************************************************)
(* The inductive invariant of the inventory webhooks: the properties of      *)
(* InventoryProperties say what must hold, this module why it does.  For the  *)
(* most part it says what a worker's locals can be at each step.             *)
(***************************************************************************)
EXTENDS InventoryProperties

(* The labels between the begin and the end of an item; those where its SKU is *)
(* known; and those where a listing was found or created for it.             *)
ResultLabels == {"storeResult", "storeRecentSuccess", "reply"}
ItemLabels == Labels \ ({"idle", "recentSuccess", "idempotency", "item"} \union ResultLabels)
SkuLabels == ItemLabels \ {"fetchProduct"}
FoundLabels == {"fetchRecent", "storeRecent", "addLink", "linkRecent", "linkNew",
                "cleanupRelist", "storeRelisted"}

(* A listing that was created stays so, for its SKU; so does one that was sold. *)
CreatedListing(l) == StatusOf(l) # "Unused"

(* The listings a webhook names were created, each for the SKU named beside it. *)
InFlight(j) ==
    \A k \in 1..Len(j.req.batch) : LET item == j.req.batch[k] IN
        item.pid \in Listings =>
            CreatedListing(item.pid) /\ item.sku \in {NoSku, listing[item.pid].sku}

(* The listings a worker holds are of the SKU it works on: the ones in its      *)
(* locals, and the one its webhook names.                                    *)
Holds(j, l) == l \in Listings /\ j.sku # NoSku => Owns(j.sku, l)
HoldsItsOwn(j, p) ==
    /\ Holds(j, j.cur) /\ Holds(j, j.new) /\ Holds(j, j.old)
    /\ p \in ItemLabels => Holds(j, j.req.batch[j.i].pid)

(* A listing that was fetched sold is not for sale again. *)
SoldForGood(j) ==
    j.old \in Listings /\ j.oldSnap.status = "Sold" => StatusOf(j.old) \in {"Sold", "Gone"}

(* The items done are counted. *)
Counted(j, p) ==
    /\ p \in ItemLabels => j.i <= Len(j.req.batch) /\ j.ok + j.bad = j.i - 1
    /\ p = "item" => j.i <= Len(j.req.batch) + 1 /\ j.ok + j.bad = j.i - 1
    /\ p = "reply" /\ j.req.kind \in LiveKinds => j.ok + j.bad = Len(j.req.batch)

(* What the locals are at each step. *)
Stage(j, p) ==
    /\ p # "idle" => j.req \in Requests
    /\ p \in {"recentSuccess", "idempotency"} => j = FreshJob(j.req, 1)
    /\ p \in {"recentSuccess", "idempotency", "storeResult", "storeRecentSuccess"} =>
           j.req.kind \notin LiveKinds
    /\ p \in {"item", "fetchProduct"} => j.cur = NoListing /\ j.new = NoListing /\ j.old = NoListing
    /\ p \in {"item", "fetchProduct", "change"} => j.oldSnap = Absent
    /\ p \in {"loadCurrent", "loadCleanup", "decide", "lookupRecent"} => j.req.kind = "quantity"
    /\ p \in SkuLabels => j.sku \in Skus
    /\ p \in FoundLabels => j.new \in Listings
    /\ p \in {"changeFetch", "changeEdit"} => j.old \in Listings

JobGood(j, p) ==
    /\ j \in Job /\ p \in Labels
    /\ Stage(j, p) /\ Counted(j, p)
    /\ InFlight(j) /\ HoldsItsOwn(j, p) /\ SoldForGood(j)

(* Types of the rest, and whose listings BaseLinker and the cache know. *)
StoreGood ==
    /\ removals \subseteq Listings
    /\ link \in [Skus -> Link]
    /\ recent \in [Skus -> Listings \union {NoListing}]
    /\ retired \subseteq Listings /\ fetched \subseteq Listings
    /\ idem \in [Tokens -> Result \union {NoResult}]
    /\ recentOk \in [PayloadTokens -> Result \union {NoResult}]
    /\ faults \in Nat /\ deliveries \in Nat
    /\ \A s \in Skus : /\ link[s] \in Listings => Owns(s, link[s])
                       /\ recent[s] \in Listings => Owns(s, recent[s])
    /\ RetiredIsGone

ListingsGood == listing \in [Listings -> ListingState]

JobsGood ==
    /\ pc \in [Workers -> Labels] /\ job \in [Workers -> Job]
    /\ \A w \in Workers : JobGood(job[w], pc[w])

(* The inductive invariant: TypeOK, SkuIntegrity, RetiredIsGone and            *)
(* EveryItemCounted follow from it (process_inventory_event and what it calls). *)
IInv == ListingsGood /\ StoreGood /\ JobsGood
-----------------------------------------------------------------------------
(* What brought a worker to a step: the action of its webhook, and, where a      *)
(* quantity webhook decides by it, the stock it names.                        *)
QuantityOnly == {"loadCurrent", "loadCleanup", "decide", "lookupRecent", "linkRecent",
                 "linkNew", "cleanup", "cleanupRelist", "storeRelisted"}
Relisting == {"lookupRecent", "fetchRecent", "create", "linkRecent", "linkNew",
              "cleanupRelist", "storeRelisted"}

Route(j, p) ==
    LET kind == j.req.kind IN
    /\ p = "fetchProduct" => kind \in LiveKinds
    /\ p \in {"change", "changeFetch", "changeEdit"} => kind = "price"
    /\ p \in {"storeRecent", "addLink"} => kind = "add"
    /\ p \in {"fetchRecent", "create"} => kind \in {"add", "quantity"}
    /\ p \in QuantityOnly => kind = "quantity"
    /\ p \in QuantityOnly \union Relisting /\ kind = "quantity" =>
           j.stocked = j.req.batch[j.i].stocked
    /\ p \in Relisting /\ kind = "quantity" => j.stocked

Routed == \A w \in Workers : Route(job[w], pc[w])

(* The answers that are kept and given are those of their requests.             *)
Answered(j, p) ==
    /\ p \in ResultLabels \ {"reply"} => j.res # NoResult /\ j.res.req = j.req
    /\ p = "reply" =>
           j.res # NoResult /\ j.res.req.kind = j.req.kind /\ j.res.req.batch = j.req.batch

AnswersKept ==
    /\ \A t \in Tokens : idem[t] # NoResult => Token(idem[t].req) = t
    /\ \A t \in PayloadTokens : recentOk[t] # NoResult => PayloadToken(recentOk[t].req) = t

-----------------------------------------------------------------------------
(* One listing for each product needs more than the code does itself: a client      *)
(* whose calls are carried out when they say so, a memory that lasts, and no two    *)
(* workers at one product at a time.  Who is told of the listings there are at the  *)
(* start are the links, which an add does not look at.                        *)
Added(sku) ==
    \E r \in Requests : r.kind = "add" /\ \E k \in 1..Len(r.batch) : r.batch[k].sku = sku
Stocking == \E r \in Requests : r.kind = "quantity"

Dependable ==
    /\ Faults \intersect {"fetch", "createLost", "restart"} = {}
    /\ (\E sku \in Skus : Added(sku)) => "forgetListing" \notin Faults
    /\ Stocking => "link" \notin Faults
KnownAtStart ==
    \A l \in Listings : StartListing[l].status \in Live =>
        ~Added(StartListing[l].sku) /\ StartLink[StartListing[l].sku] = l
Orderly == Dependable /\ KnownAtStart

(* Items of one product are worked off one after the other; those of different      *)
(* products, and deletes, at the same time.                                   *)
ItemsApart ==
    \A u, w \in Workers : job[u].sku = job[w].sku /\ job[w].sku # NoSku => u = w
ApartSpec == Orderly /\ Init /\ [][Next /\ ItemsApart']_vars

(* An item that says which product it is about.                                *)
Named(item) == item.sku # NoSku \/ item.pid \in Listings

(* The same for whole webhooks, from their delivery to their reply.              *)
Names(w, sku) ==
    KindOf(w) # "delete" /\ \E k \in 1..Len(job[w].req.batch) :
        LET item == job[w].req.batch[k] IN Named(item) /\ SkuOf(item) = sku
WebhooksApart ==
    \A u, w \in Workers, sku \in Skus : Names(u, sku) /\ Names(w, sku) => u = w
ApartWebhooksSpec == Orderly /\ Init /\ [][Next /\ WebhooksApart']_vars

(* What a worker is at is what the item of its webhook names, and every listing is  *)
(* one of a product.                                                          *)
AboutItem(j, p) ==
    j.sku # NoSku =>
        LET item == j.req.batch[j.i] IN
        /\ p \in ItemLabels
        /\ Named(item) /\ SkuOf(item) = j.sku
        /\ j.req.kind = "add" => item.sku = j.sku
EachHasItsSku ==
    /\ \A w \in Workers : AboutItem(job[w], pc[w])
    /\ \A l \in Listings : CreatedListing(l) => listing[l].sku \in Skus

(* Who the next worker will ask knows of a listing, or this one is about to tell:   *)
(* BaseLinker, and for a product added by webhook the recent-listing cache.      *)
Told(sku) == Stocking \/ ~Added(sku)
Linked(sku, l) ==
    \/ link[sku] = l
    \/ \E w \in Workers : job[w].new = l /\ pc[w] \in {"linkNew", "storeRecent", "addLink"}
Remembered(sku, l) ==
    \/ recent[sku] = l
    \/ \E w \in Workers :
           /\ job[w].new = l
           /\ pc[w] \in {"linkNew", "cleanupRelist", "storeRelisted", "storeRecent"}
Known(sku, l) == (Told(sku) => Linked(sku, l)) /\ (Added(sku) => Remembered(sku, l))

(* The offers there are for a product.                                        *)
Offers(sku) == {l \in Listings : StatusOf(l) \in Live /\ listing[l].sku = sku}
Dead(l) == l \in Listings => StatusOf(l) \notin Live

(* What the worker has seen of the link and of the linked listing still holds.    *)
SeesLink(j, p) ==
    /\ p \in QuantityOnly \ {"cleanup", "cleanupRelist", "storeRelisted"} => j.cur = link[j.sku]
    /\ p \in {"fetchRecent", "create"} /\ j.req.kind = "quantity" => j.cur = link[j.sku]
    /\ p \in {"loadCleanup", "decide"} =>
           /\ j.curSnap.status # "None" => j.cur \in Listings
           /\ ~CandidateAlive(j.curSnap, j.sku) => Dead(j.cur)
           /\ j.curSnap.status = "Draft" => StatusOf(j.cur) # "For Sale"

(* It creates only what there is not, and what it found or created is all there is. *)
SeesOffers(j, p) ==
    /\ p \in {"lookupRecent", "fetchRecent"} /\ j.req.kind = "quantity" => Dead(j.cur)
    /\ p = "fetchRecent" /\ Added(j.sku) => j.new = recent[j.sku]
    /\ p = "create" => Offers(j.sku) = {}
    /\ p \in {"storeRecent", "addLink", "linkRecent", "linkNew", "cleanupRelist", "storeRelisted"} =>
           Offers(j.sku) \subseteq {j.new}

(* The offers of a product, and what is known of them.                          *)
Offering(sku) ==
    /\ \A l, m \in Offers(sku) : l = m
    /\ \A l \in Offers(sku) : Known(sku, l)
    /\ \A w \in Workers : job[w].sku = sku => SeesLink(job[w], pc[w]) /\ SeesOffers(job[w], pc[w])
AllOffering == \A sku \in Skus : Offering(sku)

(* The stock of an item is on its way to the listing, or has arrived there.       *)
Hidden(sku) == \A l \in Listings : listing[l].sku = sku => StatusOf(l) # "For Sale"
Emptied(item) == ~item.stocked => Named(item) /\ Hidden(SkuOf(item))

EmptiesStock(j, p) ==
    j.req.kind = "quantity" =>
        /\ p = "cleanup" /\ ~j.stocked => Hidden(j.sku)
        /\ p = "item" /\ j.i > 1 /\ j.bad = 0 => Emptied(j.req.batch[j.i - 1])
        /\ p = "reply" /\ j.bad = 0 /\ j.req.batch # <<>> => Emptied(j.req.batch[Len(j.req.batch)])

Emptying == \A w \in Workers : EmptiesStock(job[w], pc[w])

-----------------------------------------------------------------------------
(* Requests that share an explicit key are for the same action and items.         *)
KeysUnshared ==
    \A r, q \in Requests : r.key # NoKey /\ r.key = q.key => r.kind = q.kind /\ r.batch = q.batch
=============================================================================
