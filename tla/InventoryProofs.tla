---------------------------- MODULE InventoryProofs ----------------------------
(***************************************************************************)
(* The safety of the inventory webhooks, for any number of workers, listings, *)
(* SKUs, requests, faults and deliveries.  First what the proof that IInv is   *)
(* inductive has to show of each action of a worker: that its step moves       *)
(* listings along their life (LifeStep), that the caches and links stay good,  *)
(* and that the worker's new locals are good; then a lemma for every action of *)
(* DirectApi and Reconcile; then the induction and what follows from it.       *)
(***************************************************************************)
EXTENDS InventoryInvariant, TLAPS

(* What a step does to the listings, and what follows for all that names them. *)
LifeStep == [Lifecycle!Next]_listing

Aged ==
    \A l \in Listings :
        /\ CreatedListing(l) => CreatedListing(l)' /\ listing'[l].sku = listing[l].sku
        /\ StatusOf(l) \in {"Sold", "Gone"} => StatusOf(l)' \in {"Sold", "Gone"}
        /\ StatusOf(l) = "Gone" => StatusOf(l)' = "Gone"

LEMMA Ageing ==
    ASSUME ListingsGood, LifeStep
    PROVE  ListingsGood' /\ Aged
<1>1. CASE UNCHANGED listing
    BY <1>1 DEF ListingsGood, Aged, CreatedListing, StatusOf
<1>2. ASSUME NEW l \in Listings, Lifecycle!Create(l)
      PROVE  ListingsGood' /\ Aged
  <2>1. PICK status \in {"For Sale", "Draft"}, sku \in Skus, priced \in BOOLEAN :
               listing' = [listing EXCEPT ![l] = [status |-> status, sku |-> sku, priced |-> priced]]
      BY <1>2 DEF Lifecycle!Create
  <2>2. listing[l].status = "Unused"
      BY <1>2 DEF Lifecycle!Create
  <2>3. [status |-> status, sku |-> sku, priced |-> priced] \in ListingState
      BY DEF ListingState, Statuses, Existing, Live
  <2> QED
      BY <2>1, <2>2, <2>3 DEF ListingsGood, Aged, CreatedListing, StatusOf
<1>3. ASSUME NEW l \in Listings, Lifecycle!Change(l)
      PROVE  ListingsGood' /\ Aged
  <2>1. PICK status \in Lifecycle!MayBecome(listing[l].status) \union {listing[l].status},
             priced \in {listing[l].priced, TRUE} :
               listing' = [listing EXCEPT ![l].status = status, ![l].priced = priced]
      BY <1>3 DEF Lifecycle!Change
  <2>2. listing[l] \in ListingState /\ listing[l].status # "Unused"
      BY <1>3 DEF ListingsGood, Lifecycle!Change
  <2>3. status \in Statuses \ {"Unused"} /\ priced \in BOOLEAN
      BY <2>2 DEF Lifecycle!MayBecome, Lifecycle!Moves, ListingState, Statuses, Existing, Live
  <2>4. /\ listing[l].status \in {"Sold", "Gone"} => status \in {"Sold", "Gone"}
        /\ listing[l].status = "Gone" => status = "Gone"
      BY <2>2 DEF Lifecycle!MayBecome, Lifecycle!Moves
  <2> QED
      BY <2>1, <2>2, <2>3, <2>4 DEF ListingsGood, ListingState, Aged, CreatedListing, StatusOf
<1> QED
    BY <1>1, <1>2, <1>3 DEF LifeStep, Lifecycle!Next

(* Changing fields of a listing. *)
LEMMA RecordOf ==
    ASSUME NEW r \in ListingState
    PROVE  r = [status |-> r.status, sku |-> r.sku, priced |-> r.priced]
BY DEF ListingState

LEMMA ChangeOf ==
    ASSUME NEW r \in ListingState, NEW status \in Statuses, NEW priced \in BOOLEAN
    PROVE  [r EXCEPT !.status = status, !.priced = priced]
             = [status |-> status, sku |-> r.sku, priced |-> priced]
<1> DEFINE q == [r EXCEPT !.status = status, !.priced = priced]
<1>1. q \in ListingState
    BY DEF ListingState
<1>2. q.status = status /\ q.priced = priced /\ q.sku = r.sku
    BY DEF ListingState
<1>3. q = [status |-> q.status, sku |-> q.sku, priced |-> q.priced]
  <2> HIDE DEF q
  <2> QED
      BY <1>1, RecordOf
<1> QED
    BY <1>2, <1>3

LEMMA StatusChangeOf ==
    ASSUME NEW r \in ListingState, NEW status \in Statuses
    PROVE  [r EXCEPT !.status = status] = [r EXCEPT !.status = status, !.priced = r.priced]
<1> DEFINE q == [r EXCEPT !.status = status]
<1>1. q \in ListingState
    BY DEF ListingState
<1>2. q.status = status /\ q.priced = r.priced /\ q.sku = r.sku
    BY DEF ListingState
<1>3. q = [status |-> q.status, sku |-> q.sku, priced |-> q.priced]
  <2> HIDE DEF q
  <2> QED
      BY <1>1, RecordOf
<1>4. r.priced \in BOOLEAN
    BY DEF ListingState
<1> QED
    BY <1>2, <1>3, <1>4, ChangeOf

(* A listing that changes as it may lives on; one whose status only changes too. *)
LEMMA ChangeLives ==
    ASSUME ListingsGood, NEW l \in Listings, StatusOf(l) # "Unused",
           NEW status \in Lifecycle!MayBecome(StatusOf(l)) \union {StatusOf(l)},
           NEW priced \in {listing[l].priced, TRUE},
           listing' = [listing EXCEPT ![l] = [status |-> status, sku |-> listing[l].sku, priced |-> priced]]
    PROVE  LifeStep
<1>1. listing[l] \in ListingState
    BY DEF ListingsGood
<1>2. status \in Statuses /\ priced \in BOOLEAN
    BY <1>1 DEF Lifecycle!MayBecome, Lifecycle!Moves, ListingState, Statuses, Existing, Live, StatusOf
<1>3. [listing[l] EXCEPT !.status = status, !.priced = priced]
        = [status |-> status, sku |-> listing[l].sku, priced |-> priced]
    BY <1>1, <1>2, ChangeOf
<1>4. listing' = [listing EXCEPT ![l].status = status, ![l].priced = priced]
    BY <1>3 DEF ListingsGood
<1>5. Lifecycle!Change(l)
    BY <1>4 DEF Lifecycle!Change, StatusOf
<1> QED
    BY <1>5 DEF LifeStep, Lifecycle!Next

LEMMA StatusLives ==
    ASSUME ListingsGood, NEW l \in Listings, StatusOf(l) # "Unused",
           NEW status \in Lifecycle!MayBecome(StatusOf(l)) \union {StatusOf(l)},
           SetStatus(l, status)
    PROVE  LifeStep
<1>1. listing[l] \in ListingState
    BY DEF ListingsGood
<1>2. status \in Statuses /\ listing[l].priced \in BOOLEAN
    BY <1>1 DEF Lifecycle!MayBecome, Lifecycle!Moves, ListingState, Statuses, Existing, Live, StatusOf
<1>3. [listing[l] EXCEPT !.status = status]
        = [status |-> status, sku |-> listing[l].sku, priced |-> listing[l].priced]
  <2>1. [listing[l] EXCEPT !.status = status]
          = [listing[l] EXCEPT !.status = status, !.priced = listing[l].priced]
      BY <1>1, <1>2, StatusChangeOf
  <2>2. [listing[l] EXCEPT !.status = status, !.priced = listing[l].priced]
          = [status |-> status, sku |-> listing[l].sku, priced |-> listing[l].priced]
      BY <1>1, <1>2, ChangeOf
  <2> QED
      BY <2>1, <2>2
<1>4. listing' = [listing EXCEPT ![l] = [listing[l] EXCEPT !.status = status]]
    BY DEF SetStatus
<1> QED
    BY <1>3, <1>4, ChangeLives

(* A good job stays good as the listings age. *)
LEMMA JobAges ==
    ASSUME NEW CONSTANT j, NEW CONSTANT p, JobGood(j, p), Aged
    PROVE  JobGood(j, p)'
<1>1. InFlight(j)'
    BY DEF JobGood, InFlight, Aged
<1>2. \A l : Holds(j, l) => Holds(j, l)'
    BY DEF Holds, Owns, Aged, CreatedListing, StatusOf
<1>3. HoldsItsOwn(j, p)'
    BY <1>2 DEF JobGood, HoldsItsOwn
<1>4. SoldForGood(j)'
    BY DEF JobGood, SoldForGood, Aged, StatusOf
<1> QED
    BY <1>1, <1>3, <1>4 DEF JobGood, Stage, Counted

(* One worker's job changes and is good afterwards. *)
LEMMA JobStep ==
    ASSUME JobsGood, Aged, NEW w \in Workers, NEW j, NEW p, JobGood(j, p)', Update(w, j, p)
    PROVE  JobsGood'
<1>1. j \in Job /\ p \in Labels
    BY DEF JobGood
<1>2. pc' \in [Workers -> Labels] /\ job' \in [Workers -> Job]
    BY <1>1 DEF JobsGood, Update
<1>3. ASSUME NEW v \in Workers
      PROVE  JobGood(job[v], pc[v])'
  <2>1. CASE v = w
      BY <2>1 DEF JobsGood, Update
  <2>2. CASE v # w
    <3>1. job'[v] = job[v] /\ pc'[v] = pc[v]
        BY <2>2 DEF JobsGood, Update
    <3>2. JobGood(job[v], pc[v])
        BY DEF JobsGood
    <3> QED
        BY <3>1, <3>2, JobAges
  <2> QED
      BY <2>1, <2>2
<1> QED
    BY <1>2, <1>3 DEF JobsGood

-----------------------------------------------------------------------------
(* Jobs and their items *)

LEMMA IdleJobType ==
    ASSUME NEW req \in Requests \union {NoRequest}
    PROVE  FreshJob(req, 1) \in Job
BY DEF FreshJob, Job, Link, Snapshot, Absent

LEMMA FreshJobType ==
    ASSUME NEW req \in Requests \union {NoRequest}, NEW i \in Nat \ {0},
           NEW ok \in Nat, NEW bad \in Nat, NEW first \in Link
    PROVE  /\ [FreshJob(req, i) EXCEPT !.ok = ok, !.bad = bad] \in Job
           /\ [FreshJob(req, i) EXCEPT !.ok = ok, !.bad = bad, !.first = first] \in Job
BY DEF FreshJob, Job, Link, Snapshot, Absent

-----------------------------------------------------------------------------
(* What an action has to show *)

(* One worker steps, the listings age, and the rest stays good. *)
LEMMA WorkerSteps ==
    ASSUME IInv, LifeStep, StoreGood',
           NEW w \in Workers, NEW j, NEW p, JobGood(j, p), Update(w, j, p)
    PROVE  IInv' /\ LifeStep
<1>1. ListingsGood' /\ Aged
    BY Ageing DEF IInv
<1>2. JobGood(j, p)'
    BY <1>1, JobAges
<1> QED
    BY <1>1, <1>2, JobStep DEF IInv

(* The worker's item is done, well or not. *)
LEMMA ItemDone ==
    ASSUME IInv, LifeStep, StoreGood',
           NEW w \in Workers, NEW good \in BOOLEAN, NEW lid \in Link,
           pc[w] \in ItemLabels \union {"item"}, HasItem(w), Finish(w, good, lid)
    PROVE  IInv' /\ LifeStep
<1> DEFINE j == [FreshJob(job[w].req, job[w].i + 1) EXCEPT
                   !.ok = IF good THEN job[w].ok + 1 ELSE job[w].ok,
                   !.bad = IF good THEN job[w].bad ELSE job[w].bad + 1,
                   !.first = IF job[w].first = NoListing /\ good THEN lid ELSE job[w].first]
<1>1. JobGood(job[w], pc[w])
    BY DEF IInv, JobsGood
<1>2. Update(w, j, "item")
    BY DEF Finish, Update
<1>3. /\ j.req = job[w].req /\ j.i = job[w].i + 1
      /\ j.cur = NoListing /\ j.new = NoListing /\ j.old = NoListing /\ j.oldSnap = Absent
      /\ j.ok = (IF good THEN job[w].ok + 1 ELSE job[w].ok)
      /\ j.bad = (IF good THEN job[w].bad ELSE job[w].bad + 1)
    BY DEF FreshJob
<1>4. j \in Job
  <2>1. /\ job[w].req \in Requests \union {NoRequest} /\ job[w].i \in Nat \ {0}
        /\ job[w].ok \in Nat /\ job[w].bad \in Nat /\ job[w].first \in Link
      BY <1>1 DEF JobGood, Job
  <2>2. /\ (IF good THEN job[w].ok + 1 ELSE job[w].ok) \in Nat
        /\ (IF good THEN job[w].bad ELSE job[w].bad + 1) \in Nat
        /\ (IF job[w].first = NoListing /\ good THEN lid ELSE job[w].first) \in Link
        /\ job[w].i + 1 \in Nat \ {0}
      BY <2>1
  <2> QED
      BY <2>1, <2>2, FreshJobType
<1>5. Stage(j, "item")
  <2>1. job[w].req \in Requests
      BY <1>1 DEF JobGood, Stage, ItemLabels
  <2> QED
      BY <1>3, <2>1 DEF Stage, ItemLabels, SkuLabels, FoundLabels, ResultLabels
<1>6. Counted(j, "item")
    BY <1>1, <1>3 DEF JobGood, Job, Counted, ItemLabels, ResultLabels, HasItem
<1>7. InFlight(j) /\ HoldsItsOwn(j, "item") /\ SoldForGood(j)
    BY <1>1, <1>3, ConstantsAssumption
       DEF JobGood, InFlight, HoldsItsOwn, Holds, SoldForGood, ItemLabels
<1>8. JobGood(j, "item")
    BY <1>4, <1>5, <1>6, <1>7 DEF JobGood, Labels
<1> QED
    BY <1>2, <1>8, WorkerSteps

(* An action that leaves the marketplaces and the caches alone. *)
LEMMA StoreKept ==
    ASSUME IInv, UNCHANGED <<market, caches>>, faults' \in Nat, deliveries' \in Nat
    PROVE  StoreGood' /\ LifeStep
BY DEF IInv, StoreGood, market, caches, LifeStep, Owns, StatusOf, RetiredIsGone, Tokens, Token,
       PayloadToken, PayloadTokens

(* The items of a request, and the one a worker is at. *)
LEMMA BatchType ==
    ASSUME IInv, NEW w \in Workers
    PROVE  job[w].req.batch \in Seq(Item) /\ job[w].i \in Nat \ {0}
<1>1. job[w] \in Job
    BY DEF IInv, JobsGood
<1>2. job[w].req \in Request
  <2>1. NoRequest \in Request
      BY DEF NoRequest, Request, Kinds
  <2>2. job[w].req \in Requests \union {NoRequest}
      BY <1>1 DEF Job
  <2> QED
      BY <2>1, <2>2, ConstantsAssumption
<1> QED
    BY <1>1, <1>2 DEF Job, Request

LEMMA ItemType ==
    ASSUME IInv, NEW w \in Workers, HasItem(w)
    PROVE  ItemOf(w) \in Item /\ job[w].i \in 1..Len(job[w].req.batch)
<1>1. job[w].req.batch \in Seq(Item) /\ job[w].i \in 1..Len(job[w].req.batch)
    BY BatchType DEF HasItem
<1> QED
    BY <1>1 DEF ItemOf

(* The same for actions that leave the marketplaces and the caches alone. *)
LEMMA QuietStep ==
    ASSUME IInv, UNCHANGED <<market, caches>>, faults' \in Nat, deliveries' \in Nat,
           NEW w \in Workers, NEW j, NEW p, JobGood(j, p), Update(w, j, p)
    PROVE  IInv' /\ LifeStep
BY StoreKept, WorkerSteps

LEMMA QuietDone ==
    ASSUME IInv, UNCHANGED <<market, caches>>, faults' \in Nat, deliveries' \in Nat,
           NEW w \in Workers, NEW good \in BOOLEAN, NEW lid \in Link,
           pc[w] \in ItemLabels \union {"item"}, HasItem(w), Finish(w, good, lid)
    PROVE  IInv' /\ LifeStep
BY StoreKept, ItemDone

(* What may change in the caches and the links. *)
LEMMA StoreChanges ==
    ASSUME IInv, LifeStep, removals' \subseteq Listings, fetched' \subseteq Listings,
           \/ link' = link
           \/ \E s \in Skus, l \in Link :
                 /\ link' = [link EXCEPT ![s] = l]
                 /\ l \in Listings => Owns(s, l),
           \/ recent' = recent
           \/ \E s \in Skus, l \in Listings \union {NoListing} :
                 /\ recent' = [recent EXCEPT ![s] = l]
                 /\ l \in Listings => Owns(s, l),
           retired' \subseteq Listings, \A l \in retired' : l \in retired \/ StatusOf(l)' = "Gone",
           idem' \in [Tokens -> Result \union {NoResult}],
           recentOk' \in [PayloadTokens -> Result \union {NoResult}],
           faults' \in Nat, deliveries' \in Nat
    PROVE  StoreGood'
<1>1. Aged
    BY Ageing DEF IInv
<1>2. \A s \in Skus, l \in Listings : Owns(s, l) => Owns(s, l)'
    BY <1>1 DEF Aged, Owns, CreatedListing, StatusOf
<1>3. /\ link' \in [Skus -> Link]
      /\ \A s \in Skus : link'[s] \in Listings => Owns(s, link[s])'
  <2>1. CASE link' = link
      BY <1>2, <2>1 DEF IInv, StoreGood
  <2>2. ASSUME NEW s \in Skus, NEW l \in Link, link' = [link EXCEPT ![s] = l], l \in Listings => Owns(s, l)
        PROVE  /\ link' \in [Skus -> Link]
               /\ \A r \in Skus : link'[r] \in Listings => Owns(r, link[r])'
    <3>1. link' \in [Skus -> Link] /\ \A r \in Skus : link'[r] = IF r = s THEN l ELSE link[r]
        BY <2>2 DEF IInv, StoreGood
    <3>2. ASSUME NEW r \in Skus, link'[r] \in Listings
          PROVE  Owns(r, link[r])'
      <4>1. Owns(r, link'[r])
          BY <2>2, <3>1, <3>2 DEF IInv, StoreGood
      <4> QED
          BY <1>2, <3>2, <4>1
    <3> QED
        BY <3>1, <3>2 DEF Owns, StatusOf
  <2> QED
      BY <2>1, <2>2
<1>4. /\ recent' \in [Skus -> Listings \union {NoListing}]
      /\ \A s \in Skus : recent'[s] \in Listings => Owns(s, recent[s])'
    BY <1>2 DEF IInv, StoreGood
<1>5. RetiredIsGone'
    BY <1>1 DEF IInv, StoreGood, RetiredIsGone, Aged
<1> QED
    BY <1>3, <1>4, <1>5 DEF StoreGood, Tokens, PayloadTokens, Token, PayloadToken

(* Most actions change at most the listings, the uploads and the fetches. *)
LEMMA StoreAges ==
    ASSUME IInv, LifeStep, removals' \subseteq Listings, fetched' \subseteq Listings,
           UNCHANGED <<link, recent, retired, idem, recentOk>>,
           faults' \in Nat, deliveries' \in Nat
    PROVE  StoreGood'
BY StoreChanges DEF IInv, StoreGood

(* Nothing happens to the workers. *)
LEMMA WorldSteps ==
    ASSUME IInv, LifeStep, StoreGood', UNCHANGED <<pc, job>>
    PROVE  IInv' /\ LifeStep
<1>1. ListingsGood' /\ Aged
    BY Ageing DEF IInv
<1>2. ASSUME NEW w \in Workers
      PROVE  JobGood(job[w], pc[w])'
    BY <1>1, JobAges DEF IInv, JobsGood
<1> QED
    BY <1>1, <1>2 DEF IInv, JobsGood

(* The bounds stay numbers. *)
LEMMA BoundsType ==
    ASSUME IInv
    PROVE  /\ faults \in Nat /\ deliveries \in Nat
           /\ UNCHANGED bounds => faults' \in Nat /\ deliveries' \in Nat
           /\ UNCHANGED faults => faults' \in Nat
           /\ UNCHANGED deliveries => deliveries' \in Nat
           /\ NoFault => faults' \in Nat
           /\ \A kind : Fault(kind) => faults' \in Nat
BY DEF IInv, StoreGood, bounds, NoFault, Fault

-----------------------------------------------------------------------------
(* Within an item *)

LEMMA AtItem ==
    ASSUME IInv, NEW w \in Workers, pc[w] \in ItemLabels
    PROVE  /\ JobGood(job[w], pc[w]) /\ HasItem(w)
           /\ ItemOf(w) \in Item /\ job[w].i \in 1..Len(job[w].req.batch)
           /\ pc[w] \in SkuLabels => job[w].sku \in Skus
           /\ pc[w] \in FoundLabels => job[w].new \in Listings
<1>1. JobGood(job[w], pc[w])
    BY DEF IInv, JobsGood
<1>2. HasItem(w)
    BY <1>1 DEF JobGood, Counted, HasItem
<1> QED
    BY <1>1, <1>2, ItemType DEF JobGood, Stage

(* A step that leaves the locals as they are. *)
LEMMA Stepped ==
    ASSUME IInv, NEW w \in Workers, NEW from, NEW to, Step(w, from, to), UNCHANGED job
    PROVE  Update(w, job[w], to)
BY DEF IInv, JobsGood, Step, Update

-----------------------------------------------------------------------------
(* The actions of DirectApi and Reconcile: resolving the product *)

LEMMA NoIdentifierGood ==
    ASSUME IInv, NEW w \in Workers, NoIdentifier(w)
    PROVE  IInv' /\ LifeStep
BY BoundsType, QuietDone DEF NoIdentifier, InBatch, Fail, Link

(* An item whose SKU is resolved, or found to be unknown. *)
LEMMA SkuKnown ==
    ASSUME IInv, NEW w \in Workers, pc[w] = "item", HasItem(w), NEW sku \in Skus \union {NoSku},
           ItemOf(w).pid \in Listings /\ sku # NoSku => Owns(sku, ItemOf(w).pid)
    PROVE  JobGood([job[w] EXCEPT !.sku = sku], "fetchProduct")
<1> DEFINE j == [job[w] EXCEPT !.sku = sku]
<1>1. JobGood(job[w], "item")
    BY DEF IInv, JobsGood
<1>3. j \in Job
    BY <1>1 DEF JobGood, Job
<1>4. /\ j.req = job[w].req /\ j.i = job[w].i /\ j.sku = sku
      /\ j.cur = job[w].cur /\ j.new = job[w].new /\ j.old = job[w].old
      /\ j.ok = job[w].ok /\ j.bad = job[w].bad /\ j.oldSnap = job[w].oldSnap
    BY <1>1 DEF JobGood, Job
<1>5. Stage(j, "fetchProduct") /\ Counted(j, "fetchProduct") /\ InFlight(j) /\ SoldForGood(j)
    BY <1>1, <1>4 DEF JobGood, Stage, Counted, InFlight, SoldForGood, HasItem, ItemLabels, SkuLabels,
                      FoundLabels, ResultLabels, Labels
<1>6. HoldsItsOwn(j, "fetchProduct")
    BY <1>1, <1>4, ConstantsAssumption DEF JobGood, Stage, HoldsItsOwn, Holds, ItemOf
<1> QED
    BY <1>3, <1>5, <1>6 DEF JobGood, Labels

LEMMA UseWebhookSkuGood ==
    ASSUME IInv, NEW w \in Workers, UseWebhookSku(w)
    PROVE  IInv' /\ LifeStep
<1>1. pc[w] = "item" /\ HasItem(w) /\ ItemOf(w).sku # NoSku
    BY DEF UseWebhookSku, InBatch
<1>2. ItemOf(w) \in Item /\ job[w].i \in 1..Len(job[w].req.batch)
    BY <1>1, ItemType
<1>3. InFlight(job[w])
    BY DEF IInv, JobsGood, JobGood
<1>4. ItemOf(w).pid \in Listings => Owns(ItemOf(w).sku, ItemOf(w).pid)
    BY <1>1, <1>2, <1>3 DEF InFlight, ItemOf, Owns, CreatedListing
<1>5. JobGood([job[w] EXCEPT !.sku = ItemOf(w).sku], "fetchProduct")
    BY <1>1, <1>2, <1>4, SkuKnown DEF Item
<1> QED
    BY <1>5, BoundsType, QuietStep DEF UseWebhookSku

LEMMA LookupListingSkuGood ==
    ASSUME IInv, NEW w \in Workers, LookupListingSku(w)
    PROVE  IInv' /\ LifeStep
<1> DEFINE pid == ItemOf(w).pid
<1>1. pc[w] = "item" /\ HasItem(w) /\ pid # NoListing
    BY DEF LookupListingSku, InBatch
<1>2. ItemOf(w) \in Item /\ job[w].i \in 1..Len(job[w].req.batch)
    BY <1>1, ItemType
<1>3. pid \in Listings /\ CreatedListing(pid)
    BY <1>1, <1>2 DEF IInv, JobsGood, JobGood, InFlight, Item, ItemOf
<1>4. PICK sku \in {NoSku, listing[pid].sku} :
          Update(w, [job[w] EXCEPT !.sku = sku], "fetchProduct")
    BY DEF LookupListingSku
<1>5. sku \in Skus \union {NoSku} /\ (sku # NoSku => Owns(sku, pid))
    BY <1>3, <1>4 DEF IInv, ListingsGood, ListingState, Owns, CreatedListing
<1>6. JobGood([job[w] EXCEPT !.sku = sku], "fetchProduct")
    BY <1>1, <1>5, SkuKnown
<1>7. LifeStep
    BY DEF LookupListingSku, market, LifeStep
<1>8. fetched' \subseteq Listings /\ faults' \in Nat /\ deliveries' \in Nat
    BY <1>3, BoundsType DEF LookupListingSku, IInv, StoreGood
<1>9. StoreGood'
    BY <1>7, <1>8, StoreAges DEF LookupListingSku, market, IInv, StoreGood
<1> QED
    BY <1>4, <1>6, <1>7, <1>9, WorkerSteps

LEMMA FetchProductGood ==
    ASSUME IInv, NEW w \in Workers, FetchProduct(w)
    PROVE  IInv' /\ LifeStep
<1>1. JobGood(job[w], "fetchProduct") /\ pc[w] = "fetchProduct"
    BY DEF IInv, JobsGood, FetchProduct
<1>2. ASSUME NEW stocked \in BOOLEAN, NEW p \in {"loadCurrent", "change"}, job[w].sku # NoSku,
             p = "loadCurrent" => KindOf(w) = "quantity"
      PROVE  JobGood([job[w] EXCEPT !.cur = link[job[w].sku], !.stocked = stocked], p)
  <2> DEFINE j == [job[w] EXCEPT !.cur = link[job[w].sku], !.stocked = stocked]
  <2>1. job[w].sku \in Skus
      BY <1>1, <1>2 DEF JobGood, Job
  <2>2. link[job[w].sku] \in Link /\ (link[job[w].sku] \in Listings => Owns(job[w].sku, link[job[w].sku]))
      BY <2>1 DEF IInv, StoreGood
  <2>3. j \in Job
      BY <1>1, <2>2 DEF JobGood, Job
  <2>4. /\ j.req = job[w].req /\ j.i = job[w].i /\ j.sku = job[w].sku
        /\ j.cur = link[job[w].sku] /\ j.new = job[w].new /\ j.old = job[w].old
        /\ j.ok = job[w].ok /\ j.bad = job[w].bad /\ j.oldSnap = job[w].oldSnap
      BY <1>1 DEF JobGood, Job
  <2>5. Stage(j, p) /\ Counted(j, p) /\ InFlight(j) /\ SoldForGood(j)
      BY <1>1, <1>2, <2>1, <2>4 DEF JobGood, Stage, Counted, InFlight, SoldForGood, KindOf,
                                    ItemLabels, SkuLabels, FoundLabels, ResultLabels, Labels
  <2>6. HoldsItsOwn(j, p)
      BY <1>1, <2>2, <2>4 DEF JobGood, HoldsItsOwn, Holds, ItemLabels, ResultLabels, Labels
  <2> QED
      BY <2>3, <2>5, <2>6 DEF JobGood, Labels
<1>3. CASE \E stocked \in BOOLEAN : 
               Update(w, [job[w] EXCEPT !.cur = link[job[w].sku], !.stocked = stocked],
                         IF KindOf(w) = "quantity" THEN "loadCurrent" ELSE "change")
           /\ job[w].sku # NoSku
    BY <1>2, <1>3, BoundsType, QuietStep DEF FetchProduct
<1>4. CASE Fail(w)
  <2>1. HasItem(w) /\ pc[w] \in ItemLabels
      BY <1>1 DEF JobGood, Counted, HasItem, ItemLabels, ResultLabels, Labels
  <2> QED
      BY <1>4, <2>1, BoundsType, QuietDone DEF FetchProduct, Fail, Link
<1> QED
    BY <1>3, <1>4 DEF FetchProduct

-----------------------------------------------------------------------------
(* The listing recently created *)

LEMMA LookupRecentListingGood ==
    ASSUME IInv, NEW w \in Workers, LookupRecentListing(w)
    PROVE  IInv' /\ LifeStep
<1> DEFINE sku == IF KindOf(w) = "add" THEN ItemOf(w).sku ELSE job[w].sku
           j == [job[w] EXCEPT !.sku = sku, !.new = recent[sku]]
           p == IF recent[sku] = NoListing THEN "create" ELSE "fetchRecent"
<1>1. Update(w, j, p) /\ UNCHANGED <<market, caches, bounds>>
    BY DEF LookupRecentListing
<1>2. JobGood(job[w], pc[w])
    BY DEF IInv, JobsGood
<1>3. /\ sku \in Skus
      /\ job[w].i <= Len(job[w].req.batch) /\ job[w].ok + job[w].bad = job[w].i - 1
      /\ job[w].req \in Requests
      /\ Holds(job[w], job[w].cur) => (job[w].cur \in Listings => Owns(sku, job[w].cur))
      /\ Holds(job[w], job[w].old) => (job[w].old \in Listings => Owns(sku, job[w].old))
      /\ job[w].req.batch[job[w].i].pid \in Listings => Owns(sku, job[w].req.batch[job[w].i].pid)
  <2>1. CASE InBatch(w, {"add"}) /\ ItemOf(w).sku # NoSku
    <3>1. /\ pc[w] = "item" /\ HasItem(w) /\ KindOf(w) = "add" /\ sku = ItemOf(w).sku
          /\ ItemOf(w) \in Item /\ job[w].i \in 1..Len(job[w].req.batch)
        BY <2>1, ItemType DEF InBatch
    <3>2. sku \in Skus
        BY <2>1, <3>1 DEF Item
    <3>3. ItemOf(w).pid \in Listings => Owns(sku, ItemOf(w).pid)
        BY <1>2, <2>1, <3>1 DEF JobGood, InFlight, ItemOf, Owns, CreatedListing
    <3>4. job[w].cur = NoListing /\ job[w].old = NoListing
        BY <1>2, <3>1 DEF JobGood, Stage
    <3> QED
        BY <1>2, <3>1, <3>2, <3>3, <3>4, ConstantsAssumption
           DEF JobGood, Counted, Stage, HasItem, ItemOf
  <2>2. CASE pc[w] = "lookupRecent"
    <3>1. pc[w] \in SkuLabels /\ pc[w] \in ItemLabels
        BY <2>2 DEF SkuLabels, ItemLabels, ResultLabels, Labels
    <3>2. KindOf(w) # "add" /\ job[w].sku \in Skus /\ sku = job[w].sku /\ HasItem(w)
        BY <1>2, <2>2, <3>1, AtItem DEF JobGood, Stage, KindOf
    <3> QED
        BY <1>2, <3>1, <3>2, ConstantsAssumption DEF JobGood, Counted, Stage, HasItem, Holds, HoldsItsOwn, ItemLabels
  <2> QED
      BY <2>1, <2>2 DEF LookupRecentListing
<1>4. recent[sku] \in Listings \union {NoListing} /\ (recent[sku] \in Listings => Owns(sku, recent[sku]))
    BY <1>3 DEF IInv, StoreGood
<1>5. j \in Job /\ p \in Labels
    BY <1>2, <1>3, <1>4 DEF JobGood, Job, Link, Labels
<1>6. /\ j.req = job[w].req /\ j.i = job[w].i /\ j.sku = sku
      /\ j.cur = job[w].cur /\ j.new = recent[sku] /\ j.old = job[w].old
      /\ j.ok = job[w].ok /\ j.bad = job[w].bad /\ j.oldSnap = job[w].oldSnap
    BY <1>2 DEF JobGood, Job
<1> HIDE DEF sku, j, p
<1>7. Stage(j, p)
  <2>1. p \in {"create", "fetchRecent"} /\ (p = "fetchRecent" => recent[sku] \in Listings)
      BY <1>4 DEF p
  <2> QED
      BY <1>3, <1>6, <2>1 DEF Stage, FoundLabels
<1>8. Counted(j, p) /\ InFlight(j) /\ SoldForGood(j)
    BY <1>2, <1>3, <1>6 DEF JobGood, Counted, InFlight, SoldForGood, p
<1>9. HoldsItsOwn(j, p)
    BY <1>2, <1>3, <1>4, <1>6 DEF JobGood, HoldsItsOwn, Holds
<1> QED
    BY <1>1, <1>5, <1>7, <1>8, <1>9, BoundsType, QuietStep DEF JobGood

LEMMA FetchRecentListingGood ==
    ASSUME IInv, NEW w \in Workers, FetchRecentListing(w)
    PROVE  IInv' /\ LifeStep
<1>1. pc[w] = "fetchRecent"
    BY DEF FetchRecentListing
<1>2. JobGood(job[w], "fetchRecent") /\ job[w].sku \in Skus /\ job[w].new \in Listings
    BY <1>1, AtItem DEF ItemLabels, SkuLabels, FoundLabels, ResultLabels, Labels
<1>3. LifeStep
    BY DEF FetchRecentListing, market, LifeStep
<1>4. StoreGood'
  <2>1. fetched' \subseteq Listings
      BY <1>2 DEF FetchRecentListing, IInv, StoreGood
  <2> QED
      BY <1>3, <2>1, BoundsType, StoreAges DEF FetchRecentListing, market, IInv, StoreGood
<1>5. CASE Update(w, [job[w] EXCEPT !.new = NoListing], "create")
  <2> DEFINE j == [job[w] EXCEPT !.new = NoListing]
  <2>1. j \in Job
      BY <1>2 DEF JobGood, Job, Link
  <2>2. /\ j.req = job[w].req /\ j.i = job[w].i /\ j.sku = job[w].sku
        /\ j.cur = job[w].cur /\ j.new = NoListing /\ j.old = job[w].old
        /\ j.ok = job[w].ok /\ j.bad = job[w].bad /\ j.oldSnap = job[w].oldSnap
      BY <1>2 DEF JobGood, Job
  <2>3. Stage(j, "create") /\ Counted(j, "create") /\ InFlight(j) /\ SoldForGood(j)
      BY <1>2, <2>2 DEF JobGood, Stage, Counted, InFlight, SoldForGood, ItemLabels, SkuLabels,
                        FoundLabels, ResultLabels, Labels
  <2>4. HoldsItsOwn(j, "create")
      BY <1>2, <2>2, ConstantsAssumption
         DEF JobGood, HoldsItsOwn, Holds, ItemLabels, ResultLabels, Labels
  <2>5. JobGood(j, "create")
      BY <2>1, <2>3, <2>4 DEF JobGood, Labels
  <2> QED
      BY <1>3, <1>4, <1>5, <2>5, WorkerSteps
<1>6. ASSUME NEW p \in {"storeRecent", "linkRecent"}, Update(w, job[w], p)
      PROVE  IInv' /\ LifeStep
  <2>1. JobGood(job[w], p)
      BY <1>2 DEF JobGood, Stage, Counted, HoldsItsOwn, ItemLabels, SkuLabels, FoundLabels,
                  ResultLabels, Labels
  <2> QED
      BY <1>3, <1>4, <1>6, <2>1, WorkerSteps
<1> QED
    BY <1>5, <1>6 DEF FetchRecentListing

-----------------------------------------------------------------------------
(* Creating a listing *)

LEMMA Posted ==
    ASSUME IInv, NEW w \in Workers, pc[w] = "create", PostListing(w)
    PROVE  /\ LifeStep /\ FreshId \in Listings /\ job[w].sku \in Skus
           /\ listing'[FreshId].status # "Unused" /\ listing'[FreshId].sku = job[w].sku
<1>1. FreshId \in Listings /\ StatusOf(FreshId) = "Unused"
    BY DEF PostListing, Created, FreshId, UnusedIds
<1>2. job[w].sku \in Skus /\ ItemOf(w) \in Item
    BY AtItem DEF ItemLabels, SkuLabels, ResultLabels, Labels
<1>3. CreateStatus(w) \in {"For Sale", "Draft"}
    BY DEF CreateStatus
<1>4. PICK priced \in BOOLEAN :
           listing' = [listing EXCEPT ![FreshId] =
                         [status |-> CreateStatus(w), sku |-> job[w].sku, priced |-> priced]]
  <2>1. (IF KindOf(w) = "add" THEN ItemOf(w).priced ELSE job[w].sku \in PricedSkus) \in BOOLEAN
    <3>1. CASE KindOf(w) = "add"
        BY <1>2, <3>1 DEF Item
    <3>2. CASE KindOf(w) # "add"
        BY <3>2
    <3> QED
        BY <3>1, <3>2
  <2> QED
      BY <2>1 DEF PostListing, Created
<1>5. Lifecycle!Create(FreshId)
    BY <1>1, <1>2, <1>3, <1>4 DEF Lifecycle!Create, StatusOf
<1>6. LifeStep
    BY <1>1, <1>5 DEF LifeStep, Lifecycle!Next
<1>7. listing'[FreshId] = [status |-> CreateStatus(w), sku |-> job[w].sku, priced |-> priced]
    BY <1>1, <1>4 DEF IInv, ListingsGood
<1>8. listing'[FreshId].status = CreateStatus(w) /\ listing'[FreshId].sku = job[w].sku
    BY <1>7
<1> QED
    BY <1>1, <1>2, <1>3, <1>6, <1>8

LEMMA CreateListingGood ==
    ASSUME IInv, NEW w \in Workers, CreateListing(w)
    PROVE  IInv' /\ LifeStep
<1>1. PICK k : k = job[w]
    OBVIOUS
<1>2. PICK l : l = FreshId
    OBVIOUS
<1>3. PICK p \in {"storeRecent", "linkNew"} : Update(w, [k EXCEPT !.new = l], p)
    BY <1>1, <1>2 DEF CreateListing
<1>4. pc[w] = "create" /\ PostListing(w) /\ UNCHANGED <<removals, link, caches, bounds>>
    BY DEF CreateListing
<1>5. JobGood(k, "create") /\ k.sku \in Skus
    BY <1>1, <1>4, AtItem DEF ItemLabels, SkuLabels, FoundLabels, ResultLabels, Labels
<1>6. /\ LifeStep /\ l \in Listings
      /\ listing'[l].status # "Unused" /\ listing'[l].sku = k.sku
    BY <1>1, <1>2, <1>4, Posted
<1>7. ListingsGood' /\ Aged
    BY <1>6, Ageing DEF IInv
<1>8. StoreGood'
    BY <1>4, <1>6, BoundsType, StoreAges DEF caches, bounds, IInv, StoreGood
<1>9. JobGood(k, "create")'
    BY <1>5, <1>7, JobAges
<1>10. JobGood([k EXCEPT !.new = l], p)'
  <2> DEFINE j == [k EXCEPT !.new = l]
  <2>1. j \in Job
      BY <1>5, <1>6 DEF JobGood, Job, Link
  <2>2. /\ j.req = k.req /\ j.i = k.i /\ j.sku = k.sku
        /\ j.cur = k.cur /\ j.new = l /\ j.old = k.old
        /\ j.ok = k.ok /\ j.bad = k.bad /\ j.oldSnap = k.oldSnap
      BY <1>5 DEF JobGood, Job
  <2> HIDE DEF j
  <2>3. Stage(j, p)' /\ Counted(j, p)' /\ InFlight(j)' /\ SoldForGood(j)'
      BY <1>5, <1>6, <1>9, <2>2 DEF JobGood, Stage, Counted, InFlight, SoldForGood, ItemLabels,
                                    SkuLabels, FoundLabels, ResultLabels, Labels
  <2>4. HoldsItsOwn(j, p)'
      BY <1>6, <1>9, <2>2 DEF JobGood, HoldsItsOwn, Holds, Owns, StatusOf, ItemLabels, ResultLabels, Labels
  <2>5. JobGood(j, p)'
      BY <2>1, <2>3, <2>4 DEF JobGood, Labels
  <2> QED
      BY <2>5 DEF j
<1> QED
    BY <1>3, <1>6, <1>7, <1>8, <1>10, JobStep DEF IInv

LEMMA CreateLostGood ==
    ASSUME IInv, NEW w \in Workers, CreateLost(w)
    PROVE  IInv' /\ LifeStep
<1>1. LifeStep
    BY Posted DEF CreateLost
<1>2. StoreGood'
    BY <1>1, BoundsType, StoreAges DEF CreateLost, caches, IInv, StoreGood
<1> QED
    BY <1>1, <1>2, WorldSteps DEF CreateLost

LEMMA CreateFailsGood ==
    ASSUME IInv, NEW w \in Workers, CreateFails(w)
    PROVE  IInv' /\ LifeStep
<1>1. pc[w] \in ItemLabels /\ HasItem(w)
    BY AtItem DEF CreateFails, ItemLabels, ResultLabels, Labels
<1> QED
    BY <1>1, BoundsType, QuietDone DEF CreateFails, Fail, Link

LEMMA AddRejectedGood ==
    ASSUME IInv, NEW w \in Workers, AddRejected(w)
    PROVE  IInv' /\ LifeStep
BY BoundsType, QuietDone DEF AddRejected, InBatch, Fail, Link

LEMMA AddStoreRecentGood ==
    ASSUME IInv, NEW w \in Workers, AddStoreRecent(w)
    PROVE  IInv' /\ LifeStep
<1>1. pc[w] = "storeRecent" /\ Update(w, job[w], "addLink")
    BY Stepped DEF AddStoreRecent, Step
<1>2. JobGood(job[w], "storeRecent") /\ job[w].sku \in Skus /\ job[w].new \in Listings
    BY <1>1, AtItem DEF ItemLabels, SkuLabels, FoundLabels, ResultLabels, Labels
<1>3. LifeStep
    BY DEF AddStoreRecent, market, LifeStep
<1>4. Owns(job[w].sku, job[w].new)
    BY <1>2, ConstantsAssumption DEF JobGood, HoldsItsOwn, Holds
<1>5. StoreGood'
    BY <1>2, <1>3, <1>4, BoundsType, StoreChanges DEF AddStoreRecent, market, IInv, StoreGood
<1>6. JobGood(job[w], "addLink")
    BY <1>2 DEF JobGood, Stage, Counted, HoldsItsOwn, ItemLabels, SkuLabels, FoundLabels, ResultLabels,
                Labels
<1> QED
    BY <1>1, <1>3, <1>5, <1>6, WorkerSteps

LEMMA AddLinkGood ==
    ASSUME IInv, NEW w \in Workers, AddLink(w)
    PROVE  IInv' /\ LifeStep
<1>1. pc[w] = "addLink"
    BY DEF AddLink
<1>2. /\ JobGood(job[w], "addLink") /\ HasItem(w) /\ pc[w] \in ItemLabels
      /\ job[w].sku \in Skus /\ job[w].new \in Listings
    BY <1>1, AtItem DEF ItemLabels, SkuLabels, FoundLabels, ResultLabels, Labels
<1>3. LifeStep
    BY DEF AddLink, LifeStep
<1>4. Owns(job[w].sku, job[w].new)
    BY <1>2, ConstantsAssumption DEF JobGood, HoldsItsOwn, Holds
<1>5. link' = link \/ link' = [link EXCEPT ![job[w].sku] = job[w].new]
    BY DEF AddLink
<1>6. StoreGood'
    BY <1>2, <1>3, <1>4, <1>5, BoundsType, StoreChanges DEF AddLink, caches, IInv, StoreGood, Link
<1> QED
    BY <1>2, <1>3, <1>6, ItemDone DEF AddLink, Succeed, Link

-----------------------------------------------------------------------------
(* Changing a price *)

LEMMA AtChange ==
    ASSUME IInv, NEW w \in Workers, pc[w] \in {"change", "changeFetch", "changeEdit"}
    PROVE  /\ JobGood(job[w], pc[w]) /\ HasItem(w) /\ pc[w] \in ItemLabels
           /\ job[w].sku \in Skus /\ ItemOf(w) \in Item
           /\ pc[w] # "change" => job[w].old \in Listings /\ Owns(job[w].sku, job[w].old)
           /\ ChangeTarget(w) \in Listings \union {NoListing}
           /\ ChangeTarget(w) \in Listings => Owns(job[w].sku, ChangeTarget(w))
<1>1. /\ JobGood(job[w], pc[w]) /\ HasItem(w) /\ pc[w] \in ItemLabels
      /\ job[w].sku \in Skus /\ ItemOf(w) \in Item
    BY AtItem DEF ItemLabels, SkuLabels, ResultLabels, Labels
<1>2. pc[w] # "change" => job[w].old \in Listings
    BY <1>1 DEF JobGood, Stage
<1>3. \A l \in {job[w].cur, job[w].old, ItemOf(w).pid} : l \in Listings => Owns(job[w].sku, l)
    BY <1>1, ConstantsAssumption DEF JobGood, HoldsItsOwn, Holds, ItemOf
<1>4. job[w].cur \in Link /\ ItemOf(w).pid \in Listings \union {NoListing}
    BY <1>1 DEF JobGood, Job, Item
<1> QED
    BY <1>1, <1>2, <1>3, <1>4 DEF ChangeTarget

LEMMA ChangeAcknowledgedGood ==
    ASSUME IInv, NEW w \in Workers, ChangeAcknowledged(w)
    PROVE  IInv' /\ LifeStep
<1>1. HasItem(w) /\ pc[w] \in ItemLabels /\ ChangeTarget(w) \in Link
    BY AtChange DEF ChangeAcknowledged, Link
<1> QED
    BY <1>1, BoundsType, QuietDone DEF ChangeAcknowledged, Succeed

LEMMA ChangeBeginGood ==
    ASSUME IInv, NEW w \in Workers, ChangeBegin(w)
    PROVE  IInv' /\ LifeStep
<1> DEFINE l == ChangeTarget(w)
           j == [job[w] EXCEPT !.old = l]
<1>1. pc[w] = "change" /\ l # NoListing
    BY DEF ChangeBegin
<1>2. JobGood(job[w], "change") /\ job[w].sku \in Skus /\ l \in Listings /\ Owns(job[w].sku, l)
    BY <1>1, AtChange
<1> HIDE DEF l
<1>3. j \in Job
    BY <1>2 DEF JobGood, Job, Link
<1>4. /\ j.req = job[w].req /\ j.i = job[w].i /\ j.sku = job[w].sku
      /\ j.cur = job[w].cur /\ j.new = job[w].new /\ j.old = l
      /\ j.ok = job[w].ok /\ j.bad = job[w].bad /\ j.oldSnap = job[w].oldSnap
    BY <1>2 DEF JobGood, Job
<1>5. Stage(j, "changeFetch") /\ Counted(j, "changeFetch") /\ InFlight(j)
    BY <1>2, <1>4 DEF JobGood, Stage, Counted, InFlight, ItemLabels, SkuLabels, FoundLabels,
                      ResultLabels, Labels
<1>6. SoldForGood(j)
    BY <1>2, <1>4 DEF JobGood, Stage, SoldForGood, Absent
<1>7. HoldsItsOwn(j, "changeFetch")
    BY <1>2, <1>4 DEF JobGood, HoldsItsOwn, Holds, ItemLabels, ResultLabels, Labels
<1>8. JobGood(j, "changeFetch")
    BY <1>3, <1>5, <1>6, <1>7 DEF JobGood, Labels
<1> QED
    BY <1>8, BoundsType, QuietStep DEF ChangeBegin, l

LEMMA ChangeFetchGood ==
    ASSUME IInv, NEW w \in Workers, ChangeFetch(w)
    PROVE  IInv' /\ LifeStep
<1> DEFINE l == job[w].old
           j == [job[w] EXCEPT !.oldSnap = listing[l]]
<1>1. pc[w] = "changeFetch"
    BY DEF ChangeFetch
<1>2. /\ JobGood(job[w], "changeFetch") /\ HasItem(w) /\ pc[w] \in ItemLabels
      /\ job[w].sku \in Skus /\ l \in Listings /\ Owns(job[w].sku, l)
    BY <1>1, AtChange
<1>3. LifeStep
    BY DEF ChangeFetch, market, LifeStep
<1>4. StoreGood'
  <2>1. fetched' \subseteq Listings /\ retired' \subseteq Listings
      BY <1>2 DEF ChangeFetch, IInv, StoreGood
  <2>2. \A m \in retired' : m \in retired \/ StatusOf(m)' = "Gone"
    <3>1. ~Fetchable(l) => StatusOf(l) = "Gone"
        BY <1>2 DEF Fetchable, IsListing, Owns, IInv, ListingsGood, ListingState, Statuses, StatusOf
    <3>2. listing' = listing /\ \A m \in retired' : m \in retired \/ (m = l /\ ~Fetchable(l))
        BY DEF ChangeFetch, market
    <3> QED
        BY <3>1, <3>2 DEF StatusOf
  <2> QED
      BY <1>3, <2>1, <2>2, BoundsType, StoreChanges DEF ChangeFetch, market, IInv, StoreGood
<1>5. CASE Fetchable(l) /\ Update(w, j, "changeEdit")
  <2>1. listing[l] \in Snapshot
      BY <1>2, <1>5 DEF Fetchable, IInv, ListingsGood, ListingState, Snapshot, Existing, StatusOf
  <2>2. j \in Job
      BY <1>2, <2>1 DEF JobGood, Job
  <2>3. /\ j.req = job[w].req /\ j.i = job[w].i /\ j.sku = job[w].sku
        /\ j.cur = job[w].cur /\ j.new = job[w].new /\ j.old = l
        /\ j.ok = job[w].ok /\ j.bad = job[w].bad /\ j.oldSnap = listing[l]
      BY <1>2 DEF JobGood, Job
  <2>4. /\ Stage(j, "changeEdit") /\ Counted(j, "changeEdit") /\ InFlight(j) /\ SoldForGood(j)
        /\ HoldsItsOwn(j, "changeEdit")
      BY <1>2, <2>3 DEF JobGood, Stage, Counted, InFlight, SoldForGood, HoldsItsOwn, Holds, StatusOf,
                        ItemLabels, SkuLabels, FoundLabels, ResultLabels, Labels
  <2>5. JobGood(j, "changeEdit")
      BY <2>2, <2>4 DEF JobGood, Labels
  <2> QED
      BY <1>3, <1>4, <1>5, <2>5, WorkerSteps
<1>6. CASE Succeed(w, l)
    BY <1>2, <1>3, <1>4, <1>6, ItemDone DEF Succeed, Link
<1> QED
    BY <1>5, <1>6 DEF ChangeFetch

LEMMA ChangeSkippedGood ==
    ASSUME IInv, NEW w \in Workers, ChangeSkipped(w)
    PROVE  IInv' /\ LifeStep
<1>1. HasItem(w) /\ pc[w] \in ItemLabels /\ job[w].old \in Link
    BY AtChange DEF ChangeSkipped, Link
<1> QED
    BY <1>1, BoundsType, QuietDone DEF ChangeSkipped, Succeed

(* An edit keeps the SKU of the listing and never takes its price away. *)
LEMMA EditedLives ==
    ASSUME IInv, NEW w \in Workers, pc[w] = "changeEdit", Editable(job[w].old), listing' = Edited(w)
    PROVE  LifeStep
<1> DEFINE l == job[w].old
<1>1. l \in Listings /\ listing[l].sku = job[w].sku /\ ItemOf(w) \in Item
    BY AtChange DEF Owns
<1>2. listing[l] \in ListingState /\ listing[l].status \in Live
    BY <1>1 DEF IInv, ListingsGood, Editable, StatusOf
<1>3. Reactivates(w) \in BOOLEAN
    BY DEF Reactivates
<1> DEFINE status == IF Reactivates(w) THEN "For Sale" ELSE listing[l].status
           priced == listing[l].priced \/ ItemOf(w).priced
<1>4. status \in Lifecycle!MayBecome(listing[l].status) \union {listing[l].status}
    BY <1>2 DEF Live, Lifecycle!MayBecome, Lifecycle!Moves
<1>5. priced \in {listing[l].priced, TRUE}
    BY <1>1, <1>2 DEF ListingState, Item
<1>6. listing' = [listing EXCEPT ![l] = [status |-> status, sku |-> listing[l].sku, priced |-> priced]]
    BY <1>1 DEF Edited, IInv, ListingsGood
<1>7. StatusOf(l) # "Unused"
    BY <1>2 DEF StatusOf, Live
<1> HIDE DEF status, priced
<1> QED
    BY <1>1, <1>4, <1>5, <1>6, <1>7, ChangeLives DEF IInv, StatusOf

LEMMA ChangeEditGood ==
    ASSUME IInv, NEW w \in Workers, ChangeEdit(w)
    PROVE  IInv' /\ LifeStep
<1> DEFINE l == job[w].old
<1>1. pc[w] = "changeEdit"
    BY DEF ChangeEdit
<1>2. HasItem(w) /\ pc[w] \in ItemLabels /\ l \in Listings
    BY <1>1, AtChange
<1>3. LifeStep
  <2>1. CASE listing' = listing
      BY <2>1 DEF LifeStep
  <2>2. CASE Editable(l) /\ listing' = Edited(w)
      BY <1>1, <2>2, EditedLives
  <2> QED
      BY <2>1, <2>2 DEF ChangeEdit
<1>4. StoreGood'
    BY <1>3, BoundsType, StoreAges DEF ChangeEdit, IInv, StoreGood
<1> QED
    BY <1>2, <1>3, <1>4, ItemDone DEF ChangeEdit, Succeed, Link

-----------------------------------------------------------------------------
(* Deleting *)

LEMMA Removable ==
    ASSUME IInv, NEW l, Fetchable(l), SetStatus(l, "Gone")
    PROVE  LifeStep
<1>1. l \in Listings /\ StatusOf(l) \in Existing
    BY DEF Fetchable, IsListing
<1>2. "Gone" \in Lifecycle!MayBecome(StatusOf(l))
    BY <1>1 DEF Existing, Live, Lifecycle!MayBecome, Lifecycle!Moves
<1> QED
    BY <1>1, <1>2, StatusLives DEF IInv, Existing, Live

LEMMA DeleteListingGood ==
    ASSUME IInv, NEW w \in Workers, DeleteListing(w)
    PROVE  IInv' /\ LifeStep
<1> DEFINE l == ItemOf(w).pid
<1>1. pc[w] = "item" /\ HasItem(w)
    BY DEF DeleteListing, InBatch
<1>2. l \in Link
    BY <1>1, ItemType DEF Item, Link
<1>3. LifeStep
  <2>1. CASE listing' = listing
      BY <2>1 DEF LifeStep
  <2>2. CASE Fetchable(l) /\ SetStatus(l, "Gone")
      BY <2>2, Removable
  <2> QED
      BY <2>1, <2>2 DEF DeleteListing, SetStatus
<1>4. StoreGood'
    BY <1>3, BoundsType, StoreAges DEF DeleteListing, IInv, StoreGood
<1> QED
    BY <1>1, <1>2, <1>3, <1>4, ItemDone DEF DeleteListing, Succeed, Fail, Link

LEMMA UploadDeletesGood ==
    ASSUME IInv, NEW w \in Workers, UploadDeletes(w)
    PROVE  IInv' /\ LifeStep
<1> DEFINE n == Len(job[w].req.batch)
<1>1. JobGood(job[w], "item") /\ job[w].req \in Requests /\ n \in Nat
  <2>1. JobGood(job[w], "item") /\ HasItem(w) /\ job[w].req \in Requests
      BY DEF UploadDeletes, InBatch, IInv, JobsGood, JobGood, Stage
  <2> QED
      BY <2>1, ConstantsAssumption DEF Request
<1>2. LifeStep
    BY DEF UploadDeletes, LifeStep
<1>3. removals' \subseteq Listings
    BY DEF UploadDeletes, IInv, StoreGood
<1>4. StoreGood'
    BY <1>2, <1>3, BoundsType, StoreAges DEF UploadDeletes, caches, IInv, StoreGood
<1>5. PICK ok \in {0, n}, bad \in {0, n} :
           /\ ok + bad = n
           /\ Update(w, [FreshJob(job[w].req, n + 1) EXCEPT !.ok = ok, !.bad = bad], "item")
    BY <1>1 DEF UploadDeletes
<1> DEFINE j == [FreshJob(job[w].req, n + 1) EXCEPT !.ok = ok, !.bad = bad]
<1>6. j \in Job
  <2>1. ok \in Nat /\ bad \in Nat /\ n + 1 \in Nat \ {0} /\ NoListing \in Link
      BY <1>1, <1>5 DEF Link
  <2> HIDE DEF n
  <2> QED
      BY <1>1, <2>1, FreshJobType
<1>7. /\ j.req = job[w].req /\ j.i = n + 1
      /\ j.cur = NoListing /\ j.new = NoListing /\ j.old = NoListing /\ j.oldSnap = Absent
      /\ j.ok = ok /\ j.bad = bad
    BY DEF FreshJob
<1> HIDE DEF j
<1>8. Stage(j, "item") /\ Counted(j, "item")
    BY <1>1, <1>5, <1>7 DEF Stage, Counted, ItemLabels, SkuLabels, FoundLabels, ResultLabels
<1>9. InFlight(j) /\ HoldsItsOwn(j, "item") /\ SoldForGood(j)
    BY <1>1, <1>7, ConstantsAssumption
       DEF JobGood, InFlight, HoldsItsOwn, Holds, SoldForGood, ItemLabels
<1>10. JobGood(j, "item")
    BY <1>6, <1>8, <1>9 DEF JobGood, Labels
<1> QED
    BY <1>2, <1>4, <1>5, <1>10, WorkerSteps DEF j

-----------------------------------------------------------------------------
(* Reconciling a stock level *)

LEMMA Loaded ==
    ASSUME IInv, NEW l, NEW snap \in Snapshot, Load(l, snap)
    PROVE  /\ fetched' \subseteq Listings /\ faults' \in Nat
           /\ snap.status = "Sold" => l \in Listings /\ StatusOf(l) = "Sold"
BY BoundsType DEF Load, IInv, StoreGood, Fetchable, IsListing, StatusOf, Absent

LEMMA LoadCurrentGood ==
    ASSUME IInv, NEW w \in Workers, LoadCurrent(w)
    PROVE  IInv' /\ LifeStep
<1> DEFINE l == CleanupId(w)
<1>1. PICK snap \in Snapshot, p \in {"decide", "loadCleanup"} :
           /\ Load(job[w].cur, snap)
           /\ Update(w, [job[w] EXCEPT !.curSnap = snap, !.old = l, !.oldSnap = snap], p)
    BY DEF LoadCurrent
<1>2. pc[w] = "loadCurrent"
    BY DEF LoadCurrent
<1>3. JobGood(job[w], "loadCurrent") /\ job[w].sku \in Skus /\ ItemOf(w) \in Item
    BY <1>2, AtItem DEF ItemLabels, SkuLabels, ResultLabels, Labels
<1>4. /\ job[w].cur \in Listings => Owns(job[w].sku, job[w].cur)
      /\ ItemOf(w).pid \in Listings => Owns(job[w].sku, ItemOf(w).pid)
    BY <1>3, ConstantsAssumption
       DEF JobGood, HoldsItsOwn, Holds, ItemOf, ItemLabels, ResultLabels, Labels
<1>5. l \in Link /\ (l \in Listings => Owns(job[w].sku, l))
    BY <1>3, <1>4 DEF CleanupId, Item, Link
<1>6. snap.status = "Sold" => l \in Listings /\ StatusOf(l) = "Sold"
    BY <1>1, Loaded DEF CleanupId
<1>7. LifeStep
    BY DEF LoadCurrent, market, LifeStep
<1>8. StoreGood'
    BY <1>1, <1>7, Loaded, BoundsType, StoreAges DEF LoadCurrent, market, IInv, StoreGood
<1> HIDE DEF l
<1> DEFINE j == [job[w] EXCEPT !.curSnap = snap, !.old = l, !.oldSnap = snap]
<1>9. j \in Job
    BY <1>3, <1>5 DEF JobGood, Job
<1>10. /\ j.req = job[w].req /\ j.i = job[w].i /\ j.sku = job[w].sku
       /\ j.cur = job[w].cur /\ j.new = job[w].new /\ j.old = l
       /\ j.ok = job[w].ok /\ j.bad = job[w].bad /\ j.oldSnap = snap
    BY <1>3 DEF JobGood, Job
<1>11. Stage(j, p) /\ Counted(j, p) /\ InFlight(j)
    BY <1>3, <1>10 DEF JobGood, Stage, Counted, InFlight, ItemLabels, SkuLabels, FoundLabels,
                       ResultLabels, Labels
<1>12. SoldForGood(j) /\ HoldsItsOwn(j, p)
    BY <1>3, <1>5, <1>6, <1>10 DEF JobGood, SoldForGood, HoldsItsOwn, Holds, ItemLabels, ResultLabels,
                                   Labels
<1>13. JobGood(j, p)
    BY <1>9, <1>11, <1>12 DEF JobGood, Labels
<1> QED
    BY <1>1, <1>7, <1>8, <1>13, WorkerSteps

LEMMA LoadCleanupGood ==
    ASSUME IInv, NEW w \in Workers, LoadCleanup(w)
    PROVE  IInv' /\ LifeStep
<1>1. PICK snap \in Snapshot :
           Load(job[w].old, snap) /\ Update(w, [job[w] EXCEPT !.oldSnap = snap], "decide")
    BY DEF LoadCleanup
<1>2. JobGood(job[w], "loadCleanup")
    BY DEF LoadCleanup, IInv, JobsGood
<1>3. LifeStep
    BY DEF LoadCleanup, market, LifeStep
<1>4. StoreGood'
    BY <1>1, <1>3, Loaded, BoundsType, StoreAges DEF LoadCleanup, market, IInv, StoreGood
<1> DEFINE j == [job[w] EXCEPT !.oldSnap = snap]
<1>5. j \in Job
    BY <1>2 DEF JobGood, Job
<1>6. /\ j.req = job[w].req /\ j.i = job[w].i /\ j.sku = job[w].sku
      /\ j.cur = job[w].cur /\ j.new = job[w].new /\ j.old = job[w].old
      /\ j.ok = job[w].ok /\ j.bad = job[w].bad /\ j.oldSnap = snap
    BY <1>2 DEF JobGood, Job
<1>7. Stage(j, "decide") /\ Counted(j, "decide") /\ InFlight(j) /\ HoldsItsOwn(j, "decide")
    BY <1>2, <1>6 DEF JobGood, Stage, Counted, InFlight, HoldsItsOwn, Holds, ItemLabels, SkuLabels,
                      FoundLabels, ResultLabels, Labels
<1>8. SoldForGood(j)
    BY <1>1, <1>6, Loaded DEF SoldForGood
<1>9. JobGood(j, "decide")
    BY <1>5, <1>7, <1>8 DEF JobGood, Labels
<1> QED
    BY <1>1, <1>3, <1>4, <1>9, WorkerSteps

LEMMA AtDecide ==
    ASSUME IInv, NEW w \in Workers, pc[w] = "decide"
    PROVE  /\ JobGood(job[w], "decide") /\ HasItem(w) /\ pc[w] \in ItemLabels
           /\ job[w].sku \in Skus /\ job[w].cur \in Link
BY AtItem DEF JobGood, Job, ItemLabels, SkuLabels, ResultLabels, Labels

LEMMA AcknowledgeGood ==
    ASSUME IInv, NEW w \in Workers, Acknowledge(w)
    PROVE  IInv' /\ LifeStep
BY AtDecide, BoundsType, QuietDone DEF Acknowledge, Reusable, Succeed

LEMMA EditStatusGood ==
    ASSUME IInv, NEW w \in Workers, EditStatus(w)
    PROVE  IInv' /\ LifeStep
<1> DEFINE l == job[w].cur
<1>1. /\ JobGood(job[w], "decide") /\ HasItem(w) /\ pc[w] \in ItemLabels /\ l \in Link
    BY AtDecide DEF EditStatus, Reusable
<1>2. StatusFor(w) \in {"For Sale", "Draft"}
    BY DEF EditStatus, StatusFor
<1>3. LifeStep
  <2>1. CASE listing' = listing
      BY <2>1 DEF LifeStep
  <2>2. CASE Editable(l) /\ SetStatus(l, StatusFor(w))
    <3>1. l \in Listings /\ StatusOf(l) \in Live
        BY <2>2 DEF Editable, IsListing
    <3>2. StatusFor(w) \in Lifecycle!MayBecome(StatusOf(l)) \union {StatusOf(l)}
        BY <1>2, <3>1 DEF Live, Lifecycle!MayBecome, Lifecycle!Moves
    <3> QED
        BY <2>2, <3>1, <3>2, StatusLives DEF IInv, Live
  <2> QED
      BY <2>1, <2>2 DEF EditStatus, SetStatus
<1>4. StoreGood'
    BY <1>3, BoundsType, StoreAges DEF EditStatus, IInv, StoreGood
<1> QED
    BY <1>1, <1>3, <1>4, ItemDone DEF EditStatus, Succeed, Fail, Link

LEMMA WantsListingGood ==
    ASSUME IInv, NEW w \in Workers, WantsListing(w)
    PROVE  IInv' /\ LifeStep
<1>1. Update(w, job[w], "lookupRecent") /\ JobGood(job[w], "decide")
    BY Stepped, AtDecide DEF WantsListing
<1>2. JobGood(job[w], "lookupRecent")
    BY <1>1 DEF JobGood, Stage, Counted, HoldsItsOwn, ItemLabels, SkuLabels, FoundLabels,
                ResultLabels, Labels
<1> QED
    BY <1>1, <1>2, BoundsType, QuietStep DEF WantsListing

(* A link written, to a listing of the product or to none. *)
LEMMA UpdateLinkGood ==
    ASSUME IInv, NEW w \in Workers, NEW target \in Link, NEW p \in {"cleanup", "cleanupRelist"},
           pc[w] \in SkuLabels, target \in Listings => Owns(job[w].sku, target),
           p = "cleanupRelist" => target \in Listings,
           UpdateLink(w, target, p)
    PROVE  IInv' /\ LifeStep
<1>1. /\ JobGood(job[w], pc[w]) /\ HasItem(w) /\ pc[w] \in ItemLabels /\ job[w].sku \in Skus
    BY AtItem DEF SkuLabels
<1>2. LifeStep
    BY DEF UpdateLink, LifeStep
<1>3. link' = link \/ link' = [link EXCEPT ![job[w].sku] = target]
    BY DEF UpdateLink
<1>4. StoreGood'
    BY <1>1, <1>2, <1>3, BoundsType, StoreChanges DEF UpdateLink, caches, IInv, StoreGood
<1>5. CASE Update(w, [job[w] EXCEPT !.new = target], p)
  <2> DEFINE j == [job[w] EXCEPT !.new = target]
  <2>1. j \in Job
      BY <1>1 DEF JobGood, Job
  <2>2. /\ j.req = job[w].req /\ j.i = job[w].i /\ j.sku = job[w].sku
        /\ j.cur = job[w].cur /\ j.new = target /\ j.old = job[w].old
        /\ j.ok = job[w].ok /\ j.bad = job[w].bad /\ j.oldSnap = job[w].oldSnap
      BY <1>1 DEF JobGood, Job
  <2>3. Stage(j, p)
      BY <1>1, <2>2 DEF JobGood, Stage, FoundLabels, ItemLabels, ResultLabels
  <2>4. Counted(j, p) /\ InFlight(j) /\ SoldForGood(j) /\ HoldsItsOwn(j, p)
      BY <1>1, <2>2 DEF JobGood, Counted, InFlight, SoldForGood, HoldsItsOwn, Holds
  <2>5. JobGood(j, p)
      BY <2>1, <2>3, <2>4 DEF JobGood, Labels
  <2> QED
      BY <1>2, <1>4, <1>5, <2>5, WorkerSteps
<1>6. CASE Fail(w)
    BY <1>1, <1>2, <1>4, <1>6, ItemDone DEF Fail, Link
<1> QED
    BY <1>5, <1>6 DEF UpdateLink

LEMMA LinkGood ==
    ASSUME IInv, NEW w \in Workers, LinkZero(w) \/ LinkRecent(w) \/ LinkNew(w)
    PROVE  IInv' /\ LifeStep
<1>1. CASE LinkZero(w)
  <2>1. pc[w] \in SkuLabels /\ UpdateLink(w, ZeroListing, "cleanup")
      BY <1>1 DEF LinkZero, SkuLabels, ItemLabels, ResultLabels, Labels
  <2> QED
      BY <2>1, UpdateLinkGood, ConstantsAssumption DEF Link
<1>2. CASE LinkRecent(w) \/ LinkNew(w)
  <2>1. PICK p \in {"cleanup", "cleanupRelist"} : UpdateLink(w, job[w].new, p)
      BY <1>2 DEF LinkRecent, LinkNew
  <2>2. /\ pc[w] \in SkuLabels /\ pc[w] \in ItemLabels /\ pc[w] \in FoundLabels
      BY <1>2 DEF LinkRecent, LinkNew, SkuLabels, FoundLabels, ItemLabels, ResultLabels, Labels
  <2>3. JobGood(job[w], pc[w]) /\ job[w].new \in Listings /\ job[w].sku \in Skus
      BY <2>2, AtItem
  <2>4. Owns(job[w].sku, job[w].new)
      BY <2>3, ConstantsAssumption DEF JobGood, HoldsItsOwn, Holds
  <2> QED
      BY <2>1, <2>2, <2>3, <2>4, UpdateLinkGood DEF Link
<1> QED
    BY <1>1, <1>2

(* What comes after the cleanup, whatever it did to the marketplace. *)
LEMMA AfterCleanupGood ==
    ASSUME IInv, NEW w \in Workers, AfterCleanup(w), LifeStep, StoreGood'
    PROVE  IInv' /\ LifeStep
<1>1. pc[w] \in ItemLabels
    BY DEF AfterCleanup, ItemLabels, ResultLabels, Labels
<1>2. JobGood(job[w], pc[w]) /\ HasItem(w) /\ job[w].new \in Link
    BY <1>1, AtItem DEF JobGood, Job
<1>3. CASE pc[w] = "cleanup" /\ Succeed(w, job[w].new)
    BY <1>1, <1>2, <1>3, ItemDone DEF Succeed
<1>4. CASE pc[w] = "cleanupRelist" /\ Update(w, job[w], "storeRelisted")
  <2>1. JobGood(job[w], "storeRelisted")
      BY <1>2, <1>4 DEF JobGood, Stage, Counted, HoldsItsOwn, ItemLabels, SkuLabels, FoundLabels,
                        ResultLabels, Labels
  <2> QED
      BY <1>4, <2>1, WorkerSteps
<1> QED
    BY <1>3, <1>4 DEF AfterCleanup

LEMMA NothingToCleanGood ==
    ASSUME IInv, NEW w \in Workers, NothingToClean(w)
    PROVE  IInv' /\ LifeStep
BY BoundsType, StoreKept, AfterCleanupGood DEF NothingToClean

LEMMA CleanUpFailsGood ==
    ASSUME IInv, NEW w \in Workers, CleanUpFails(w)
    PROVE  IInv' /\ LifeStep
BY BoundsType, StoreKept, AfterCleanupGood DEF CleanUpFails

LEMMA CleanUpGood ==
    ASSUME IInv, NEW w \in Workers, CleanUp(w)
    PROVE  IInv' /\ LifeStep
<1> DEFINE l == job[w].old
<1>1. AfterCleanup(w) /\ l \in Listings /\ job[w].oldSnap.status = "Sold"
    BY DEF CleanUp, CleansUp
<1>2. StatusOf(l) \in {"Sold", "Gone"}
    BY <1>1 DEF IInv, JobsGood, JobGood, SoldForGood
<1>3. LifeStep
  <2>1. CASE Fetchable(l)
      BY <2>1, Removable DEF CleanUp, SetStatus
  <2>2. CASE ~Fetchable(l)
      BY <2>2 DEF CleanUp, LifeStep
  <2> QED
      BY <2>1, <2>2
<1>4. listing'[l].status = "Gone"
  <2>1. CASE Fetchable(l)
      BY <1>1, <2>1 DEF CleanUp, StatusOf, IInv, ListingsGood, ListingState
  <2>2. CASE ~Fetchable(l)
      BY <1>1, <1>2, <2>2 DEF CleanUp, Fetchable, IsListing, Existing, StatusOf
  <2> QED
      BY <2>1, <2>2
<1>5. StoreGood'
  <2>1. fetched' \subseteq Listings /\ retired' \subseteq Listings
      BY <1>1 DEF CleanUp, IInv, StoreGood
  <2>2. \A m \in retired' : m \in retired \/ StatusOf(m)' = "Gone"
      BY <1>4 DEF CleanUp, StatusOf
  <2> QED
      BY <1>3, <2>1, <2>2, BoundsType, StoreChanges DEF CleanUp, IInv, StoreGood
<1> QED
    BY <1>1, <1>3, <1>5, AfterCleanupGood

LEMMA StoreRelistedGood ==
    ASSUME IInv, NEW w \in Workers, StoreRelisted(w)
    PROVE  IInv' /\ LifeStep
<1>1. pc[w] \in ItemLabels /\ pc[w] \in SkuLabels /\ pc[w] \in FoundLabels
    BY DEF StoreRelisted, ItemLabels, SkuLabels, FoundLabels, ResultLabels, Labels
<1>2. JobGood(job[w], pc[w]) /\ HasItem(w) /\ job[w].sku \in Skus /\ job[w].new \in Listings
    BY <1>1, AtItem
<1>3. Owns(job[w].sku, job[w].new)
    BY <1>2, ConstantsAssumption DEF JobGood, HoldsItsOwn, Holds
<1>4. LifeStep
    BY DEF StoreRelisted, market, LifeStep
<1>5. StoreGood'
    BY <1>2, <1>3, <1>4, BoundsType, StoreChanges DEF StoreRelisted, market, IInv, StoreGood
<1> QED
    BY <1>1, <1>2, <1>4, <1>5, ItemDone DEF StoreRelisted, Succeed, Link

-----------------------------------------------------------------------------
(* All of them *)

LEMMA DirectApiStepGood ==
    ASSUME IInv, NEW w \in Workers, DirectApiStep(w)
    PROVE  IInv' /\ LifeStep
BY NoIdentifierGood, UseWebhookSkuGood, LookupListingSkuGood, FetchProductGood,
   LookupRecentListingGood, FetchRecentListingGood, CreateListingGood, CreateLostGood,
   CreateFailsGood, AddRejectedGood, AddStoreRecentGood, AddLinkGood, ChangeAcknowledgedGood,
   ChangeBeginGood, ChangeFetchGood, ChangeSkippedGood, ChangeEditGood, DeleteListingGood,
   UploadDeletesGood
   DEF DirectApiStep

LEMMA ReconcileStepGood ==
    ASSUME IInv, NEW w \in Workers, ReconcileStep(w)
    PROVE  IInv' /\ LifeStep
BY LoadCurrentGood, LoadCleanupGood, AcknowledgeGood, EditStatusGood, WantsListingGood, LinkGood,
   NothingToCleanGood, CleanUpGood, CleanUpFailsGood, StoreRelistedGood
   DEF ReconcileStep

-----------------------------------------------------------------------------
(* The beginning, and the life of a request *)

LEMMA IdleJobGood == JobGood(IdleJob, "idle")
<1>1. IdleJob \in Job
    BY IdleJobType DEF IdleJob
<1>2. IdleJob.cur = NoListing /\ IdleJob.new = NoListing /\ IdleJob.old = NoListing
      /\ IdleJob.req = NoRequest
    BY DEF IdleJob, FreshJob
<1> QED
    BY <1>1, <1>2, ConstantsAssumption
       DEF JobGood, Stage, Counted, InFlight, HoldsItsOwn, Holds, SoldForGood, NoRequest, Labels,
           ItemLabels, SkuLabels, FoundLabels, ResultLabels

LEMMA InitGood == Init => IInv
<1> SUFFICES ASSUME Init
             PROVE  IInv
    OBVIOUS
<1>1. ListingsGood
    BY StartAssumption DEF Init, ListingsGood
<1>2. StoreGood
    BY StartAssumption, ConstantsAssumption DEF Init, StoreGood, Owns, StatusOf, RetiredIsGone
<1>3. JobsGood
    BY IdleJobGood DEF Init, JobsGood, JobGood
<1> QED
    BY <1>1, <1>2, <1>3 DEF IInv

LEMMA DeliverGood ==
    ASSUME IInv, NEW w \in Workers, NEW req \in Requests, Deliver(w, req)
    PROVE  IInv' /\ LifeStep
<1> DEFINE j == FreshJob(req, 1)
           p == IF req.kind \in LiveKinds \/ req.force THEN "item"
                ELSE IF req.key = NoKey THEN "recentSuccess" ELSE "idempotency"
<1>1. j \in Job /\ p \in {"item", "recentSuccess", "idempotency"}
    BY IdleJobType
<1>2. /\ j.req = req /\ j.i = 1 /\ j.ok = 0 /\ j.bad = 0 /\ j.oldSnap = Absent
      /\ j.cur = NoListing /\ j.new = NoListing /\ j.old = NoListing
    BY DEF FreshJob
<1>3. p # "item" => req.kind \notin LiveKinds
    OBVIOUS
<1>4. Len(req.batch) \in Nat
    BY ConstantsAssumption DEF Request
<1>5. Plausible(req)
    BY DEF Deliver
<1>6. deliveries' \in Nat /\ faults' \in Nat
    BY BoundsType DEF Deliver
<1>7. Stage(j, p)
    BY <1>1, <1>2, <1>3 DEF Stage, SkuLabels, FoundLabels, ItemLabels, ResultLabels
<1> HIDE DEF j, p
<1>8. Counted(j, p) /\ SoldForGood(j) /\ HoldsItsOwn(j, p)
    BY <1>1, <1>2, <1>4, ConstantsAssumption
       DEF Counted, SoldForGood, HoldsItsOwn, Holds, ItemLabels, ResultLabels
<1>9. InFlight(j)
    BY <1>2, <1>5, ConstantsAssumption DEF InFlight, Plausible, CreatedListing
<1>10. JobGood(j, p)
    BY <1>1, <1>7, <1>8, <1>9 DEF JobGood, Labels
<1> QED
    BY <1>6, <1>10, QuietStep DEF Deliver, j, p

(* A request on its way to a reply keeps its locals but for the result. *)
LEMMA ResultSet ==
    ASSUME IInv, NEW w \in Workers, NEW res \in Result \union {NoResult},
           NEW p \in {"storeResult", "reply"},
           pc[w] \in {"recentSuccess", "idempotency", "item"},
           p = "storeResult" => KindOf(w) \notin LiveKinds,
           p = "reply" /\ KindOf(w) \in LiveKinds => pc[w] = "item" /\ ~HasItem(w)
    PROVE  JobGood([job[w] EXCEPT !.res = res], p)
<1> DEFINE j == [job[w] EXCEPT !.res = res]
<1>1. JobGood(job[w], pc[w]) /\ job[w].req \in Requests
    BY DEF IInv, JobsGood, JobGood, Stage
<1>2. j \in Job
    BY <1>1 DEF JobGood, Job
<1>3. /\ j.req = job[w].req /\ j.i = job[w].i /\ j.sku = job[w].sku
      /\ j.cur = job[w].cur /\ j.new = job[w].new /\ j.old = job[w].old
      /\ j.ok = job[w].ok /\ j.bad = job[w].bad /\ j.oldSnap = job[w].oldSnap
    BY <1>1 DEF JobGood, Job
<1>4. p = "reply" /\ KindOf(w) \in LiveKinds => job[w].ok + job[w].bad = Len(job[w].req.batch)
  <2>1. Len(job[w].req.batch) \in Nat /\ job[w].i \in Nat
      BY <1>1, ConstantsAssumption DEF Request, JobGood, Job
  <2> QED
      BY <1>1, <2>1 DEF JobGood, Counted, HasItem
<1>5. Stage(j, p) /\ Counted(j, p)
    BY <1>1, <1>3, <1>4 DEF Stage, Counted, KindOf, SkuLabels, FoundLabels, ItemLabels, ResultLabels
<1>6. InFlight(j) /\ SoldForGood(j) /\ HoldsItsOwn(j, p)
    BY <1>1, <1>3 DEF JobGood, InFlight, SoldForGood, HoldsItsOwn, Holds, ItemLabels, ResultLabels
<1> QED
    BY <1>2, <1>5, <1>6 DEF JobGood, Labels

(* The locals are kept. *)
LEMMA Moved ==
    ASSUME IInv, NEW w \in Workers, NEW p,
           \/ pc[w] = "recentSuccess" /\ p = "idempotency"
           \/ pc[w] = "idempotency" /\ p = "item"
           \/ pc[w] = "storeResult" /\ p \in {"storeRecentSuccess", "reply"}
           \/ pc[w] = "storeRecentSuccess" /\ p = "reply"
    PROVE  JobGood(job[w], p)
<1>1. JobGood(job[w], pc[w])
    BY DEF IInv, JobsGood
<1>2. job[w].req \in Requests /\ Len(job[w].req.batch) \in Nat
    BY <1>1, ConstantsAssumption DEF JobGood, Stage, Request
<1>3. pc[w] \in {"recentSuccess", "idempotency"} =>
         /\ job[w].i = 1 /\ job[w].ok = 0 /\ job[w].bad = 0 /\ job[w].oldSnap = Absent
         /\ job[w].cur = NoListing /\ job[w].new = NoListing /\ job[w].old = NoListing
    BY <1>1 DEF JobGood, Stage, FreshJob
<1>4. Stage(job[w], p)
    BY <1>1, <1>3 DEF JobGood, Stage, SkuLabels, FoundLabels, ItemLabels, ResultLabels
<1>5. Counted(job[w], p) /\ HoldsItsOwn(job[w], p)
    BY <1>1, <1>2, <1>3 DEF JobGood, Stage, Counted, HoldsItsOwn, ItemLabels, ResultLabels
<1> QED
    BY <1>1, <1>4, <1>5 DEF JobGood, Labels

LEMMA LookupsGood ==
    ASSUME IInv, NEW w \in Workers, RecentSuccessLookup(w) \/ IdempotencyLookup(w)
    PROVE  IInv' /\ LifeStep
<1>1. /\ JobGood(job[w], pc[w]) /\ job[w].req \in Requests /\ KindOf(w) \notin LiveKinds
      /\ pc[w] \in {"recentSuccess", "idempotency"}
    BY DEF RecentSuccessLookup, IdempotencyLookup, IInv, JobsGood, JobGood, Stage, KindOf
<1>2. /\ recentOk[PayloadToken(job[w].req)] \in Result \union {NoResult}
      /\ idem[Token(job[w].req)] \in Result \union {NoResult}
    BY <1>1 DEF IInv, StoreGood, Tokens, PayloadTokens
<1>3. CASE \E res \in Result \union {NoResult} : Update(w, [job[w] EXCEPT !.res = res], "reply")
  <2>1. PICK res \in Result \union {NoResult} : Update(w, [job[w] EXCEPT !.res = res], "reply")
      BY <1>3
  <2>2. JobGood([job[w] EXCEPT !.res = res], "reply")
      BY <1>1, ResultSet
  <2> QED
      BY <2>1, <2>2, BoundsType, QuietStep DEF RecentSuccessLookup, IdempotencyLookup
<1>4. CASE \/ pc[w] = "recentSuccess" /\ Update(w, job[w], "idempotency")
           \/ pc[w] = "idempotency" /\ Update(w, job[w], "item")
    BY <1>4, Moved, BoundsType, QuietStep DEF RecentSuccessLookup, IdempotencyLookup
<1> QED
    BY <1>2, <1>3, <1>4 DEF RecentSuccessLookup, IdempotencyLookup

LEMMA ConcludeGood ==
    ASSUME IInv, NEW w \in Workers, Conclude(w)
    PROVE  IInv' /\ LifeStep
<1>1. JobGood(job[w], "item") /\ pc[w] = "item" /\ ~HasItem(w)
    BY DEF Conclude, IInv, JobsGood
<1>2. job[w].req \in Requests /\ job[w].first \in Link
    BY <1>1 DEF JobGood, Stage, Job
<1>3. ResultOf(w) \in Result
    BY <1>2 DEF ResultOf, Result
<1>4. PICK p \in {"storeResult", "reply"} :
           /\ Update(w, [job[w] EXCEPT !.res = ResultOf(w)], p)
           /\ p = "storeResult" => KindOf(w) \notin LiveKinds
    BY DEF Conclude
<1>5. JobGood([job[w] EXCEPT !.res = ResultOf(w)], p)
    BY <1>1, <1>3, <1>4, ResultSet
<1> QED
    BY <1>4, <1>5, BoundsType, QuietStep DEF Conclude

LEMMA StoresGood ==
    ASSUME IInv, NEW w \in Workers, StoreIdempotent(w) \/ StoreRecentSuccess(w)
    PROVE  IInv' /\ LifeStep
<1>1. PICK p : /\ Update(w, job[w], p)
               /\ \/ pc[w] = "storeResult" /\ p \in {"storeRecentSuccess", "reply"}
                  \/ pc[w] = "storeRecentSuccess" /\ p = "reply"
    BY Stepped DEF StoreIdempotent, StoreRecentSuccess, Step
<1>2. JobGood(job[w], p)
    BY <1>1, Moved
<1>3. job[w].res \in Result \union {NoResult}
    BY <1>2 DEF JobGood, Job
<1>4. LifeStep
    BY DEF StoreIdempotent, StoreRecentSuccess, market, LifeStep
<1>5. /\ idem' \in [Tokens -> Result \union {NoResult}]
      /\ recentOk' \in [PayloadTokens -> Result \union {NoResult}]
    BY <1>3 DEF StoreIdempotent, StoreRecentSuccess, IInv, StoreGood
<1>6. StoreGood'
    BY <1>4, <1>5, BoundsType, StoreChanges
       DEF StoreIdempotent, StoreRecentSuccess, market, IInv, StoreGood
<1> QED
    BY <1>1, <1>2, <1>4, <1>6, WorkerSteps

LEMMA ReplyGood ==
    ASSUME IInv, NEW w \in Workers, Reply(w)
    PROVE  IInv' /\ LifeStep
BY IdleJobGood, BoundsType, QuietStep DEF Reply

-----------------------------------------------------------------------------
(* The world and the process *)

LEMMA WorldGood ==
    ASSUME IInv, World
    PROVE  IInv' /\ LifeStep
<1>1. ASSUME NEW l \in Listings, Purchase(l) \/ Expire(l) \/ Withdraw(l) \/ ApplyRemoval(l)
      PROVE  IInv' /\ LifeStep
  <2>1. LifeStep
    <3>1. CASE Purchase(l) \/ Expire(l)
        BY <3>1, StatusLives
           DEF Purchase, Expire, IInv, Lifecycle!MayBecome, Lifecycle!Moves
    <3>2. CASE Withdraw(l)
        BY <3>2, Removable DEF Withdraw, Fetchable, IsListing
    <3>3. CASE ApplyRemoval(l)
        BY <3>3, Removable DEF ApplyRemoval, Fetchable, IsListing, SetStatus, LifeStep
    <3> QED
        BY <1>1, <3>1, <3>2, <3>3
  <2>2. removals' \subseteq Listings /\ faults' \in Nat /\ deliveries' \in Nat
      BY <1>1, BoundsType DEF Purchase, Expire, Withdraw, ApplyRemoval, IInv, StoreGood
  <2>3. StoreGood'
      BY <1>1, <2>1, <2>2, StoreAges
         DEF Purchase, Expire, Withdraw, ApplyRemoval, caches, IInv, StoreGood
  <2> QED
      BY <1>1, <2>1, <2>3, WorldSteps DEF Purchase, Expire, Withdraw, ApplyRemoval
<1>2. CASE ForgetResult
  <2>1. LifeStep
      BY <1>2 DEF ForgetResult, market, LifeStep
  <2>2. /\ idem' \in [Tokens -> Result \union {NoResult}]
        /\ recentOk' \in [PayloadTokens -> Result \union {NoResult}]
      BY <1>2 DEF ForgetResult, IInv, StoreGood
  <2>3. StoreGood'
      BY <1>2, <2>1, <2>2, BoundsType, StoreChanges DEF ForgetResult, market, IInv, StoreGood
  <2> QED
      BY <1>2, <2>1, <2>3, WorldSteps DEF ForgetResult
<1>3. CASE ForgetListing
  <2>1. LifeStep
      BY <1>3 DEF ForgetListing, market, LifeStep
  <2>2. /\ fetched' \subseteq Listings /\ retired' \subseteq retired
        /\ \/ recent' = recent
           \/ \E s \in Skus : recent' = [recent EXCEPT ![s] = NoListing]
      BY <1>3 DEF ForgetListing, IInv, StoreGood
  <2>3. StoreGood'
      BY <1>3, <2>1, <2>2, BoundsType, StoreChanges, ConstantsAssumption
         DEF ForgetListing, market, IInv, StoreGood
  <2> QED
      BY <1>3, <2>1, <2>3, WorldSteps DEF ForgetListing
<1> QED
    BY <1>1, <1>2, <1>3 DEF World

LEMMA RestartGood ==
    ASSUME IInv, Restart
    PROVE  IInv' /\ LifeStep
<1>1. LifeStep
    BY DEF Restart, market, LifeStep
<1>2. ListingsGood' /\ Aged
    BY <1>1, Ageing DEF IInv
<1>3. StoreGood'
    BY <1>2, BoundsType, ConstantsAssumption
       DEF Restart, market, IInv, StoreGood, Owns, StatusOf, RetiredIsGone, Tokens, PayloadTokens,
           Token, PayloadToken
<1>4. JobGood(IdleJob, "idle")'
  <2>1. PICK k : k = IdleJob
      OBVIOUS
  <2> QED
      BY <1>2, <2>1, IdleJobGood, JobAges
<1>5. JobsGood'
    BY <1>4 DEF Restart, JobsGood, JobGood
<1> QED
    BY <1>1, <1>2, <1>3, <1>5 DEF IInv

-----------------------------------------------------------------------------
(* Every step *)

LEMMA WorkerStepGood ==
    ASSUME IInv, NEW w \in Workers, WorkerStep(w)
    PROVE  IInv' /\ LifeStep
BY LookupsGood, DirectApiStepGood, ReconcileStepGood, ConcludeGood, StoresGood, ReplyGood
   DEF WorkerStep

LEMMA StepGood ==
    ASSUME IInv, [Next]_vars
    PROVE  IInv' /\ LifeStep
<1>1. CASE \E w \in Workers : WorkerStep(w)
    BY <1>1, WorkerStepGood
<1>2. CASE \E w \in Workers, req \in Requests : Deliver(w, req)
    BY <1>2, DeliverGood
<1>3. CASE World
    BY <1>3, WorldGood
<1>4. CASE Restart
    BY <1>4, RestartGood
<1>5. CASE UNCHANGED vars
  <2>1. UNCHANGED <<market, caches>> /\ UNCHANGED <<pc, job>> /\ UNCHANGED bounds
      BY <1>5 DEF vars
  <2> QED
      BY <2>1, BoundsType, StoreKept, WorldSteps
<1> QED
    BY <1>1, <1>2, <1>3, <1>4, <1>5 DEF Next, Quiescent

(* The strengthening: what a worker's locals are at each step, and that caches   *)
(* and links name listings of their own SKU, always holds (every function       *)
(* called by process_inventory_event preserves it).                           *)
THEOREM Inductive == Spec => []IInv
<1>1. Init => IInv
    BY InitGood
<1>2. IInv /\ [Next]_vars => IInv'
    BY StepGood
<1> QED
    BY <1>1, <1>2, PTL DEF Spec

(* Types: no worker ever writes into a cache, a link or a listing what the code *)
(* reading it does not expect.                                               *)
THEOREM TypesCorrect == Spec => []TypeOK
<1>1. IInv => TypeOK
    BY DEF IInv, ListingsGood, StoreGood, JobsGood, TypeOK
<1> QED
    BY <1>1, Inductive, PTL

(* Every link, remembered listing and listing in a worker's hands is of the SKU  *)
(* it is kept for, in every interleaving of any number of workers             *)
(* (_update_baselinker_listing_link, store_recent_discogs_listing).           *)
THEOREM SkusNeverMix == Spec => []SkuIntegrity
<1>1. ASSUME IInv
      PROVE  SkuIntegrity
  <2>1. ASSUME NEW w \in Workers, NEW l \in {job[w].cur, job[w].new, job[w].old},
               l \in Listings, job[w].sku # NoSku
        PROVE  Owns(job[w].sku, l)
      BY <1>1, <2>1 DEF IInv, JobsGood, JobGood, HoldsItsOwn, Holds
  <2> QED
      BY <1>1, <2>1 DEF SkuIntegrity, IInv, StoreGood
<1> QED
    BY <1>1, Inductive, PTL

(* Only listings Discogs no longer has are marked retired                      *)
(* (_mark_discogs_listing_retired), so no price update is skipped by mistake.  *)
THEOREM RetiredAreGone == Spec => []RetiredIsGone
<1>1. IInv => RetiredIsGone
    BY DEF IInv, StoreGood
<1> QED
    BY <1>1, Inductive, PTL

(* The counter of a quantity or price reply is the number of items of its       *)
(* webhook, whatever failed on the way (_webhook_counter).                    *)
THEOREM ItemsCounted == Spec => []EveryItemCounted
<1>1. ASSUME IInv
      PROVE  EveryItemCounted
    BY <1>1 DEF IInv, JobsGood, JobGood, Counted, EveryItemCounted, Counter, KindOf
<1> QED
    BY <1>1, Inductive, PTL

(* The service implements the life of a listing: created once for a SKU it       *)
(* keeps, never off its price, never back from sold or gone.                   *)
THEOREM Refinement == Spec => ListingsLiveTheirLife
<1>1. Init => Lifecycle!Init
    BY StartAssumption DEF Init, Lifecycle!Init
<1>2. IInv /\ [Next]_vars => [Lifecycle!Next]_listing
    BY StepGood DEF LifeStep
<1> QED
    BY <1>1, <1>2, Inductive, PTL DEF Spec, ListingsLiveTheirLife, Lifecycle!Spec

-----------------------------------------------------------------------------
(* Removals *)

LEMMA StatusChanged ==
    ASSUME ListingsGood, NEW l \in Listings, NEW m, NEW status,
           listing' = [listing EXCEPT ![m].status = status]
    PROVE  StatusOf(l)' = IF l = m THEN status ELSE StatusOf(l)
BY DEF ListingsGood, ListingState, StatusOf

(* The steps of a worker that change a listing at all. *)
LEMMA ListingChanged ==
    ASSUME NEW w, WorkerStep(w), listing' # listing
    PROVE  \/ CreateListing(w) \/ CreateLost(w) \/ ChangeEdit(w) \/ DeleteListing(w)
           \/ EditStatus(w) \/ CleanUp(w)
<1>1. ~(RecentSuccessLookup(w) \/ IdempotencyLookup(w) \/ Conclude(w)
        \/ StoreIdempotent(w) \/ StoreRecentSuccess(w) \/ Reply(w))
    BY DEF market, RecentSuccessLookup, IdempotencyLookup, Conclude, StoreIdempotent,
           StoreRecentSuccess, Reply
<1>2. ~(NoIdentifier(w) \/ UseWebhookSku(w) \/ LookupListingSku(w) \/ FetchProduct(w)
        \/ LookupRecentListing(w) \/ FetchRecentListing(w) \/ CreateFails(w) \/ AddRejected(w)
        \/ AddStoreRecent(w) \/ AddLink(w) \/ ChangeAcknowledged(w) \/ ChangeBegin(w)
        \/ ChangeFetch(w) \/ ChangeSkipped(w) \/ UploadDeletes(w))
    BY DEF market, NoIdentifier, UseWebhookSku, LookupListingSku, FetchProduct,
           LookupRecentListing, FetchRecentListing, CreateFails, AddRejected,
           AddStoreRecent, AddLink, ChangeAcknowledged, ChangeBegin, ChangeFetch,
           ChangeSkipped, UploadDeletes
<1>3. ~(LoadCurrent(w) \/ LoadCleanup(w) \/ Acknowledge(w) \/ WantsListing(w) \/ LinkZero(w)
        \/ LinkRecent(w) \/ LinkNew(w) \/ NothingToClean(w) \/ CleanUpFails(w)
        \/ StoreRelisted(w))
    BY DEF market, LoadCurrent, LoadCleanup, Acknowledge, WantsListing, LinkZero, LinkRecent,
           LinkNew, UpdateLink, NothingToClean, CleanUpFails, StoreRelisted
<1> QED
    BY <1>1, <1>2, <1>3 DEF WorkerStep, DirectApiStep, ReconcileStep

(* What a worker does to a listing buyers can see. *)
LEMMA WorkerRemoves ==
    ASSUME IInv, NEW w \in Workers, WorkerStep(w), NEW l \in Listings,
           StatusOf(l) \in Live, StatusOf(l)' = "Gone"
    PROVE  KindOf(w) = "delete" /\ HasItem(w) /\ ItemOf(w).pid = l
<1>1. listing' # listing
    BY DEF StatusOf, Live
<1>2. \/ CreateListing(w) \/ CreateLost(w) \/ ChangeEdit(w) \/ DeleteListing(w)
      \/ EditStatus(w) \/ CleanUp(w)
    BY <1>1, ListingChanged
<1>3. ASSUME PostListing(w)
      PROVE  FALSE
    BY <1>3 DEF PostListing, Created, FreshId, UnusedIds, StatusOf, CreateStatus, IInv, ListingsGood, Live
<1>4. ASSUME ChangeEdit(w)
      PROVE  FALSE
  <2>1. Editable(job[w].old) /\ listing' = Edited(w)
      BY <1>1, <1>4 DEF ChangeEdit
  <2> DEFINE edit == [status |-> IF Reactivates(w) THEN "For Sale" ELSE listing[job[w].old].status,
                      sku    |-> job[w].sku,
                      priced |-> listing[job[w].old].priced \/ ItemOf(w).priced]
  <2>2. listing' = [listing EXCEPT ![job[w].old] = edit]
      BY <2>1 DEF Edited
  <2>3. edit.status # "Gone"
      BY <2>1 DEF Editable, StatusOf, Live
  <2> HIDE DEF edit
  <2> QED
      BY <2>2, <2>3 DEF StatusOf, Live, IInv, ListingsGood
<1>5. ASSUME EditStatus(w)
      PROVE  FALSE
  <2>1. listing' = [listing EXCEPT ![job[w].cur].status = StatusFor(w)]
      BY <1>1, <1>5 DEF EditStatus
  <2>2. StatusFor(w) # "Gone"
      BY <1>5 DEF EditStatus, StatusFor
  <2> QED
      BY <2>1, <2>2, StatusChanged DEF Live, IInv
<1>6. ASSUME CleanUp(w)
      PROVE  FALSE
  <2>1. job[w].old \in Listings /\ StatusOf(job[w].old) \in {"Sold", "Gone"}
      BY <1>6 DEF CleanUp, CleansUp, IInv, JobsGood, JobGood, SoldForGood
  <2> QED
      BY <1>1, <1>6, <2>1 DEF CleanUp, StatusOf, Live, IInv, ListingsGood
<1>7. CASE DeleteListing(w)
  <2>1. KindOf(w) = "delete" /\ HasItem(w)
      BY <1>7 DEF DeleteListing, InBatch
  <2>2. listing' = [listing EXCEPT ![ItemOf(w).pid].status = "Gone"]
      BY <1>1, <1>7 DEF DeleteListing, SetStatus
  <2>3. ItemOf(w).pid = l
      BY <2>2 DEF StatusOf, Live, IInv, ListingsGood
  <2> QED
      BY <2>1, <2>3
<1> QED
    BY <1>2, <1>3, <1>4, <1>5, <1>6, <1>7 DEF CreateListing, CreateLost

(* No webhook but a delete naming it, and nothing else but an uploaded delete or *)
(* the seller, ever removes a listing buyers can see                          *)
(* (_delete_sold_discogs_listing_if_needed).                                 *)
THEOREM RemovesNothingElse == Spec => RemovesOnlyWhatItMay
<1> DEFINE Allowed(l) ==
      \/ \E w \in Workers : KindOf(w) = "delete" /\ HasItem(w) /\ ItemOf(w).pid = l
      \/ l \in removals
      \/ "withdraw" \in Faults /\ UNCHANGED <<pc, job>>
<1>1. ASSUME IInv, Next, NEW l \in Listings, StatusOf(l) \in Live, StatusOf(l)' = "Gone"
      PROVE  Allowed(l)
  <2>1. CASE \E w \in Workers : WorkerStep(w)
      BY <1>1, <2>1, WorkerRemoves
  <2>2. CASE World
    <3>1. ASSUME NEW m \in Listings, Purchase(m) \/ Expire(m)
          PROVE  FALSE
      <4>1. PICK status \in {"Sold", "Expired"} : listing' = [listing EXCEPT ![m].status = status]
          BY <3>1 DEF Purchase, Expire, SetStatus
      <4>2. StatusOf(l)' = IF l = m THEN status ELSE StatusOf(l)
          BY <1>1, <4>1, StatusChanged DEF IInv
      <4> QED
          BY <1>1, <4>2 DEF Live
    <3>2. CASE \E m \in Listings : Withdraw(m)
        BY <3>2 DEF Withdraw, Fault
    <3>3. CASE \E m \in Listings : ApplyRemoval(m)
        BY <1>1, <3>3 DEF ApplyRemoval, StatusOf, Live, IInv, ListingsGood
    <3>4. CASE ForgetResult \/ ForgetListing
        BY <1>1, <3>4 DEF ForgetResult, ForgetListing, market, StatusOf, Live
    <3> QED
        BY <2>2, <3>1, <3>2, <3>3, <3>4 DEF World
  <2>3. CASE \/ \E w \in Workers, req \in Requests : Deliver(w, req)
             \/ Restart \/ Quiescent
      BY <1>1, <2>3 DEF Deliver, Restart, Quiescent, vars, market, StatusOf, Live
  <2> QED
      BY <1>1, <2>1, <2>2, <2>3 DEF Next
<1>2. IInv /\ [Next]_vars =>
        [\A l \in Listings : StatusOf(l) \in Live /\ StatusOf(l)' = "Gone" => Allowed(l)]_vars
    BY <1>1
<1> QED
    BY <1>2, Inductive, PTL DEF Spec, RemovesOnlyWhatItMay
=============================================================================
