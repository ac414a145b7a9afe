----------------------------- MODULE OfferProofs -----------------------------
(***************************************************************************)
(* What the inventory webhooks promise of answers and offers, for any number  *)
(* of workers.  By which steps a worker reaches an action of the marketplaces *)
(* (Routed) and at which product it is (EachHasItsSku) hold of every behaviour; *)
(* from the first follows that an answer is that of its request.  That there   *)
(* is one live listing for each SKU, that none is forgotten and none left on   *)
(* sale without stock is proved product by product (Offering): a step either   *)
(* touches nothing of the product (Untouched) or is one of the only worker at   *)
(* it (Ready), which ApartSpec and ApartWebhooksSpec assume there is.         *)
(***************************************************************************)
EXTENDS InventoryProofs

-----------------------------------------------------------------------------
(* What a step of a worker leaves in its locals *)

LEMMA Updated ==
    ASSUME IInv, NEW w \in Workers, NEW j, NEW p, Update(w, j, p)
    PROVE  /\ job'[w] = j /\ pc'[w] = p
           /\ \A v \in Workers \ {w} : job'[v] = job[v] /\ pc'[v] = pc[v]
BY DEF IInv, JobsGood, Update

LEMMA Finished ==
    ASSUME IInv, NEW w \in Workers, NEW good \in BOOLEAN, NEW lid, Finish(w, good, lid)
    PROVE  /\ pc'[w] = "item" /\ job'[w].req = job[w].req /\ job'[w].i = job[w].i + 1
           /\ job'[w].bad = (IF good THEN job[w].bad ELSE job[w].bad + 1)
           /\ job'[w].sku = NoSku /\ job'[w].new = NoListing
           /\ \A v \in Workers \ {w} : job'[v] = job[v] /\ pc'[v] = pc[v]
BY DEF IInv, JobsGood, Finish, FreshJob

(* An item, done well or not, is finished. *)
LEMMA Done ==
    ASSUME IInv, NEW w \in Workers, NEW lid, Succeed(w, lid) \/ Fail(w)
    PROVE  /\ pc'[w] = "item" /\ job'[w].req = job[w].req /\ job'[w].i = job[w].i + 1
           /\ job'[w].bad \in {job[w].bad, job[w].bad + 1}
           /\ job'[w].sku = NoSku /\ job'[w].new = NoListing
           /\ \A v \in Workers \ {w} : job'[v] = job[v] /\ pc'[v] = pc[v]
BY Finished DEF Succeed, Fail

(* The locals have their types. *)
LEMMA JobType ==
    ASSUME IInv, NEW w \in Workers
    PROVE  JobGood(job[w], pc[w]) /\ job[w] \in Job
BY DEF IInv, JobsGood, JobGood

-----------------------------------------------------------------------------
(* How a worker comes to a step *)

RoutedLabels == QuantityOnly \union Relisting
                \union {"fetchProduct", "change", "changeFetch", "changeEdit", "addLink",
                        "storeRecent"}

LEMMA Unrouted ==
    ASSUME NEW j, NEW p, p \notin RoutedLabels
    PROVE  Route(j, p)
BY DEF Route, RoutedLabels, QuantityOnly, Relisting

LEMMA DoneRoute ==
    ASSUME IInv, NEW w \in Workers, NEW lid, Succeed(w, lid) \/ Fail(w)
    PROVE  Route(job'[w], pc'[w])
BY Done, Unrouted DEF RoutedLabels, QuantityOnly, Relisting

(* Resolving the product. *)
LEMMA ResolveRoute ==
    ASSUME IInv, NEW w \in Workers, Route(job[w], pc[w]),
           NoIdentifier(w) \/ UseWebhookSku(w) \/ LookupListingSku(w) \/ FetchProduct(w)
    PROVE  Route(job'[w], pc'[w])
<1>1. CASE UseWebhookSku(w) \/ LookupListingSku(w)
  <2>1. PICK sku : Update(w, [job[w] EXCEPT !.sku = sku], "fetchProduct")
      BY <1>1 DEF UseWebhookSku, LookupListingSku
  <2>2. job[w].req.kind \in LiveKinds
      BY <1>1 DEF UseWebhookSku, LookupListingSku, InBatch, KindOf, LiveKinds
  <2>3. job'[w].req = job[w].req /\ pc'[w] = "fetchProduct"
      BY <2>1, Updated, JobType DEF Job
  <2> QED
      BY <2>2, <2>3 DEF Route, QuantityOnly, Relisting
<1>2. CASE Fail(w)
    BY <1>2, DoneRoute
<1>3. ASSUME NEW stocked \in BOOLEAN, pc[w] = "fetchProduct",
             KindOf(w) = "quantity" => stocked = ItemOf(w).stocked,
             Update(w, [job[w] EXCEPT !.cur = link[job[w].sku], !.stocked = stocked],
                    IF KindOf(w) = "quantity" THEN "loadCurrent" ELSE "change")
      PROVE  Route(job'[w], pc'[w])
  <2> DEFINE j == [job[w] EXCEPT !.cur = link[job[w].sku], !.stocked = stocked]
             p == IF KindOf(w) = "quantity" THEN "loadCurrent" ELSE "change"
  <2>1. job[w].req.kind \in LiveKinds
      BY <1>3 DEF Route
  <2>2. job'[w] = j /\ pc'[w] = p
      BY <1>3, Updated
  <2>3. j.req = job[w].req /\ j.i = job[w].i /\ j.stocked = stocked
      BY JobType DEF Job
  <2> HIDE DEF j
  <2> QED
      BY <1>3, <2>1, <2>2, <2>3 DEF Route, LiveKinds, KindOf, ItemOf, QuantityOnly, Relisting
<1> QED
    BY <1>1, <1>2, <1>3 DEF NoIdentifier, FetchProduct

(* Finding or creating a listing. *)
LEMMA OfferRoute ==
    ASSUME IInv, NEW w \in Workers, Route(job[w], pc[w]),
           \/ LookupRecentListing(w) \/ FetchRecentListing(w)
           \/ CreateListing(w) \/ CreateLost(w) \/ CreateFails(w)
    PROVE  Route(job'[w], pc'[w])
<1>1. CASE LookupRecentListing(w)
  <2> DEFINE sku == IF KindOf(w) = "add" THEN ItemOf(w).sku ELSE job[w].sku
             j == [job[w] EXCEPT !.sku = sku, !.new = recent[sku]]
             p == IF recent[sku] = NoListing THEN "create" ELSE "fetchRecent"
  <2>1. job'[w] = j /\ pc'[w] = p
    <3>1. Update(w, j, p)
        BY <1>1 DEF LookupRecentListing
    <3> QED
        BY <3>1, Updated
  <2>2. /\ j.req = job[w].req /\ j.i = job[w].i /\ j.stocked = job[w].stocked
        /\ p \in {"create", "fetchRecent"}
      BY JobType DEF Job
  <2> HIDE DEF j, p
  <2>3. job[w].req.kind = "add" \/ pc[w] = "lookupRecent"
      BY <1>1 DEF LookupRecentListing, InBatch, KindOf
  <2> QED
      BY <2>1, <2>2, <2>3 DEF Route, QuantityOnly, Relisting
<1>2. CASE FetchRecentListing(w) \/ CreateListing(w)
  <2>1. PICK new, p : /\ \/ Update(w, job[w], p)
                         \/ Update(w, [job[w] EXCEPT !.new = new], p)
                      /\ \/ p = "create"
                         \/ p = "storeRecent" /\ KindOf(w) = "add"
                         \/ p \in {"linkRecent", "linkNew"} /\ KindOf(w) # "add"
    <3>1. CASE FetchRecentListing(w)
        BY <3>1 DEF FetchRecentListing
    <3>2. CASE CreateListing(w)
        BY <3>2 DEF CreateListing
    <3> QED
        BY <1>2, <3>1, <3>2
  <2>2. /\ job'[w].req = job[w].req /\ job'[w].i = job[w].i /\ job'[w].stocked = job[w].stocked
        /\ pc'[w] = p
      BY <2>1, Updated, JobType DEF Job
  <2>3. pc[w] \in {"fetchRecent", "create"}
      BY <1>2 DEF FetchRecentListing, CreateListing
  <2> QED
      BY <2>1, <2>2, <2>3 DEF Route, KindOf, QuantityOnly, Relisting
<1>3. CASE CreateLost(w)
    BY <1>3 DEF CreateLost
<1>4. CASE CreateFails(w)
    BY <1>4, DoneRoute DEF CreateFails
<1> QED
    BY <1>1, <1>2, <1>3, <1>4

(* Adding, changing a price, deleting. *)
LEMMA DirectRoute ==
    ASSUME IInv, NEW w \in Workers, Route(job[w], pc[w]),
           \/ AddRejected(w) \/ AddStoreRecent(w) \/ AddLink(w)
           \/ ChangeAcknowledged(w) \/ ChangeBegin(w) \/ ChangeFetch(w)
           \/ ChangeSkipped(w) \/ ChangeEdit(w)
           \/ DeleteListing(w) \/ UploadDeletes(w)
    PROVE  Route(job'[w], pc'[w])
<1>1. CASE AddStoreRecent(w)
  <2>1. job'[w] = job[w] /\ pc'[w] = "addLink" /\ pc[w] = "storeRecent"
      BY <1>1, Stepped, Updated DEF AddStoreRecent
  <2> QED
      BY <2>1 DEF Route, QuantityOnly, Relisting
<1>2. CASE \E lid : Succeed(w, lid) \/ Fail(w)
    BY <1>2, DoneRoute
<1>3. CASE ChangeBegin(w) \/ ChangeFetch(w)
  <2> DEFINE begun == [job[w] EXCEPT !.old = ChangeTarget(w)]
             seen == [job[w] EXCEPT !.oldSnap = listing[job[w].old]]
  <2>1. \/ Update(w, begun, "changeFetch") \/ Update(w, seen, "changeEdit")
        \/ Succeed(w, job[w].old)
      BY <1>3 DEF ChangeBegin, ChangeFetch
  <2>2. CASE Succeed(w, job[w].old)
      BY <2>2, DoneRoute
  <2>3. CASE Update(w, begun, "changeFetch") \/ Update(w, seen, "changeEdit")
    <3>1. job'[w].req = job[w].req /\ pc'[w] \in {"changeFetch", "changeEdit"}
      <4>1. begun.req = job[w].req /\ seen.req = job[w].req
          BY JobType DEF Job
      <4>2. job'[w] \in {begun, seen} /\ pc'[w] \in {"changeFetch", "changeEdit"}
          BY <2>3, Updated
      <4> QED
          BY <4>1, <4>2
    <3>2. job[w].req.kind = "price"
        BY <1>3 DEF ChangeBegin, ChangeFetch, Route
    <3> QED
        BY <3>1, <3>2 DEF Route, QuantityOnly, Relisting
  <2> QED
      BY <2>1, <2>2, <2>3
<1>4. CASE UploadDeletes(w)
  <2>1. PICK j : Update(w, j, "item")
      BY <1>4 DEF UploadDeletes
  <2> QED
      BY <2>1, Updated, Unrouted DEF RoutedLabels, QuantityOnly, Relisting
<1> QED
    BY <1>1, <1>2, <1>3, <1>4
       DEF AddRejected, AddLink, ChangeAcknowledged, ChangeSkipped, ChangeEdit, DeleteListing

(* Reconciling. *)
LEMMA ReconcileRoute ==
    ASSUME IInv, NEW w \in Workers, Route(job[w], pc[w]), ReconcileStep(w)
    PROVE  Route(job'[w], pc'[w])
<1>1. CASE LoadCurrent(w) \/ LoadCleanup(w)
  <2>2. /\ job'[w].req = job[w].req /\ job'[w].i = job[w].i /\ job'[w].stocked = job[w].stocked
        /\ pc'[w] \in {"loadCleanup", "decide"}
    <3>1. CASE LoadCurrent(w)
      <4> DEFINE l == CleanupId(w)
      <4>1. PICK snap \in Snapshot, p \in {"loadCleanup", "decide"} :
                Update(w, [job[w] EXCEPT !.curSnap = snap, !.old = l, !.oldSnap = snap], p)
          BY <3>1 DEF LoadCurrent
      <4> DEFINE j == [job[w] EXCEPT !.curSnap = snap, !.old = l, !.oldSnap = snap]
      <4>2. job'[w] = j /\ pc'[w] = p
          BY <4>1, Updated
      <4>3. j.req = job[w].req /\ j.i = job[w].i /\ j.stocked = job[w].stocked
        <5> HIDE DEF l
        <5> QED
            BY JobType DEF Job
      <4> QED
          BY <4>1, <4>2, <4>3
    <3>2. CASE LoadCleanup(w)
      <4>1. PICK snap \in Snapshot : Update(w, [job[w] EXCEPT !.oldSnap = snap], "decide")
          BY <3>2 DEF LoadCleanup
      <4> QED
          BY <4>1, Updated, JobType DEF Job
    <3> QED
        BY <1>1, <3>1, <3>2
  <2>3. pc[w] \in {"loadCurrent", "loadCleanup"}
      BY <1>1 DEF LoadCurrent, LoadCleanup
  <2> QED
      BY <2>2, <2>3 DEF Route, QuantityOnly, Relisting
<1>2. CASE Acknowledge(w) \/ EditStatus(w) \/ StoreRelisted(w)
    BY <1>2, DoneRoute DEF Acknowledge, EditStatus, StoreRelisted
<1>3. CASE WantsListing(w)
  <2>1. job'[w] = job[w] /\ pc'[w] = "lookupRecent" /\ pc[w] = "decide" /\ job[w].stocked
      BY <1>3, Stepped, Updated DEF WantsListing, ShouldCreate
  <2> QED
      BY <2>1 DEF Route, QuantityOnly, Relisting
<1>4. CASE LinkZero(w) \/ LinkRecent(w) \/ LinkNew(w)
  <2>1. PICK new, p : /\ Update(w, [job[w] EXCEPT !.new = new], p) \/ Fail(w)
                      /\ \/ pc[w] \in {"decide", "linkRecent"} /\ p = "cleanup"
                         \/ pc[w] = "linkNew" /\ p = "cleanupRelist"
      BY <1>4 DEF LinkZero, LinkRecent, LinkNew, UpdateLink
  <2>2. CASE Update(w, [job[w] EXCEPT !.new = new], p)
    <3>1. /\ job'[w].req = job[w].req /\ job'[w].i = job[w].i /\ job'[w].stocked = job[w].stocked
          /\ pc'[w] = p
        BY <2>2, Updated, JobType DEF Job
    <3> QED
        BY <2>1, <3>1 DEF Route, QuantityOnly, Relisting
  <2> QED
      BY <2>1, <2>2, DoneRoute
<1>5. CASE NothingToClean(w) \/ CleanUp(w) \/ CleanUpFails(w)
  <2>1. CASE Succeed(w, job[w].new)
      BY <2>1, DoneRoute
  <2>2. CASE pc[w] = "cleanupRelist" /\ Update(w, job[w], "storeRelisted")
      BY <2>2, Updated DEF Route, QuantityOnly, Relisting
  <2> QED
      BY <1>5, <2>1, <2>2 DEF NothingToClean, CleanUp, CleanUpFails, AfterCleanup
<1> QED
    BY <1>1, <1>2, <1>3, <1>4, <1>5 DEF ReconcileStep

(* Receiving, looking up, concluding. *)
LEMMA RequestRoute ==
    ASSUME IInv, NEW w \in Workers,
           \/ RecentSuccessLookup(w) \/ IdempotencyLookup(w) \/ Conclude(w)
           \/ StoreIdempotent(w) \/ StoreRecentSuccess(w) \/ Reply(w)
           \/ \E req \in Requests : Deliver(w, req)
    PROVE  Route(job'[w], pc'[w])
<1>1. pc'[w] \in {"recentSuccess", "idempotency", "item", "storeResult", "storeRecentSuccess",
                  "reply", "idle"}
    BY DEF RecentSuccessLookup, IdempotencyLookup, Conclude, Reply, Deliver, StoreIdempotent,
           StoreRecentSuccess, Step, Update, IInv, JobsGood
<1> QED
    BY <1>1, Unrouted DEF RoutedLabels, QuantityOnly, Relisting

(* A worker's step is its own. *)
Alone(w) == \A v \in Workers \ {w} : job'[v] = job[v] /\ pc'[v] = pc[v]

LEMMA UpdatedAlone ==
    ASSUME IInv, NEW w \in Workers,
           \/ UNCHANGED <<pc, job>> \/ \E j, p : Update(w, j, p)
           \/ \E lid : Succeed(w, lid) \/ Fail(w)
    PROVE  Alone(w)
<1>1. CASE UNCHANGED <<pc, job>>
    BY <1>1 DEF Alone
<1>2. CASE \E j, p : Update(w, j, p)
    BY <1>2, Updated DEF Alone
<1>3. CASE \E lid : Succeed(w, lid) \/ Fail(w)
    BY <1>3, Done DEF Alone
<1> QED
    BY <1>1, <1>2, <1>3

LEMMA WorkerAlone ==
    ASSUME IInv, NEW w \in Workers, WorkerStep(w) \/ \E req \in Requests : Deliver(w, req)
    PROVE  Alone(w)
<1>1. CASE \/ RecentSuccessLookup(w) \/ IdempotencyLookup(w) \/ Conclude(w) \/ Reply(w)
           \/ \E req \in Requests : Deliver(w, req)
    BY <1>1, UpdatedAlone DEF RecentSuccessLookup, IdempotencyLookup, Conclude, Reply, Deliver
<1>2. CASE StoreIdempotent(w) \/ StoreRecentSuccess(w) \/ AddStoreRecent(w) \/ WantsListing(w)
    BY <1>2 DEF StoreIdempotent, StoreRecentSuccess, AddStoreRecent, WantsListing, Step, IInv,
                JobsGood, Alone
<1>3. CASE NoIdentifier(w) \/ UseWebhookSku(w) \/ LookupListingSku(w) \/ FetchProduct(w)
    BY <1>3, UpdatedAlone DEF NoIdentifier, UseWebhookSku, LookupListingSku, FetchProduct
<1>4. CASE \/ LookupRecentListing(w) \/ FetchRecentListing(w)
           \/ CreateListing(w) \/ CreateLost(w) \/ CreateFails(w)
    BY <1>4, UpdatedAlone DEF LookupRecentListing, FetchRecentListing, CreateListing, CreateLost,
                              CreateFails
<1>5. CASE \/ AddRejected(w) \/ AddLink(w) \/ ChangeAcknowledged(w) \/ ChangeBegin(w)
           \/ ChangeFetch(w) \/ ChangeSkipped(w) \/ ChangeEdit(w) \/ DeleteListing(w)
           \/ UploadDeletes(w)
    BY <1>5, UpdatedAlone DEF AddRejected, AddLink, ChangeAcknowledged, ChangeBegin, ChangeFetch,
                              ChangeSkipped, ChangeEdit, DeleteListing, UploadDeletes
<1>6. CASE \/ LoadCurrent(w) \/ LoadCleanup(w) \/ Acknowledge(w) \/ EditStatus(w)
           \/ LinkZero(w) \/ LinkRecent(w) \/ LinkNew(w)
    BY <1>6, UpdatedAlone DEF LoadCurrent, LoadCleanup, Acknowledge, EditStatus, LinkZero, LinkRecent,
                              LinkNew, UpdateLink
<1>7. CASE NothingToClean(w) \/ CleanUp(w) \/ CleanUpFails(w) \/ StoreRelisted(w)
    BY <1>7, UpdatedAlone DEF NothingToClean, CleanUp, CleanUpFails, StoreRelisted, AfterCleanup
<1> QED
    BY <1>1, <1>2, <1>3, <1>4, <1>5, <1>6, <1>7 DEF WorkerStep, DirectApiStep, ReconcileStep

(* What the steps that are no worker's leave alone. *)
LEMMA IdleSteps ==
    ASSUME World \/ Quiescent \/ UNCHANGED vars
    PROVE  UNCHANGED <<pc, job, link>>
BY DEF World, Quiescent, vars, market, Purchase, Expire, Withdraw, ApplyRemoval, ForgetResult,
       ForgetListing

LEMMA RouteStep ==
    ASSUME IInv, Routed, [Next]_vars
    PROVE  Routed'
<1>1. ASSUME NEW w \in Workers, WorkerStep(w) \/ \E req \in Requests : Deliver(w, req)
      PROVE  Routed'
  <2>1. Route(job'[w], pc'[w])
      BY <1>1, RequestRoute, ResolveRoute, OfferRoute, DirectRoute, ReconcileRoute
         DEF WorkerStep, DirectApiStep, Routed
  <2> QED
      BY <1>1, <2>1, WorkerAlone DEF Alone, Routed
<1>2. CASE World \/ Quiescent \/ UNCHANGED vars
    BY <1>2, IdleSteps DEF Routed
<1>3. CASE Restart
    BY <1>3, Unrouted DEF Restart, Routed, RoutedLabels, QuantityOnly, Relisting
<1> QED
    BY <1>1, <1>2, <1>3 DEF Next

(* What kind of webhook brought a worker where it is. *)
LEMMA RouteInvariant == Spec => []Routed
<1>1. Init => Routed
    BY Unrouted DEF Init, Routed, RoutedLabels, QuantityOnly, Relisting
<1>2. IInv /\ Routed /\ [Next]_vars => Routed'
    BY RouteStep
<1> QED
    BY <1>1, <1>2, Inductive, PTL DEF Spec

-----------------------------------------------------------------------------
(* Answers *)

(* Equal digests are of the same action and items. *)
LEMMA SameToken ==
    ASSUME KeysUnshared, NEW r \in Requests, NEW q \in Requests, Token(r) = Token(q)
    PROVE  r.kind = q.kind /\ r.batch = q.batch
<1>1. CASE r.key # NoKey /\ q.key # NoKey
    BY <1>1 DEF Token, KeysUnshared
<1>2. CASE r.key = NoKey /\ q.key = NoKey
    BY <1>2 DEF Token, PayloadToken
<1>3. CASE ~(r.key = NoKey <=> q.key = NoKey)
  <2>1. \E a, b, c, d : <<a>> = <<b, c, d>>
      BY <1>3 DEF Token, PayloadToken
  <2>2. \A a, b, c, d : Len(<<a>>) = 1 /\ Len(<<b, c, d>>) = 3
      OBVIOUS
  <2> QED
      BY <2>1, <2>2
<1> QED
    BY <1>1, <1>2, <1>3

Answering == AnswersKept /\ \A w \in Workers : Answered(job[w], pc[w])

(* The steps of an item neither give an answer nor keep one. *)
LEMMA ItemUnanswered ==
    ASSUME IInv, NEW w \in Workers, DirectApiStep(w) \/ ReconcileStep(w)
    PROVE  pc'[w] \notin ResultLabels /\ UNCHANGED <<idem, recentOk>>
<1>1. UNCHANGED <<idem, recentOk>>
  <2>1. CASE DirectApiStep(w)
      BY <2>1 DEF DirectApiStep, caches, NoIdentifier, UseWebhookSku, LookupListingSku, FetchProduct,
                  LookupRecentListing, FetchRecentListing, CreateListing, CreateLost, CreateFails,
                  AddRejected, AddStoreRecent, AddLink, ChangeAcknowledged, ChangeBegin, ChangeFetch,
                  ChangeSkipped, ChangeEdit, DeleteListing, UploadDeletes
  <2>2. CASE ReconcileStep(w)
      BY <2>2 DEF ReconcileStep, caches, LoadCurrent, LoadCleanup, Acknowledge, EditStatus,
                  WantsListing, LinkZero, LinkRecent, LinkNew, UpdateLink, NothingToClean, CleanUp,
                  CleanUpFails, StoreRelisted
  <2> QED
      BY <2>1, <2>2
<1>2. /\ \A j, p : Update(w, j, p) => pc'[w] = p
      /\ \A lid : Succeed(w, lid) \/ Fail(w) => pc'[w] = "item"
    BY Done, Updated
<1>3. CASE NoIdentifier(w) \/ UseWebhookSku(w) \/ LookupListingSku(w) \/ FetchProduct(w)
    BY <1>1, <1>2, <1>3 DEF NoIdentifier, UseWebhookSku, LookupListingSku, FetchProduct, ResultLabels
<1>4. CASE LookupRecentListing(w) \/ FetchRecentListing(w) \/ CreateListing(w) \/ CreateFails(w)
    BY <1>1, <1>2, <1>4 DEF LookupRecentListing, FetchRecentListing, CreateListing, CreateFails, ResultLabels
<1>5. CASE \/ AddRejected(w) \/ AddLink(w) \/ ChangeAcknowledged(w) \/ ChangeBegin(w)
           \/ ChangeFetch(w) \/ ChangeSkipped(w) \/ ChangeEdit(w) \/ DeleteListing(w)
           \/ UploadDeletes(w)
    BY <1>1, <1>2, <1>5 DEF AddRejected, AddLink, ChangeAcknowledged, ChangeBegin, ChangeFetch, ChangeSkipped,
                      ChangeEdit, DeleteListing, UploadDeletes, ResultLabels
<1>6. CASE \/ LoadCurrent(w) \/ LoadCleanup(w) \/ Acknowledge(w) \/ EditStatus(w)
           \/ LinkZero(w) \/ LinkRecent(w) \/ LinkNew(w)
    BY <1>1, <1>2, <1>6 DEF LoadCurrent, LoadCleanup, Acknowledge, EditStatus, LinkZero, LinkRecent,
                      LinkNew, UpdateLink, ResultLabels
<1>7. CASE NothingToClean(w) \/ CleanUp(w) \/ CleanUpFails(w) \/ StoreRelisted(w)
    BY <1>1, <1>2, <1>7 DEF NothingToClean, CleanUp, CleanUpFails, StoreRelisted, AfterCleanup, ResultLabels
<1>8. CASE CreateLost(w) \/ AddStoreRecent(w) \/ WantsListing(w)
    BY <1>1, <1>8 DEF CreateLost, AddStoreRecent, WantsListing, Step, IInv, JobsGood, ResultLabels
<1> QED
    BY <1>1, <1>3, <1>4, <1>5, <1>6, <1>7, <1>8 DEF DirectApiStep, ReconcileStep

LEMMA LookupsAnswer ==
    ASSUME IInv, KeysUnshared, AnswersKept, NEW w \in Workers,
           RecentSuccessLookup(w) \/ IdempotencyLookup(w)
    PROVE  Answered(job'[w], pc'[w])
<1>1. job[w].req \in Requests /\ job[w] \in Job
  <2>1. pc[w] \in {"recentSuccess", "idempotency"}
      BY DEF RecentSuccessLookup, IdempotencyLookup
  <2> QED
      BY <2>1, JobType DEF JobGood, Stage
<1> DEFINE hit == IF pc[w] = "recentSuccess" THEN recentOk[PayloadToken(job[w].req)]
                  ELSE idem[Token(job[w].req)]
           j == [job[w] EXCEPT !.res = hit]
<1>2. \/ pc'[w] \in {"idempotency", "item"}
      \/ job'[w] = j /\ pc'[w] = "reply" /\ hit # NoResult
  <2>1. \/ Update(w, job[w], "idempotency") \/ Update(w, job[w], "item")
        \/ Update(w, j, "reply") /\ hit # NoResult
      BY DEF RecentSuccessLookup, IdempotencyLookup
  <2> HIDE DEF j, hit
  <2> QED
      BY <2>1, Updated
<1>3. ASSUME hit # NoResult
      PROVE  hit.req.kind = job[w].req.kind /\ hit.req.batch = job[w].req.batch
  <2>1. CASE pc[w] = "recentSuccess"
    <3>1. PayloadToken(job[w].req) \in PayloadTokens
        BY <1>1 DEF PayloadTokens
    <3>2. PayloadToken(hit.req) = PayloadToken(job[w].req)
        BY <1>3, <2>1, <3>1 DEF AnswersKept
    <3> QED
        BY <3>2 DEF PayloadToken
  <2>2. CASE pc[w] # "recentSuccess"
    <3>1. Token(job[w].req) \in Tokens
        BY <1>1 DEF Tokens
    <3>2. hit \in Result /\ Token(hit.req) = Token(job[w].req)
        BY <1>3, <2>2, <3>1 DEF AnswersKept, IInv, StoreGood
    <3>3. hit.req \in Requests
        BY <3>2 DEF Result
    <3> QED
        BY <1>1, <3>2, <3>3, SameToken
  <2> QED
      BY <2>1, <2>2
<1>4. j.req = job[w].req /\ j.res = hit
    BY <1>1 DEF Job
<1> HIDE DEF j, hit
<1> QED
    BY <1>2, <1>3, <1>4 DEF Answered, ResultLabels

LEMMA ConcludeAnswers ==
    ASSUME IInv, NEW w \in Workers, Conclude(w)
    PROVE  Answered(job'[w], pc'[w])
<1> DEFINE j == [job[w] EXCEPT !.res = ResultOf(w)]
           p == IF KindOf(w) \in LiveKinds THEN "reply" ELSE "storeResult"
<1>1. job'[w] = j /\ pc'[w] = p
  <2>1. Update(w, j, p)
      BY DEF Conclude
  <2> QED
      BY <2>1, Updated
<1>2. j.req = job[w].req /\ j.res = ResultOf(w)
    BY JobType DEF Job
<1>3. ResultOf(w).req = job[w].req
    BY DEF ResultOf
<1>4. ResultOf(w) # NoResult
  <2>1. job[w].req \in Requests /\ job[w].first \in Link
      BY JobType DEF Conclude, JobGood, Stage, Job
  <2>2. ResultOf(w) \in Result
      BY <2>1 DEF ResultOf, Result
  <2> QED
      BY <2>2, ConstantsAssumption
<1> HIDE DEF j
<1> QED
    BY <1>1, <1>2, <1>3, <1>4 DEF Answered, ResultLabels

LEMMA AnswerStep ==
    ASSUME IInv, KeysUnshared, Answering, [Next]_vars
    PROVE  Answering'
<1>1. ASSUME NEW w \in Workers, Answered(job'[w], pc'[w]), AnswersKept',
             WorkerStep(w) \/ \E req \in Requests : Deliver(w, req)
      PROVE  Answering'
    BY <1>1, WorkerAlone DEF Alone, Answering
<1>2. ASSUME NEW w \in Workers, DirectApiStep(w) \/ ReconcileStep(w)
      PROVE  Answering'
  <2>1. Answered(job'[w], pc'[w]) /\ AnswersKept'
      BY <1>2, ItemUnanswered DEF Answered, Answering, AnswersKept, ResultLabels, Tokens, PayloadTokens,
                                  Token, PayloadToken
  <2> QED
      BY <1>1, <1>2, <2>1 DEF WorkerStep
<1>3. ASSUME NEW w \in Workers,
             \/ RecentSuccessLookup(w) \/ IdempotencyLookup(w) \/ Conclude(w) \/ Reply(w)
             \/ \E req \in Requests : Deliver(w, req)
      PROVE  Answering'
  <2>1. AnswersKept'
      BY <1>3 DEF Answering, AnswersKept, caches, RecentSuccessLookup, IdempotencyLookup, Conclude, Reply,
                  Deliver, Tokens, PayloadTokens, Token, PayloadToken
  <2>2. CASE Reply(w) \/ \E req \in Requests : Deliver(w, req)
    <3>1. pc'[w] \in {"idle", "item", "recentSuccess", "idempotency"}
        BY <2>2, Updated DEF Reply, Deliver
    <3>2. pc'[w] \notin ResultLabels
        BY <3>1 DEF ResultLabels
    <3> QED
        BY <1>1, <1>3, <2>1, <3>2 DEF WorkerStep, Answered, ResultLabels
  <2> QED
      BY <1>1, <1>3, <2>1, <2>2, LookupsAnswer, ConcludeAnswers DEF WorkerStep, Answering
<1>4. ASSUME NEW w \in Workers, StoreIdempotent(w) \/ StoreRecentSuccess(w)
      PROVE  Answering'
  <2>1. /\ pc[w] \in {"storeResult", "storeRecentSuccess"} /\ job'[w] = job[w]
        /\ pc'[w] \in {"storeRecentSuccess", "reply"}
      BY <1>4 DEF StoreIdempotent, StoreRecentSuccess, Step, IInv, JobsGood
  <2>2. job[w].res # NoResult /\ job[w].res.req = job[w].req
      BY <2>1 DEF Answering, Answered, ResultLabels
  <2>3. AnswersKept'
    <3>1. \A t \in Tokens : idem'[t] # NoResult => Token(idem'[t].req) = t
        BY <1>4, <2>2 DEF StoreIdempotent, StoreRecentSuccess, Answering, AnswersKept, IInv, StoreGood
    <3>2. \A t \in PayloadTokens : recentOk'[t] # NoResult => PayloadToken(recentOk'[t].req) = t
        BY <1>4, <2>2 DEF StoreIdempotent, StoreRecentSuccess, Answering, AnswersKept, IInv, StoreGood
    <3> QED
        BY <3>1, <3>2 DEF AnswersKept, Tokens, PayloadTokens, Token, PayloadToken
  <2>4. Answered(job'[w], pc'[w])
      BY <2>1, <2>2 DEF Answered
  <2> QED
      BY <1>1, <1>4, <2>3, <2>4 DEF WorkerStep
<1>5. CASE World \/ Quiescent \/ UNCHANGED vars
  <2>1. AnswersKept'
      BY <1>5 DEF World, Quiescent, vars, caches, Purchase, Expire, Withdraw, ApplyRemoval,
                  ForgetResult, ForgetListing, Answering, AnswersKept, IInv, StoreGood, Tokens,
                  PayloadTokens, Token, PayloadToken
  <2> QED
      BY <1>5, <2>1, IdleSteps DEF Answering
<1>6. CASE Restart
  <2>1. AnswersKept'
      BY <1>6 DEF Restart, AnswersKept, Tokens, PayloadTokens, Token, PayloadToken
  <2> QED
      BY <1>6, <2>1 DEF Restart, Answering, Answered, ResultLabels
<1> QED
    BY <1>2, <1>3, <1>4, <1>5, <1>6 DEF Next, WorkerStep

(* No answer, computed or from a cache, is that of another action or of other   *)
(* items, with any number of workers and any faults, if the requests that share  *)
(* an explicit key are the same (_idempotency_digest hashes the key alone).     *)
THEOREM AnswersMatch ==
    ASSUME KeysUnshared
    PROVE  Spec => []AnswerMatchesRequest
<1>1. Init => Answering
    BY ConstantsAssumption
       DEF Init, Answering, AnswersKept, Answered, ResultLabels, Tokens, PayloadTokens, Token, PayloadToken
<1>2. IInv /\ Answering /\ [Next]_vars => Answering'
    BY AnswerStep
<1>3. Answering => AnswerMatchesRequest
    BY DEF Answering, Answered, AnswerMatchesRequest, KindOf
<1> QED
    BY <1>1, <1>2, <1>3, Inductive, PTL DEF Spec

-----------------------------------------------------------------------------
(* What can happen to the listings *)

Posts(w) == pc[w] = "create" /\ PostListing(w)
Edits(w) == pc[w] = "changeEdit" /\ Editable(job[w].old) /\ listing' = Edited(w)
Restocks(w) == Reusable(w) /\ Editable(job[w].cur) /\ SetStatus(job[w].cur, StatusFor(w))
Takes(l) == \E status \in {"Sold", "Expired", "Gone"} :
                /\ Fetchable(l) /\ SetStatus(l, status)
                /\ status = "Expired" => StatusOf(l) = "For Sale"

LEMMA WorkerChanges ==
    ASSUME IInv, NEW w \in Workers, WorkerStep(w), listing' # listing
    PROVE  Posts(w) \/ Edits(w) \/ Restocks(w) \/ \E l \in Listings : Takes(l)
<1>1. CASE CreateListing(w) \/ CreateLost(w)
    BY <1>1 DEF CreateListing, CreateLost, Posts
<1>2. CASE ChangeEdit(w)
    BY <1>2 DEF ChangeEdit, Edits
<1>3. CASE EditStatus(w)
    BY <1>3 DEF EditStatus, Restocks, SetStatus
<1>4. CASE DeleteListing(w) \/ CleanUp(w)
  <2>1. PICK l : Fetchable(l) /\ SetStatus(l, "Gone")
      BY <1>4 DEF DeleteListing, CleanUp, SetStatus
  <2>2. l \in Listings
      BY <2>1 DEF Fetchable, IsListing
  <2> QED
      BY <2>1, <2>2 DEF Takes
<1> QED
    BY <1>1, <1>2, <1>3, <1>4, ListingChanged

LEMMA WorldTakes ==
    ASSUME World \/ Quiescent \/ UNCHANGED vars, listing' # listing
    PROVE  \E l \in Listings : Takes(l)
<1>1. PICK l \in Listings : Purchase(l) \/ Expire(l) \/ Withdraw(l) \/ ApplyRemoval(l)
    BY DEF World, Quiescent, vars, ForgetResult, ForgetListing, market
<1>2. Takes(l)
    BY <1>1 DEF Purchase, Expire, Withdraw, ApplyRemoval, Takes, Fetchable, IsListing, SetStatus,
                Existing, Live
<1> QED
    BY <1>2

LEMMA ListingSteps ==
    ASSUME IInv, [Next]_vars, listing' # listing
    PROVE  \/ \E w \in Workers : WorkerStep(w) /\ (Posts(w) \/ Edits(w) \/ Restocks(w))
           \/ \E l \in Listings : Takes(l)
<1>1. CASE \E w \in Workers : WorkerStep(w)
    BY <1>1, WorkerChanges
<1>2. CASE World
    BY <1>2, WorldTakes
<1> QED
    BY <1>1, <1>2 DEF Next, Deliver, Restart, Quiescent, vars, market

(* A status set, and a listing edited. *)
LEMMA StatusSet ==
    ASSUME ListingsGood, NEW m, NEW status, SetStatus(m, status), NEW l \in Listings
    PROVE  /\ StatusOf(l)' = IF l = m THEN status ELSE StatusOf(l)
           /\ listing'[l].sku = listing[l].sku /\ listing'[l].priced = listing[l].priced
BY DEF SetStatus, ListingsGood, ListingState, StatusOf

LEMMA EditSet ==
    ASSUME IInv, NEW w \in Workers, Edits(w), NEW l \in Listings
    PROVE  /\ listing'[l].sku = listing[l].sku
           /\ listing'[l].priced = IF l = job[w].old THEN listing[l].priced \/ ItemOf(w).priced
                                   ELSE listing[l].priced
           /\ \/ StatusOf(l)' = StatusOf(l)
              \/ l = job[w].old /\ StatusOf(l) \in Live /\ StatusOf(l)' = "For Sale"
<1> DEFINE edit == [status |-> IF Reactivates(w) THEN "For Sale" ELSE listing[job[w].old].status,
                    sku    |-> job[w].sku,
                    priced |-> listing[job[w].old].priced \/ ItemOf(w).priced]
<1>1. listing' = [listing EXCEPT ![job[w].old] = edit]
    BY DEF Edits, Edited
<1>2. listing[job[w].old].sku = job[w].sku /\ StatusOf(job[w].old) \in Live
    BY AtChange DEF Edits, Owns, Editable
<1>3. /\ edit.sku = job[w].sku
      /\ edit.priced = (listing[job[w].old].priced \/ ItemOf(w).priced)
      /\ edit.status \in {"For Sale", listing[job[w].old].status}
    OBVIOUS
<1> HIDE DEF edit
<1> QED
    BY <1>1, <1>2, <1>3 DEF StatusOf, IInv, ListingsGood

LEMMA PostSet ==
    ASSUME IInv, NEW w \in Workers, Posts(w)
    PROVE  /\ FreshId \in Listings /\ StatusOf(FreshId) = "Unused" /\ job[w].sku \in Skus
           /\ listing'[FreshId].sku = job[w].sku /\ listing'[FreshId].status = CreateStatus(w)
           /\ listing'[FreshId].priced = (IF KindOf(w) = "add" THEN ItemOf(w).priced
                                          ELSE job[w].sku \in PricedSkus)
           /\ \A l \in Listings : l # FreshId => listing'[l] = listing[l]
<1>1. FreshId \in Listings /\ StatusOf(FreshId) = "Unused"
    BY DEF Posts, PostListing, Created, FreshId, UnusedIds
<1>2. job[w].sku \in Skus
    BY Posted DEF Posts
<1> DEFINE priced == IF KindOf(w) = "add" THEN ItemOf(w).priced ELSE job[w].sku \in PricedSkus
           new == [status |-> CreateStatus(w), sku |-> job[w].sku, priced |-> priced]
<1>3. listing' = [listing EXCEPT ![FreshId] = new]
    BY DEF Posts, PostListing, Created
<1>4. new.sku = job[w].sku /\ new.status = CreateStatus(w) /\ new.priced = priced
    OBVIOUS
<1> HIDE DEF new
<1>5. \A l \in Listings : listing'[l] = IF l = FreshId THEN new ELSE listing[l]
    BY <1>3 DEF IInv, ListingsGood
<1>6. listing'[FreshId] = new /\ \A l \in Listings : l # FreshId => listing'[l] = listing[l]
    BY <1>1, <1>5
<1>7. /\ listing'[FreshId].sku = job[w].sku /\ listing'[FreshId].status = CreateStatus(w)
      /\ listing'[FreshId].priced = priced
  <2> HIDE DEF priced
  <2> QED
      BY <1>4, <1>6 DEF StatusOf
<1> QED
    BY <1>1, <1>2, <1>6, <1>7

-----------------------------------------------------------------------------
(* What a worker is at *)

(* It goes on with its item, and it has done with it or has none. *)
KeepsItem(w) ==
    /\ job'[w].req = job[w].req /\ job'[w].i = job[w].i /\ job'[w].sku = job[w].sku
    /\ pc[w] \in ItemLabels => pc'[w] \in ItemLabels
LeavesItem(w) ==
    job'[w].sku = NoSku /\ job'[w].new = NoListing /\ (job'[w].req = job[w].req \/ pc'[w] = "idle")

Begins(w) ==
    \/ UseWebhookSku(w) \/ LookupListingSku(w)
    \/ InBatch(w, {"add"}) /\ LookupRecentListing(w)

LEMMA FetchesProduct ==
    ASSUME IInv, NEW w \in Workers, FetchProduct(w)
    PROVE  \/ Fail(w)
           \/ /\ pc'[w] = IF KindOf(w) = "quantity" THEN "loadCurrent" ELSE "change"
              /\ job'[w].req = job[w].req /\ job'[w].i = job[w].i /\ job'[w].sku = job[w].sku
              /\ job'[w].cur = link[job[w].sku]
<1>1. SUFFICES ASSUME NEW stocked \in BOOLEAN,
                      Update(w, [job[w] EXCEPT !.cur = link[job[w].sku], !.stocked = stocked],
                             IF KindOf(w) = "quantity" THEN "loadCurrent" ELSE "change")
               PROVE  /\ pc'[w] = IF KindOf(w) = "quantity" THEN "loadCurrent" ELSE "change"
                      /\ job'[w].req = job[w].req /\ job'[w].i = job[w].i
                      /\ job'[w].sku = job[w].sku /\ job'[w].cur = link[job[w].sku]
    BY DEF FetchProduct
<1> DEFINE j == [job[w] EXCEPT !.cur = link[job[w].sku], !.stocked = stocked]
<1>2. job'[w] = j /\ pc'[w] = IF KindOf(w) = "quantity" THEN "loadCurrent" ELSE "change"
    BY <1>1, Updated
<1>3. j.req = job[w].req /\ j.i = job[w].i /\ j.sku = job[w].sku /\ j.cur = link[job[w].sku]
    BY JobType DEF Job
<1> QED
    BY <1>2, <1>3

LEMMA Loads ==
    ASSUME IInv, NEW w \in Workers, LoadCurrent(w)
    PROVE  /\ job'[w].req = job[w].req /\ job'[w].i = job[w].i /\ job'[w].sku = job[w].sku
           /\ job'[w].cur = job[w].cur /\ job'[w].curSnap \in Snapshot
           /\ Load(job[w].cur, job'[w].curSnap) /\ pc'[w] \in {"loadCleanup", "decide"}
<1> DEFINE l == CleanupId(w)
<1>1. PICK snap \in Snapshot :
          \E p \in {"loadCleanup", "decide"} :
              /\ Load(job[w].cur, snap)
              /\ Update(w, [job[w] EXCEPT !.curSnap = snap, !.old = l, !.oldSnap = snap], p)
    BY DEF LoadCurrent
<1> HIDE DEF l
<1> PICK p \in {"loadCleanup", "decide"} :
        /\ Load(job[w].cur, snap)
        /\ Update(w, [job[w] EXCEPT !.curSnap = snap, !.old = l, !.oldSnap = snap], p)
    BY <1>1
<1> DEFINE j == [job[w] EXCEPT !.curSnap = snap, !.old = l, !.oldSnap = snap]
<1>2. job'[w] = j /\ pc'[w] = p
    BY <1>1, Updated
<1>3. /\ j.req = job[w].req /\ j.i = job[w].i /\ j.sku = job[w].sku
      /\ j.cur = job[w].cur /\ j.curSnap = snap
    BY JobType DEF Job
<1> QED
    BY <1>1, <1>2, <1>3

LEMMA GoesOn ==
    ASSUME IInv, NEW w \in Workers, WorkerStep(w), ~Begins(w)
    PROVE  KeepsItem(w) \/ LeavesItem(w)
<1> USE DEF KeepsItem
<1>1. \A lid : Succeed(w, lid) \/ Fail(w) => LeavesItem(w)
    BY Done DEF LeavesItem
<1>2. job[w] \in Job /\ job \in [Workers -> Job] /\ pc \in [Workers -> Labels]
    BY DEF IInv, JobsGood
<1>3. CASE RecentSuccessLookup(w) \/ IdempotencyLookup(w) \/ Conclude(w)
    BY <1>2, <1>3 DEF RecentSuccessLookup, IdempotencyLookup, Conclude, Update, Job, ItemLabels
<1>4. CASE Reply(w)
    BY <1>2, <1>4 DEF Reply, Update, IdleJob, FreshJob, LeavesItem
<1>5. CASE \/ StoreIdempotent(w) \/ StoreRecentSuccess(w) \/ AddStoreRecent(w) \/ WantsListing(w)
           \/ CreateLost(w)
    BY <1>2, <1>5 DEF StoreIdempotent, StoreRecentSuccess, AddStoreRecent, WantsListing, CreateLost,
                      Step, ItemLabels, ResultLabels, Labels
<1>6. CASE LookupRecentListing(w)
  <2>1. job'[w] = [job[w] EXCEPT !.sku = job[w].sku, !.new = recent[job[w].sku]]
    <3>1. pc[w] = "lookupRecent"
        BY <1>6 DEF Begins, LookupRecentListing, InBatch
    <3>2. KindOf(w) # "add"
        BY <3>1, JobType DEF JobGood, Stage, KindOf
    <3> QED
        BY <1>2, <1>6, <3>2 DEF LookupRecentListing, Update
  <2>2. pc'[w] \in {"create", "fetchRecent"}
      BY <1>2, <1>6 DEF LookupRecentListing, Update
  <2> QED
      BY <1>2, <2>1, <2>2 DEF Job, ItemLabels, ResultLabels, Labels
<1>7. CASE FetchRecentListing(w) \/ CreateListing(w)
    BY <1>2, <1>7 DEF FetchRecentListing, CreateListing, Update, Job, ItemLabels, ResultLabels, Labels
<1>8. CASE ChangeBegin(w)
    BY <1>2, <1>8 DEF ChangeBegin, Update, Job, ItemLabels, ResultLabels, Labels
<1>9. CASE ChangeFetch(w)
  <2>1. CASE Update(w, [job[w] EXCEPT !.oldSnap = listing[job[w].old]], "changeEdit")
      BY <1>2, <2>1 DEF Update, Job, ItemLabels, ResultLabels, Labels
  <2> QED
      BY <1>1, <1>9, <2>1 DEF ChangeFetch
<1>10. CASE \/ NoIdentifier(w) \/ CreateFails(w) \/ AddRejected(w) \/ AddLink(w)
            \/ ChangeAcknowledged(w) \/ ChangeSkipped(w) \/ ChangeEdit(w) \/ DeleteListing(w)
    BY <1>1, <1>10 DEF NoIdentifier, CreateFails, AddRejected, AddLink, ChangeAcknowledged,
                       ChangeSkipped, ChangeEdit, DeleteListing
<1>11. CASE UploadDeletes(w)
  <2> DEFINE n == Len(job[w].req.batch)
             j(ok, bad) == [FreshJob(job[w].req, n + 1) EXCEPT !.ok = ok, !.bad = bad]
  <2>1. \A ok, bad : j(ok, bad).req = job[w].req /\ j(ok, bad).sku = NoSku /\ j(ok, bad).new = NoListing
      BY DEF FreshJob
  <2>2. Update(w, j(n, 0), "item") \/ Update(w, j(0, n), "item")
      BY <1>11 DEF UploadDeletes
  <2>3. job'[w] = j(n, 0) \/ job'[w] = j(0, n)
      BY <2>2, Updated
  <2> HIDE DEF j
  <2> QED
      BY <2>1, <2>3 DEF LeavesItem
<1>12. CASE LoadCurrent(w)
    BY <1>12, Loads DEF ItemLabels, ResultLabels, Labels
<1>13. CASE LoadCleanup(w)
    BY <1>2, <1>13 DEF LoadCleanup, Update, Job, ItemLabels, ResultLabels, Labels
<1>14. CASE LinkZero(w) \/ LinkRecent(w) \/ LinkNew(w)
    BY <1>1, <1>2, <1>14 DEF LinkZero, LinkRecent, LinkNew, UpdateLink, Update, Job,
                             ItemLabels, ResultLabels, Labels
<1>15. CASE \/ Acknowledge(w) \/ EditStatus(w)
            \/ NothingToClean(w) \/ CleanUp(w) \/ CleanUpFails(w) \/ StoreRelisted(w)
    BY <1>1, <1>2, <1>15 DEF Acknowledge, EditStatus, NothingToClean, CleanUp, CleanUpFails,
                             AfterCleanup, StoreRelisted, Update, ItemLabels, ResultLabels, Labels
<1>16. CASE FetchProduct(w)
    BY <1>1, <1>16, FetchesProduct DEF ItemLabels, ResultLabels, Labels
<1> QED
    BY <1>1, <1>3, <1>4, <1>5, <1>6, <1>7, <1>8, <1>9, <1>10, <1>11, <1>12, <1>13, <1>14, <1>15, <1>16
       DEF WorkerStep, DirectApiStep, ReconcileStep, Begins

(* An item is begun. *)
LEMMA Begun ==
    ASSUME IInv, NEW w \in Workers, Begins(w)
    PROVE  /\ pc[w] = "item" /\ HasItem(w) /\ listing' = listing
           /\ job'[w].req = job[w].req /\ job'[w].i = job[w].i /\ job'[w].cur = job[w].cur
           /\ \/ pc'[w] = "fetchProduct" /\ KindOf(w) \in LiveKinds
              \/ pc'[w] \in {"create", "fetchRecent"} /\ KindOf(w) = "add" /\ job'[w].sku = ItemOf(w).sku
           /\ job'[w].sku # NoSku => Named(ItemOf(w)) /\ SkuOf(ItemOf(w)) = job'[w].sku
<1>1. pc[w] = "item" /\ HasItem(w) /\ listing' = listing
    BY DEF Begins, UseWebhookSku, LookupListingSku, LookupRecentListing, InBatch, market
<1>2. PICK item : item = ItemOf(w)
    OBVIOUS
<1>3. item \in Item
    BY <1>1, <1>2, ItemType
<1>4. CASE UseWebhookSku(w) \/ LookupListingSku(w)
  <2>1. PICK sku : /\ Update(w, [job[w] EXCEPT !.sku = sku], "fetchProduct")
                   /\ sku # NoSku => Named(item) /\ sku = SkuOf(item)
      BY <1>2, <1>3, <1>4 DEF UseWebhookSku, LookupListingSku, Named, SkuOf, Item
  <2> DEFINE j == [job[w] EXCEPT !.sku = sku]
  <2>2. job'[w] = j /\ pc'[w] = "fetchProduct"
      BY <2>1, Updated
  <2>3. j.req = job[w].req /\ j.i = job[w].i /\ j.sku = sku /\ j.cur = job[w].cur
      BY JobType DEF Job
  <2>4. KindOf(w) \in LiveKinds
      BY <1>4 DEF UseWebhookSku, LookupListingSku, InBatch, LiveKinds
  <2> HIDE DEF j
  <2> QED
      BY <1>1, <1>2, <2>1, <2>2, <2>3, <2>4
<1>5. CASE InBatch(w, {"add"}) /\ LookupRecentListing(w)
  <2> DEFINE j == [job[w] EXCEPT !.sku = ItemOf(w).sku, !.new = recent[ItemOf(w).sku]]
  <2>1. KindOf(w) = "add"
      BY <1>5 DEF InBatch
  <2>2. Update(w, j, IF recent[ItemOf(w).sku] = NoListing THEN "create" ELSE "fetchRecent")
      BY <1>5, <2>1 DEF LookupRecentListing
  <2>3. job'[w] = j /\ pc'[w] \in {"create", "fetchRecent"}
      BY <2>2, Updated
  <2>4. /\ j.req = job[w].req /\ j.i = job[w].i /\ j.sku = ItemOf(w).sku /\ j.cur = job[w].cur
      BY JobType DEF Job
  <2> HIDE DEF j
  <2>5. item.sku # NoSku => Named(item) /\ SkuOf(item) = item.sku
      BY DEF Named, SkuOf
  <2> QED
      BY <1>1, <1>2, <2>1, <2>3, <2>4, <2>5
<1> QED
    BY <1>4, <1>5 DEF Begins

(* The SKU of a listing a webhook names does not change. *)
LEMMA NamesStay ==
    ASSUME IInv, [Next]_vars, NEW w \in Workers, NEW k \in 1..Len(job[w].req.batch)
    PROVE  LET item == job[w].req.batch[k] IN
           item.pid \in Listings => listing'[item.pid].sku = listing[item.pid].sku
<1>1. Aged
    BY StepGood, Ageing DEF IInv
<1>2. InFlight(job[w])
    BY JobType DEF JobGood
<1> QED
    BY <1>1, <1>2 DEF InFlight, Aged

LEMMA AboutStays ==
    ASSUME IInv, [Next]_vars, NEW w \in Workers, AboutItem(job[w], pc[w]),
           KeepsItem(w)
    PROVE  AboutItem(job[w], pc[w])'
<1>1. PICK item : item = job[w].req.batch[job[w].i]
    OBVIOUS
<1>2. ASSUME job[w].sku # NoSku
      PROVE  /\ pc'[w] \in ItemLabels /\ Named(item) /\ SkuOf(item)' = job[w].sku
             /\ job[w].req.kind = "add" => item.sku = job[w].sku
  <2>1. pc[w] \in ItemLabels /\ Named(item) /\ SkuOf(item) = job[w].sku
      BY <1>1, <1>2 DEF AboutItem
  <2>2. job[w].i \in 1..Len(job[w].req.batch)
      BY <2>1, AtItem
  <2>3. SkuOf(item)' = SkuOf(item)
      BY <1>1, <2>1, <2>2, NamesStay DEF Named, SkuOf
  <2> QED
      BY <1>1, <1>2, <2>1, <2>3 DEF AboutItem, KeepsItem
<1>3. job'[w].req.batch[job'[w].i] = item /\ job'[w].sku = job[w].sku /\ job'[w].req = job[w].req
    BY <1>1 DEF KeepsItem
<1> QED
    BY <1>2, <1>3 DEF AboutItem, Named

(* Whatever is offered is so for a product, whoever is at work is so at the one its  *)
(* webhook names.                                                             *)
LEMMA SkuStep ==
    ASSUME IInv, EachHasItsSku, [Next]_vars
    PROVE  EachHasItsSku'
<1>1. ASSUME NEW l \in Listings, CreatedListing(l)'
      PROVE  listing'[l].sku \in Skus
  <2>1. Aged /\ LifeStep
      BY StepGood, Ageing DEF IInv
  <2>2. CASE CreatedListing(l)
      BY <2>1, <2>2 DEF Aged, EachHasItsSku
  <2>3. CASE ~CreatedListing(l)
    <3>1. listing'[l] # listing[l]
        BY <1>1, <2>3 DEF CreatedListing, StatusOf
    <3>2. PICK w \in Workers : Posts(w) \/ Edits(w) \/ Restocks(w) \/ \E m \in Listings : Takes(m)
        BY <3>1, ListingSteps, <2>3, <1>1, StatusSet DEF Takes, Fetchable, Existing, Live, CreatedListing, IInv
    <3>3. Posts(w)
        BY <1>1, <2>3, <3>2, EditSet, StatusSet DEF CreatedListing, Restocks, Editable, Takes, Fetchable,
              Existing, Live, IInv
    <3>4. l = FreshId
        BY <1>1, <2>3, <3>3, PostSet DEF CreatedListing, StatusOf
    <3> QED
        BY <3>3, <3>4, PostSet
  <2> QED
      BY <2>2, <2>3
<1>2. ASSUME NEW w \in Workers
      PROVE  AboutItem(job[w], pc[w])'
  <2>1. CASE job'[w] = job[w] /\ pc'[w] = pc[w]
      BY <2>1, AboutStays DEF EachHasItsSku, KeepsItem
  <2>2. CASE WorkerStep(w) /\ ~Begins(w)
      BY <2>2, GoesOn, AboutStays DEF EachHasItsSku, LeavesItem, AboutItem
  <2>3. CASE Begins(w)
    <3>1. PICK item : item = ItemOf(w)
        OBVIOUS
    <3>2. SkuOf(item)' = SkuOf(item)
        BY <2>3, Begun DEF SkuOf
    <3>3. item = job'[w].req.batch[job'[w].i] /\ KindOf(w) = job'[w].req.kind
        BY <2>3, <3>1, Begun DEF ItemOf, KindOf
    <3>4. pc'[w] \in ItemLabels
        BY <2>3, Begun DEF ItemLabels, ResultLabels, Labels
    <3>5. job'[w].sku # NoSku => Named(item) /\ SkuOf(item)' = job'[w].sku
        BY <2>3, <3>1, <3>2, Begun
    <3>6. job'[w].req.kind = "add" => item.sku = job'[w].sku
        BY <2>3, <3>1, <3>3, Begun DEF LiveKinds
    <3> QED
        BY <3>3, <3>4, <3>5, <3>6 DEF AboutItem, Named
  <2>4. ASSUME NEW req \in Requests, Deliver(w, req)
        PROVE  AboutItem(job[w], pc[w])'
      BY <2>4, Updated DEF Deliver, FreshJob, AboutItem
  <2>5. CASE Restart
      BY <2>5 DEF Restart, IdleJob, FreshJob, AboutItem
  <2>6. CASE World \/ Quiescent \/ UNCHANGED vars
      BY <2>1, <2>6, IdleSteps
  <2>7. ASSUME NEW u \in Workers, u # w, WorkerStep(u) \/ \E req \in Requests : Deliver(u, req)
        PROVE  AboutItem(job[w], pc[w])'
      BY <2>1, <2>7, WorkerAlone DEF Alone
  <2> QED
      BY <2>2, <2>3, <2>4, <2>5, <2>6, <2>7 DEF Next
<1> QED
    BY <1>1, <1>2 DEF EachHasItsSku

LEMMA SkuInvariant == Spec => []EachHasItsSku
<1>1. Init => EachHasItsSku
    BY StartAssumption DEF Init, EachHasItsSku, AboutItem, IdleJob, FreshJob, CreatedListing, StatusOf
<1>2. IInv /\ EachHasItsSku /\ [Next]_vars => EachHasItsSku'
    BY SkuStep
<1> QED
    BY <1>1, <1>2, Inductive, PTL DEF Spec

-----------------------------------------------------------------------------
(* The offers of a product that nobody is at *)

HandLabels == {"linkNew", "storeRecent", "addLink", "cleanupRelist", "storeRelisted"}
BlindLabels == {"idle", "recentSuccess", "idempotency", "item", "fetchProduct", "change",
                "changeFetch", "changeEdit", "cleanup", "storeResult", "storeRecentSuccess", "reply"}

(* No listing of the product comes on offer; none comes on sale. *)
OldOffers(sku) ==
    \A l \in Listings : StatusOf(l)' \in Live /\ listing'[l].sku = sku =>
        StatusOf(l) \in Live /\ listing[l].sku = sku
NoNewSale(sku) ==
    \A l \in Listings : StatusOf(l)' = "For Sale" /\ listing'[l].sku = sku =>
        StatusOf(l) = "For Sale" /\ listing[l].sku = sku

LEMMA SameOffers ==
    ASSUME IInv, NEW sku, listing' = listing \/ \E l \in Listings : Takes(l)
    PROVE  OldOffers(sku) /\ NoNewSale(sku)
<1>1. CASE listing' = listing
    BY <1>1 DEF OldOffers, NoNewSale, StatusOf
<1>2. ASSUME NEW m \in Listings, Takes(m)
      PROVE  OldOffers(sku) /\ NoNewSale(sku)
    BY <1>2, StatusSet DEF OldOffers, NoNewSale, Takes, Live, IInv
<1> QED
    BY <1>1, <1>2

(* What a step of a worker does to the listings. *)
Moves(w) ==
    \/ listing' = listing \/ \E l \in Listings : Takes(l)
    \/ Posts(w) \/ Edits(w) \/ Restocks(w)

LEMMA WorkerMoves ==
    ASSUME IInv, NEW w \in Workers, WorkerStep(w)
    PROVE  Moves(w)
BY WorkerChanges DEF Moves

LEMMA NoneNew ==
    ASSUME IInv, NEW w \in Workers, Moves(w), NEW sku, Posts(w) => job[w].sku # sku
    PROVE  OldOffers(sku)
<1>1. CASE Edits(w)
    BY <1>1, EditSet DEF OldOffers
<1>2. CASE Restocks(w)
    BY <1>2, StatusSet DEF OldOffers, Restocks, Editable, IInv
<1>3. CASE Posts(w)
    BY <1>3, PostSet DEF OldOffers, StatusOf
<1> QED
    BY <1>1, <1>2, <1>3, SameOffers DEF Moves

LEMMA NoneSold ==
    ASSUME IInv, NEW w \in Workers, Moves(w), NEW sku, job[w].sku # sku
    PROVE  OldOffers(sku) /\ NoNewSale(sku)
<1>1. ASSUME Edits(w)
      PROVE  NoNewSale(sku)
  <2>1. listing[job[w].old].sku = job[w].sku
      BY <1>1, AtChange DEF Edits, Owns
  <2> QED
      BY <1>1, <2>1, EditSet DEF NoNewSale
<1>2. ASSUME Restocks(w)
      PROVE  NoNewSale(sku)
  <2>1. pc[w] = "decide" /\ job[w].cur \in Listings
      BY <1>2 DEF Restocks, Reusable, Editable, IsListing
  <2>2. listing[job[w].cur].sku = job[w].sku
      BY <2>1, AtDecide, ConstantsAssumption DEF JobGood, HoldsItsOwn, Holds, Owns
  <2> QED
      BY <1>2, <2>2, StatusSet DEF NoNewSale, Restocks, IInv
<1>3. ASSUME Posts(w)
      PROVE  NoNewSale(sku)
    BY <1>3, PostSet DEF NoNewSale, StatusOf
<1>4. NoNewSale(sku)
    BY <1>1, <1>2, <1>3, SameOffers DEF Moves
<1> QED
    BY <1>4, NoneNew

(* The faults that do not happen. *)
LEMMA Dependably ==
    ASSUME Orderly
    PROVE  /\ ~Fault("fetch") /\ ~Fault("createLost") /\ ~Fault("restart")
           /\ \A sku \in Skus : Added(sku) => ~Fault("forgetListing")
           /\ Stocking => ~Fault("link")
BY DEF Orderly, Dependable, Fault

(* The webhooks there are. *)
LEMMA KindsThere ==
    ASSUME IInv, NEW w \in Workers, pc[w] # "idle"
    PROVE  /\ KindOf(w) = "quantity" => Stocking
           /\ KindOf(w) = "add" /\ job[w].i \in 1..Len(job[w].req.batch) => Added(ItemOf(w).sku)
BY JobType DEF JobGood, Stage, Added, Stocking, KindOf, ItemOf

(* A listing in hand is one of the product its worker is at. *)
LEMMA Holder ==
    ASSUME IInv, NEW w \in Workers, pc[w] \in HandLabels
    PROVE  /\ job[w].sku \in Skus /\ job[w].new \in Listings
           /\ Owns(job[w].sku, job[w].new)
BY AtItem, ConstantsAssumption
   DEF JobGood, HoldsItsOwn, Holds, HandLabels, ItemLabels, SkuLabels, FoundLabels, ResultLabels, Labels

(* A listing of the product that a worker holds and that is no offer stays none. *)
LEMMA DeadStays ==
    ASSUME IInv, [Next]_vars, NEW sku \in Skus, OldOffers(sku), NoNewSale(sku),
           NEW w \in Workers, job[w].sku = sku, NEW l, l = job[w].cur
    PROVE  /\ Dead(l) => Dead(l)'
           /\ l \in Listings /\ StatusOf(l) # "For Sale" => StatusOf(l)' # "For Sale"
<1>1. Aged
    BY StepGood, Ageing DEF IInv
<1>2. l \in Listings => Owns(sku, l)
    BY JobType, ConstantsAssumption DEF JobGood, HoldsItsOwn, Holds
<1>3. l \in Listings => listing'[l].sku = sku
    BY <1>1, <1>2 DEF Aged, Owns, CreatedListing, StatusOf
<1> QED
    BY <1>3 DEF Dead, OldOffers, NoNewSale

(* Where nothing of the product is touched, what is known of it stays so. *)
LEMMA Untouched ==
    ASSUME IInv, [Next]_vars, NEW sku \in Skus, Offering(sku), OldOffers(sku), NoNewSale(sku),
           link'[sku] = link[sku], Added(sku) => recent'[sku] = recent[sku],
           \A w \in Workers : job[w].sku = sku \/ job'[w].sku = sku =>
               job'[w] = job[w] /\ pc'[w] = pc[w]
    PROVE  Offering(sku)'
<1>1. Offers(sku)' \subseteq Offers(sku)
    BY DEF Offers, OldOffers
<1>2. ASSUME NEW l \in Offers(sku), Known(sku, l)
      PROVE  Known(sku, l)'
  <2>1. ASSUME NEW w \in Workers, job[w].new = l, pc[w] \in HandLabels
        PROVE  job'[w] = job[w] /\ pc'[w] = pc[w]
      BY <2>1, Holder DEF Offers, Owns
  <2>2. Linked(sku, l) => Linked(sku, l)'
      BY <2>1 DEF Linked, HandLabels
  <2>3. Added(sku) /\ Remembered(sku, l) => Remembered(sku, l)'
      BY <2>1 DEF Remembered, HandLabels
  <2> QED
      BY <1>2, <2>2, <2>3 DEF Known, Told, Added, Stocking
<1>3. ASSUME NEW w \in Workers, job'[w].sku = sku
      PROVE  SeesLink(job[w], pc[w])' /\ SeesOffers(job[w], pc[w])'
  <2>1. job'[w] = job[w] /\ pc'[w] = pc[w] /\ job[w].sku = sku
      BY <1>3
  <2>2. SeesLink(job[w], pc[w]) /\ SeesOffers(job[w], pc[w])
      BY <2>1 DEF Offering
  <2>3. PICK l : l = job[w].cur
      OBVIOUS
  <2>4. /\ Dead(l) => Dead(l)'
        /\ l \in Listings /\ StatusOf(l) # "For Sale" => StatusOf(l)' # "For Sale"
      BY <2>1, <2>3, DeadStays
  <2>5. SeesLink(job[w], pc[w])'
      BY <2>1, <2>2, <2>3, <2>4 DEF SeesLink
  <2>6. SeesOffers(job[w], pc[w])'
      BY <1>1, <2>1, <2>2, <2>3, <2>4 DEF SeesOffers, Added
  <2> QED
      BY <2>5, <2>6
<1> QED
    BY <1>1, <1>2, <1>3 DEF Offering

-----------------------------------------------------------------------------
(* The offers of a product one worker is at *)

OnlyAt(w, sku) == \A v \in Workers \ {w} : job'[v] = job[v] /\ pc'[v] = pc[v] /\ job[v].sku # sku
Ready(w, sku) ==
    /\ IInv /\ Orderly /\ Routed /\ EachHasItsSku /\ [Next]_vars
    /\ Offering(sku) /\ OnlyAt(w, sku)
Sees(w, sku) == job'[w].sku = sku => SeesLink(job[w], pc[w])' /\ SeesOffers(job[w], pc[w])'

(* Who of the workers can hold an offer. *)
LEMMA KnownTo ==
    ASSUME NEW w \in Workers, NEW sku \in Skus, Ready(w, sku), NEW l \in Offers(sku)
    PROVE  /\ Told(sku) => \/ link[sku] = l
                           \/ job[w].new = l /\ pc[w] \in {"linkNew", "storeRecent", "addLink"}
           /\ Added(sku) => \/ recent[sku] = l
                            \/ /\ job[w].new = l
                               /\ pc[w] \in {"linkNew", "cleanupRelist", "storeRelisted", "storeRecent"}
<1>1. ASSUME NEW v \in Workers, job[v].new = l, pc[v] \in HandLabels
      PROVE  v = w
    BY <1>1, Holder DEF Offers, Owns, Ready, OnlyAt
<1>2. Known(sku, l)
    BY DEF Ready, Offering
<1> QED
    BY <1>1, <1>2 DEF Known, Linked, Remembered, HandLabels

(* The steps that write a link or the recent-listing cache: what the worker knew  *)
(* of a listing on offer it has written down, or is still about to.            *)
LEMMA Recorded ==
    ASSUME NEW w \in Workers, NEW sku \in Skus, Ready(w, sku),
           \A l, m \in Offers(sku)' : l = m, \A l \in Offers(sku)' : Known(sku, l)', Sees(w, sku)
    PROVE  Offering(sku)'
<1>1. ASSUME NEW v \in Workers, job'[v].sku = sku
      PROVE  SeesLink(job[v], pc[v])' /\ SeesOffers(job[v], pc[v])'
  <2>1. v = w
      BY <1>1 DEF Ready, OnlyAt
  <2> QED
      BY <1>1, <2>1 DEF Sees
<1> QED
    BY <1>1 DEF Offering

LEMMA OldOnly ==
    ASSUME NEW sku, Offering(sku), OldOffers(sku)
    PROVE  Offers(sku)' \subseteq Offers(sku) /\ \A l, m \in Offers(sku)' : l = m
BY DEF Offers, OldOffers, Offering

(* What is on offer stays known if nothing is put on offer, linked or remembered. *)
LEMMA Sighted ==
    ASSUME NEW w \in Workers, NEW sku \in Skus, Ready(w, sku), OldOffers(sku),
           pc[w] \notin HandLabels, link' = link, recent' = recent, Sees(w, sku)
    PROVE  Offering(sku)'
<1>1. Offers(sku)' \subseteq Offers(sku) /\ \A l, m \in Offers(sku)' : l = m
    BY OldOnly DEF Ready
<1>2. ASSUME NEW l \in Offers(sku)
      PROVE  Known(sku, l)'
    BY KnownTo DEF Known, Linked, Remembered, Told, Added, Stocking, HandLabels
<1> QED
    BY <1>1, <1>2, Recorded

LEMMA Blinded ==
    ASSUME NEW w \in Workers, NEW sku \in Skus, Ready(w, sku), OldOffers(sku),
           pc[w] \notin HandLabels, link' = link, recent' = recent, pc'[w] \in BlindLabels
    PROVE  Offering(sku)'
<1>1. Sees(w, sku)
    BY DEF Sees, SeesLink, SeesOffers, BlindLabels, QuantityOnly
<1> QED
    BY <1>1, Sighted

(* The steps that look at no offer. *)
LEMMA QuietOffers ==
    ASSUME NEW w \in Workers, NEW sku \in Skus, Ready(w, sku),
           \/ UseWebhookSku(w) \/ LookupListingSku(w) \/ CreateFails(w)
           \/ ChangeAcknowledged(w) \/ ChangeBegin(w) \/ ChangeFetch(w)
           \/ ChangeSkipped(w) \/ ChangeEdit(w)
           \/ Acknowledge(w) \/ EditStatus(w)
    PROVE  Offering(sku)'
<1>1. /\ \A j, p : Update(w, j, p) => pc'[w] = p
      /\ \A lid : Succeed(w, lid) \/ Fail(w) => pc'[w] = "item"
    BY Done, Updated DEF Ready
<1>2. pc'[w] \in BlindLabels
    BY <1>1 DEF UseWebhookSku, LookupListingSku, CreateFails, Acknowledge, EditStatus,
                ChangeAcknowledged, ChangeBegin, ChangeFetch, ChangeSkipped, ChangeEdit, BlindLabels
<1>3. pc[w] \notin HandLabels /\ link' = link /\ recent' = recent
    BY DEF UseWebhookSku, LookupListingSku, CreateFails, Acknowledge, EditStatus, Reusable,
           ChangeAcknowledged, ChangeBegin, ChangeFetch, ChangeSkipped, ChangeEdit, InBatch,
           HandLabels, market, caches
<1>4. OldOffers(sku)
  <2>1. CASE pc[w] = "create"
    <3>1. listing' = listing
        BY <2>1 DEF UseWebhookSku, LookupListingSku, CreateFails, Acknowledge, EditStatus, Reusable,
                    ChangeAcknowledged, ChangeBegin, ChangeFetch, ChangeSkipped, ChangeEdit, InBatch,
                    market
    <3> QED
        BY <3>1, SameOffers DEF Ready
  <2>2. CASE pc[w] # "create"
    <3>1. Moves(w)
        BY WorkerMoves DEF WorkerStep, DirectApiStep, ReconcileStep, Ready
    <3> QED
        BY <2>2, <3>1, NoneNew DEF Posts, Ready
  <2> QED
      BY <2>1, <2>2
<1> QED
    BY <1>2, <1>3, <1>4, Blinded

(* Reading the link and what it names. *)
LEMMA FetchProductOffers ==
    ASSUME NEW w \in Workers, NEW sku \in Skus, Ready(w, sku), job[w].sku = sku, FetchProduct(w)
    PROVE  Offering(sku)'
<1>1. link' = link /\ recent' = recent /\ listing' = listing /\ pc[w] = "fetchProduct"
    BY DEF FetchProduct, market, caches
<1>2. OldOffers(sku)
    BY <1>1, SameOffers DEF Ready
<1>3. CASE Fail(w)
    BY <1>1, <1>2, <1>3, Done, Blinded DEF HandLabels, BlindLabels, Ready
<1>4. CASE /\ pc'[w] = IF KindOf(w) = "quantity" THEN "loadCurrent" ELSE "change"
           /\ job'[w].sku = job[w].sku /\ job'[w].cur = link[job[w].sku]
  <2>1. Sees(w, sku)
      BY <1>1, <1>4 DEF Sees, SeesLink, SeesOffers, QuantityOnly
  <2> QED
      BY <1>1, <1>2, <2>1, Sighted DEF HandLabels
<1> QED
    BY <1>3, <1>4, FetchesProduct DEF Ready

(* The linked listing as fetched. *)
LEMMA LoadedGood ==
    ASSUME IInv, Orderly, NEW sku \in Skus, NEW l, l \in Listings => Owns(sku, l),
           NEW snap \in Snapshot, Load(l, snap)
    PROVE  /\ snap.status # "None" => l \in Listings
           /\ ~CandidateAlive(snap, sku) => Dead(l)
           /\ snap.status = "Draft" => StatusOf(l) # "For Sale"
<1>1. CASE Fetchable(l) /\ snap = listing[l]
    BY <1>1 DEF Fetchable, IsListing, Owns, CandidateAlive, Dead, StatusOf, Existing, Live
<1>2. CASE snap = Absent /\ ~Fetchable(l)
    BY <1>2 DEF Fetchable, IsListing, CandidateAlive, Dead, Absent, StatusOf, Existing
<1> QED
    BY <1>1, <1>2, Dependably DEF Load

LEMMA LoadOffers ==
    ASSUME NEW w \in Workers, NEW sku \in Skus, Ready(w, sku), job[w].sku = sku,
           LoadCurrent(w) \/ LoadCleanup(w)
    PROVE  Offering(sku)'
<1>1. /\ link' = link /\ recent' = recent /\ listing' = listing
      /\ pc[w] \in {"loadCurrent", "loadCleanup"}
    BY DEF LoadCurrent, LoadCleanup, market
<1>2. OldOffers(sku)
    BY <1>1, SameOffers DEF Ready
<1>3. job[w] \in Job /\ (job[w].cur \in Listings => Owns(sku, job[w].cur))
    BY JobType, ConstantsAssumption DEF JobGood, HoldsItsOwn, Holds, Ready
<1>4. SeesLink(job[w], pc[w])
    BY DEF Offering, Ready
<1>5. Sees(w, sku)
  <2>1. CASE LoadCurrent(w)
    <3>1. /\ job'[w].sku = sku /\ job'[w].cur = job[w].cur /\ job'[w].curSnap \in Snapshot
          /\ Load(job[w].cur, job'[w].curSnap) /\ pc'[w] \in {"loadCleanup", "decide"}
        BY <2>1, Loads DEF Ready
    <3>2. LET snap == job'[w].curSnap IN
          /\ snap.status # "None" => job[w].cur \in Listings
          /\ ~CandidateAlive(snap, sku) => Dead(job[w].cur)
          /\ snap.status = "Draft" => StatusOf(job[w].cur) # "For Sale"
        BY <1>3, <3>1, LoadedGood DEF Ready
    <3>3. job[w].cur = link[sku]
        BY <1>4, <2>1 DEF LoadCurrent, SeesLink, QuantityOnly
    <3> QED
        BY <1>1, <3>1, <3>2, <3>3 DEF Sees, SeesLink, SeesOffers, QuantityOnly, Dead, StatusOf,
                                      CandidateAlive
  <2>2. CASE LoadCleanup(w)
    <3>1. PICK snap \in Snapshot : Update(w, [job[w] EXCEPT !.oldSnap = snap], "decide")
        BY <2>2 DEF LoadCleanup
    <3> DEFINE j == [job[w] EXCEPT !.oldSnap = snap]
    <3>2. job'[w] = j /\ pc'[w] = "decide"
        BY <3>1, Updated DEF Ready
    <3>3. j.cur = job[w].cur /\ j.sku = job[w].sku /\ j.curSnap = job[w].curSnap
        BY <1>3 DEF Job
    <3> HIDE DEF j
    <3> QED
        BY <1>1, <1>4, <2>2, <3>2, <3>3 DEF LoadCleanup, Sees, SeesLink, SeesOffers, QuantityOnly,
                                            Dead, StatusOf, CandidateAlive
  <2> QED
      BY <2>1, <2>2
<1> QED
    BY <1>1, <1>2, <1>5, Sighted DEF HandLabels

LEMMA WantsOffers ==
    ASSUME NEW w \in Workers, NEW sku \in Skus, Ready(w, sku), job[w].sku = sku, WantsListing(w)
    PROVE  Offering(sku)'
<1>1. /\ link' = link /\ recent' = recent /\ listing' = listing /\ pc[w] = "decide"
      /\ job'[w] = job[w] /\ pc'[w] = "lookupRecent"
    BY Stepped, Updated DEF WantsListing, market, caches, Ready
<1>2. OldOffers(sku)
    BY <1>1, SameOffers DEF Ready
<1>3. SeesLink(job[w], pc[w]) /\ ~CandidateAlive(job[w].curSnap, job[w].sku)
    BY DEF Ready, Offering, WantsListing, Reusable
<1>4. Sees(w, sku)
    BY <1>1, <1>3 DEF Sees, SeesLink, SeesOffers, QuantityOnly, Dead, StatusOf
<1> QED
    BY <1>1, <1>2, <1>4, Sighted DEF HandLabels

(* What is on offer for the product when the worker needs a listing for it.      *)
LEMMA OnlyRemembered ==
    ASSUME NEW w \in Workers, NEW sku \in Skus, Ready(w, sku), NEW l \in Offers(sku),
           \/ InBatch(w, {"add"}) /\ ItemOf(w).sku = sku
           \/ pc[w] \in {"lookupRecent", "fetchRecent"} /\ job[w].sku = sku
    PROVE  Added(sku) /\ recent[sku] = l
<1>1. pc[w] \notin HandLabels
    BY DEF InBatch, HandLabels
<1>2. KindOf(w) \in {"add", "quantity"}
    BY DEF InBatch, Ready, Routed, Route, QuantityOnly, KindOf
<1>3. CASE KindOf(w) = "add"
  <2>1. job[w].i \in 1..Len(job[w].req.batch) /\ pc[w] # "idle"
    <3>1. CASE InBatch(w, {"add"})
        BY <3>1, BatchType DEF InBatch, HasItem, Ready
    <3>2. CASE pc[w] \in {"lookupRecent", "fetchRecent"}
        BY <3>2, AtItem DEF ItemLabels, ResultLabels, Labels, Ready
    <3> QED
        BY <3>1, <3>2
  <2>2. ItemOf(w).sku = sku
      BY <1>3, ConstantsAssumption DEF Ready, EachHasItsSku, AboutItem, KindOf, ItemOf
  <2>3. Added(sku)
      BY <1>3, <2>1, <2>2, KindsThere DEF Ready
  <2> QED
      BY <1>1, <2>3, KnownTo DEF HandLabels
<1>4. CASE KindOf(w) = "quantity"
  <2>1. pc[w] \in {"lookupRecent", "fetchRecent"} /\ job[w].sku = sku
      BY <1>4 DEF InBatch
  <2>2. Dead(job[w].cur) /\ job[w].cur = link[sku]
      BY <1>4, <2>1 DEF Ready, Offering, SeesLink, SeesOffers, KindOf, QuantityOnly
  <2>3. Told(sku)
      BY <1>4, <2>1, KindsThere DEF Told, Ready
  <2>4. link[sku] = l
      BY <1>1, <2>3, KnownTo DEF HandLabels
  <2> QED
      BY <2>2, <2>4 DEF Dead, Offers
<1> QED
    BY <1>2, <1>3, <1>4

LEMMA LookupRecentOffers ==
    ASSUME NEW w \in Workers, NEW sku \in Skus, Ready(w, sku), LookupRecentListing(w),
           \/ KindOf(w) = "add" /\ ItemOf(w).sku = sku
           \/ KindOf(w) # "add" /\ job[w].sku = sku
    PROVE  Offering(sku)'
<1> DEFINE j == [job[w] EXCEPT !.sku = sku, !.new = recent[sku]]
           p == IF recent[sku] = NoListing THEN "create" ELSE "fetchRecent"
<1>1. job'[w] = j /\ pc'[w] = p
  <2>1. Update(w, j, p)
      BY DEF LookupRecentListing
  <2> QED
      BY <2>1, Updated DEF Ready
<1>2. /\ j.req = job[w].req /\ j.sku = sku /\ j.new = recent[sku] /\ j.cur = job[w].cur
      /\ p \in {"create", "fetchRecent"} /\ (p = "create" => recent[sku] = NoListing)
    BY JobType DEF Job, Ready
<1>3. /\ link' = link /\ recent' = recent /\ listing' = listing
      /\ pc[w] \in {"item", "lookupRecent"}
    BY DEF LookupRecentListing, InBatch, market, caches
<1>4. \/ InBatch(w, {"add"}) /\ ItemOf(w).sku = sku /\ KindOf(w) = "add"
      \/ pc[w] = "lookupRecent" /\ KindOf(w) = "quantity" /\ job[w].sku = sku
    BY DEF LookupRecentListing, InBatch, Ready, Routed, Route, QuantityOnly, KindOf
<1> HIDE DEF j, p
<1>5. \A l \in Offers(sku) : recent[sku] = l
    BY <1>4, OnlyRemembered
<1>6. KindOf(w) = "quantity" => Dead(job[w].cur) /\ job[w].cur = link[sku]
    BY <1>4 DEF Ready, Offering, SeesLink, SeesOffers, KindOf, QuantityOnly
<1>7. Offers(sku)' = Offers(sku)
    BY <1>3 DEF Offers, StatusOf
<1>8. SeesLink(job[w], pc[w])'
    BY <1>1, <1>2, <1>3, <1>6 DEF SeesLink, QuantityOnly, KindOf
<1>9. p = "create" => Offers(sku) = {}
    BY <1>2, <1>5, ConstantsAssumption DEF Offers
<1>10. SeesOffers(job[w], pc[w])'
    BY <1>1, <1>2, <1>3, <1>6, <1>7, <1>9 DEF SeesOffers, Dead, StatusOf, KindOf
<1> QED
    BY <1>3, <1>8, <1>10, Sighted, SameOffers DEF HandLabels, Sees, Ready

LEMMA FetchRecentOffers ==
    ASSUME NEW w \in Workers, NEW sku \in Skus, Ready(w, sku), job[w].sku = sku,
           FetchRecentListing(w)
    PROVE  Offering(sku)'
<1> DEFINE l == job[w].new
<1>1. link' = link /\ recent' = recent /\ listing' = listing /\ pc[w] = "fetchRecent"
    BY DEF FetchRecentListing, market
<1>2. l \in Listings /\ job[w] \in Job /\ Owns(sku, l)
    BY <1>1, AtItem, ConstantsAssumption
       DEF Ready, JobGood, HoldsItsOwn, Holds, ItemLabels, SkuLabels, FoundLabels, ResultLabels, Labels
<1>3. /\ Added(sku) => l = recent[sku]
      /\ KindOf(w) = "quantity" => job[w].cur = link[sku]
    BY <1>1 DEF Ready, Offering, SeesLink, SeesOffers, KindOf
<1>4. Offers(sku) \subseteq {l} /\ Offers(sku)' = Offers(sku)
    BY <1>1, <1>3, OnlyRemembered DEF Offers, StatusOf
<1>5. KindOf(w) \in {"add", "quantity"}
    BY <1>1 DEF Ready, Routed, Route, KindOf
<1>6. OldOffers(sku)
    BY <1>1, SameOffers DEF Ready
<1>7. CASE Update(w, job[w], IF KindOf(w) = "add" THEN "storeRecent" ELSE "linkRecent")
  <2>1. job'[w] = job[w] /\ pc'[w] = IF KindOf(w) = "add" THEN "storeRecent" ELSE "linkRecent"
      BY <1>7, Updated DEF Ready
  <2>2. SeesLink(job[w], pc[w])'
      BY <1>1, <1>3, <1>5, <2>1 DEF SeesLink, QuantityOnly
  <2>3. SeesOffers(job[w], pc[w])'
      BY <1>4, <2>1 DEF SeesOffers
  <2> QED
      BY <1>1, <1>6, <2>2, <2>3, Sighted DEF HandLabels, Sees
<1>8. CASE /\ Update(w, [job[w] EXCEPT !.new = NoListing], "create")
           /\ ~Fetchable(l) \/ ~CandidateAlive(listing[l], job[w].sku)
  <2> DEFINE j == [job[w] EXCEPT !.new = NoListing]
  <2>1. job'[w] = j /\ pc'[w] = "create"
      BY <1>8, Updated DEF Ready
  <2>2. j.req = job[w].req /\ j.sku = job[w].sku /\ j.cur = job[w].cur
      BY <1>2 DEF Job
  <2> HIDE DEF j
  <2>3. StatusOf(l) \notin Live
      BY <1>2, <1>8 DEF Fetchable, IsListing, CandidateAlive, Owns, StatusOf, Existing, Live
  <2>4. Offers(sku) = {}
      BY <1>4, <2>3 DEF Offers
  <2>5. SeesLink(job[w], pc[w])' /\ SeesOffers(job[w], pc[w])'
      BY <1>1, <1>3, <1>4, <2>1, <2>2, <2>4 DEF SeesLink, SeesOffers, QuantityOnly, KindOf
  <2> QED
      BY <1>1, <1>6, <2>5, Sighted DEF HandLabels, Sees
<1> QED
    BY <1>7, <1>8, Dependably DEF FetchRecentListing, Ready

LEMMA CreateOffers ==
    ASSUME NEW w \in Workers, NEW sku \in Skus, Ready(w, sku), job[w].sku = sku, CreateListing(w)
    PROVE  Offering(sku)'
<1>1. link' = link /\ recent' = recent /\ pc[w] = "create" /\ Posts(w)
    BY DEF CreateListing, caches, Posts
<1>2. PICK new : new = FreshId
    OBVIOUS
<1>3. /\ new \in Listings
      /\ \A l \in Listings : l # new => listing'[l] = listing[l]
    BY <1>1, <1>2, PostSet DEF Ready
<1> DEFINE j == [job[w] EXCEPT !.new = new]
           p == IF KindOf(w) = "add" THEN "storeRecent" ELSE "linkNew"
<1>4. job'[w] = j /\ pc'[w] = p
  <2>1. Update(w, j, p)
      BY <1>2 DEF CreateListing
  <2> QED
      BY <2>1, Updated DEF Ready
<1>5. j.req = job[w].req /\ j.sku = sku /\ j.cur = job[w].cur /\ j.new = new
    BY JobType DEF Job, Ready
<1>6. Offers(sku) = {} /\ (KindOf(w) = "quantity" => job[w].cur = link[sku])
    BY <1>1 DEF Ready, Offering, SeesLink, SeesOffers, KindOf
<1>7. KindOf(w) \in {"add", "quantity"}
    BY <1>1 DEF Ready, Routed, Route, KindOf
<1> HIDE DEF j
<1>8. Offers(sku)' \subseteq {new}
    BY <1>3, <1>6 DEF Offers, StatusOf
<1>9. Linked(sku, new)' /\ Remembered(sku, new)'
    BY <1>4, <1>5 DEF Linked, Remembered
<1>10. \A l, m \in Offers(sku)' : l = m
    BY <1>8
<1>11. \A l \in Offers(sku)' : Known(sku, l)'
    BY <1>8, <1>9 DEF Known
<1>12. Sees(w, sku)
    BY <1>1, <1>4, <1>5, <1>6, <1>7, <1>8 DEF Sees, SeesLink, SeesOffers, QuantityOnly
<1> QED
    BY <1>10, <1>11, <1>12, Recorded

(* The worker that found or created a listing holds all there is on offer.        *)
LEMMA InHand ==
    ASSUME NEW w \in Workers, NEW sku \in Skus, Ready(w, sku), job[w].sku = sku,
           pc[w] \in {"storeRecent", "addLink", "linkRecent", "linkNew", "cleanupRelist",
                      "storeRelisted"}
    PROVE  Offers(sku) \subseteq {job[w].new}
BY DEF Ready, Offering, SeesOffers

LEMMA AddOffers ==
    ASSUME NEW w \in Workers, NEW sku \in Skus, Ready(w, sku), job[w].sku = sku,
           AddStoreRecent(w) \/ AddLink(w)
    PROVE  Offering(sku)'
<1>1. listing' = listing /\ pc[w] \in {"storeRecent", "addLink"}
    BY DEF AddStoreRecent, AddLink, Step, market
<1>2. KindOf(w) = "add" /\ pc[w] # "idle" /\ job[w].i \in 1..Len(job[w].req.batch)
    BY <1>1, AtItem DEF Ready, Routed, Route, KindOf, ItemLabels, ResultLabels, Labels
<1>3. Added(sku)
  <2>1. ItemOf(w).sku = sku
      BY <1>2, ConstantsAssumption DEF Ready, EachHasItsSku, AboutItem, KindOf, ItemOf
  <2> QED
      BY <1>2, <2>1, KindsThere DEF Ready
<1>4. PICK new : new = job[w].new
    OBVIOUS
<1>5. Offers(sku)' = Offers(sku) /\ Offers(sku) \subseteq {new}
    BY <1>1, <1>4, InHand DEF Offers, StatusOf
<1>6. link \in [Skus -> Link] /\ recent \in [Skus -> Listings \union {NoListing}]
    BY DEF Ready, IInv, StoreGood
<1>7. ASSUME AddStoreRecent(w)
      PROVE  Offering(sku)'
  <2>1. recent'[sku] = new /\ job'[w] = job[w] /\ pc'[w] = "addLink"
      BY <1>4, <1>6, <1>7, Stepped, Updated DEF AddStoreRecent, Ready
  <2>2. Linked(sku, new)' /\ Remembered(sku, new)'
      BY <1>4, <2>1 DEF Linked, Remembered
  <2>3. Sees(w, sku)
      BY <1>4, <1>5, <2>1 DEF Sees, SeesLink, SeesOffers, QuantityOnly
  <2> QED
      BY <1>5, <2>2, <2>3, Recorded DEF Known
<1>8. ASSUME AddLink(w)
      PROVE  Offering(sku)'
  <2>1. pc[w] = "addLink" /\ pc'[w] = "item" /\ recent' = recent
      BY <1>8, Done DEF AddLink, caches, Ready
  <2>2. Told(sku) => link'[sku] = new
      BY <1>3, <1>4, <1>6, <1>8, Dependably DEF AddLink, Told, Ready
  <2>3. \A l \in Offers(sku)' : l = new /\ recent'[sku] = l
      BY <1>3, <1>5, <2>1, KnownTo
  <2>4. \A l \in Offers(sku)' : Known(sku, l)'
      BY <2>2, <2>3 DEF Known, Linked, Remembered, Told, Added, Stocking
  <2>5. Sees(w, sku)
      BY <2>1 DEF Sees, SeesLink, SeesOffers, QuantityOnly
  <2> QED
      BY <2>3, <2>4, <2>5, Recorded
<1> QED
    BY <1>7, <1>8

LEMMA LinkOffers ==
    ASSUME NEW w \in Workers, NEW sku \in Skus, Ready(w, sku), job[w].sku = sku,
           LinkZero(w) \/ LinkRecent(w) \/ LinkNew(w)
    PROVE  Offering(sku)'
<1>1. pc[w] \in {"decide", "linkRecent", "linkNew"} /\ listing' = listing /\ recent' = recent
    BY DEF LinkZero, LinkRecent, LinkNew, UpdateLink, caches
<1>2. KindOf(w) = "quantity"
    BY <1>1 DEF Ready, Routed, Route, KindOf, QuantityOnly
<1>3. Stocking
    BY <1>1, <1>2, KindsThere DEF Ready
<1> DEFINE target == IF pc[w] = "decide" THEN ZeroListing ELSE job[w].new
           p == IF pc[w] = "linkNew" THEN "cleanupRelist" ELSE "cleanup"
           j == [job[w] EXCEPT !.new = target]
<1>4. /\ Update(w, j, p)
      /\ link' = IF job[w].cur = target THEN link ELSE [link EXCEPT ![sku] = target]
    BY <1>3, Dependably DEF LinkZero, LinkRecent, LinkNew, UpdateLink, Ready
<1>5. job'[w] = j /\ pc'[w] = p
    BY <1>4, Updated DEF Ready
<1>6. j.req = job[w].req /\ j.sku = sku /\ j.cur = job[w].cur /\ j.new = target
    BY JobType DEF Job, Ready
<1>7. job[w].cur = link[sku]
    BY <1>1 DEF Ready, Offering, SeesLink, QuantityOnly
<1>8. link'[sku] = target
    BY <1>4, <1>7 DEF Ready, IInv, StoreGood
<1>9. Offers(sku)' = Offers(sku) /\ \A l, m \in Offers(sku)' : l = m
    BY <1>1 DEF Offers, StatusOf, Ready, Offering
<1> HIDE DEF j
<1>10. CASE pc[w] = "decide"
  <2>1. Dead(link[sku])
      BY <1>7, <1>10 DEF Ready, Offering, SeesLink, LinkZero, LinkRecent, LinkNew, Reusable
  <2>2. \A l \in Offers(sku) : link[sku] = l
      BY <1>3, <1>10, KnownTo DEF Told
  <2>3. Offers(sku)' = {}
      BY <1>9, <2>1, <2>2 DEF Offers, Dead
  <2>4. Sees(w, sku)
      BY <1>5, <1>10 DEF Sees, SeesLink, SeesOffers, QuantityOnly
  <2> QED
      BY <2>3, <2>4, Recorded
<1>11. CASE pc[w] # "decide"
  <2>1. Offers(sku) \subseteq {target}
      BY <1>1, <1>11, InHand
  <2>2. ASSUME NEW l \in Offers(sku)
        PROVE  Known(sku, l)'
    <3>1. Added(sku) => recent'[sku] = l \/ (pc'[w] = "cleanupRelist" /\ job'[w].new = l)
        BY <1>1, <1>5, <1>6, <1>11, <2>1, KnownTo
    <3> QED
        BY <1>8, <2>1, <3>1 DEF Known, Linked, Remembered, Told, Added, Stocking
  <2>3. Sees(w, sku)
      BY <1>5, <1>6, <1>9, <2>1 DEF Sees, SeesLink, SeesOffers, QuantityOnly
  <2> QED
      BY <1>9, <2>2, <2>3, Recorded
<1> QED
    BY <1>10, <1>11

LEMMA CleanupOffers ==
    ASSUME NEW w \in Workers, NEW sku \in Skus, Ready(w, sku), job[w].sku = sku,
           NothingToClean(w) \/ CleanUp(w) \/ CleanUpFails(w)
    PROVE  Offering(sku)'
<1>1. AfterCleanup(w) /\ link' = link /\ recent' = recent /\ pc[w] \in {"cleanup", "cleanupRelist"}
    BY DEF NothingToClean, CleanUp, CleanUpFails, AfterCleanup, market, caches
<1>2. OldOffers(sku)
  <2>1. Moves(w)
      BY WorkerMoves DEF WorkerStep, ReconcileStep, Ready
  <2> QED
      BY <1>1, <2>1, NoneNew DEF Posts, Ready
<1>3. Offers(sku)' \subseteq Offers(sku) /\ \A l, m \in Offers(sku)' : l = m
    BY <1>2, OldOnly DEF Ready
<1>4. CASE pc[w] = "cleanup" /\ Succeed(w, job[w].new)
    BY <1>1, <1>2, <1>4, Done, Blinded DEF HandLabels, BlindLabels, Ready
<1>5. CASE pc[w] = "cleanupRelist" /\ Update(w, job[w], "storeRelisted")
  <2>1. job'[w] = job[w] /\ pc'[w] = "storeRelisted"
      BY <1>5, Updated DEF Ready
  <2>2. ASSUME NEW l \in Offers(sku)
        PROVE  Known(sku, l)'
    <3>1. /\ Told(sku) => link'[sku] = l
          /\ Added(sku) => recent'[sku] = l \/ job'[w].new = l
        BY <1>1, <1>5, <2>1, KnownTo
    <3> QED
        BY <2>1, <3>1 DEF Known, Linked, Remembered, Told, Added, Stocking
  <2>3. Offers(sku) \subseteq {job[w].new}
      BY <1>5, InHand
  <2>4. Sees(w, sku)
      BY <1>3, <2>1, <2>3 DEF Sees, SeesLink, SeesOffers, QuantityOnly
  <2> QED
      BY <1>3, <2>2, <2>4, Recorded
<1> QED
    BY <1>1, <1>4, <1>5 DEF AfterCleanup

LEMMA StoreRelistedOffers ==
    ASSUME NEW w \in Workers, NEW sku \in Skus, Ready(w, sku), job[w].sku = sku, StoreRelisted(w)
    PROVE  Offering(sku)'
<1>1. /\ link' = link /\ listing' = listing /\ pc[w] = "storeRelisted" /\ pc'[w] = "item"
      /\ recent' = [recent EXCEPT ![sku] = job[w].new]
    BY Done DEF StoreRelisted, market, Ready
<1>2. Offers(sku) \subseteq {job[w].new} /\ Offers(sku)' = Offers(sku)
    BY <1>1, InHand DEF Offers, StatusOf
<1>3. recent'[sku] = job[w].new
    BY <1>1 DEF Ready, IInv, StoreGood
<1>4. ASSUME NEW l \in Offers(sku)
      PROVE  Known(sku, l)'
  <2>1. Told(sku) => link'[sku] = l
      BY <1>1, KnownTo
  <2> QED
      BY <1>2, <1>3, <2>1 DEF Known, Linked, Remembered, Told, Added, Stocking
<1>5. Sees(w, sku)
    BY <1>1 DEF Sees, SeesLink, SeesOffers, QuantityOnly
<1> QED
    BY <1>2, <1>4, <1>5, Recorded

-----------------------------------------------------------------------------
(* One live listing, and none forgotten *)

(* What a worker writes, it writes about the product it is at. *)
LEMMA WritesItsOwn ==
    ASSUME IInv, NEW w \in Workers, NEW sku \in Skus, job[w].sku # sku,
           WorkerStep(w) \/ \E req \in Requests : Deliver(w, req)
    PROVE  link'[sku] = link[sku] /\ recent'[sku] = recent[sku]
<1>1. link \in [Skus -> Link] /\ recent \in [Skus -> Listings \union {NoListing}]
    BY DEF IInv, StoreGood
<1>2. CASE AddStoreRecent(w) \/ StoreRelisted(w) \/ AddLink(w)
    BY <1>1, <1>2 DEF AddStoreRecent, StoreRelisted, AddLink, market, caches
<1>3. CASE LinkZero(w) \/ LinkRecent(w) \/ LinkNew(w)
    BY <1>1, <1>3 DEF LinkZero, LinkRecent, LinkNew, UpdateLink, caches
<1>4. CASE \/ RecentSuccessLookup(w) \/ IdempotencyLookup(w) \/ Conclude(w)
           \/ StoreIdempotent(w) \/ StoreRecentSuccess(w) \/ Reply(w)
           \/ \E req \in Requests : Deliver(w, req)
    BY <1>4 DEF RecentSuccessLookup, IdempotencyLookup, Conclude, StoreIdempotent, StoreRecentSuccess,
                Reply, Deliver, market, caches
<1>5. CASE \/ NoIdentifier(w) \/ UseWebhookSku(w) \/ LookupListingSku(w) \/ FetchProduct(w)
           \/ LookupRecentListing(w) \/ FetchRecentListing(w)
           \/ CreateListing(w) \/ CreateLost(w) \/ CreateFails(w) \/ AddRejected(w)
    BY <1>5 DEF NoIdentifier, UseWebhookSku, LookupListingSku, FetchProduct, LookupRecentListing,
                FetchRecentListing, CreateListing, CreateLost, CreateFails, AddRejected, market, caches
<1>6. CASE \/ ChangeAcknowledged(w) \/ ChangeBegin(w) \/ ChangeFetch(w)
           \/ ChangeSkipped(w) \/ ChangeEdit(w) \/ DeleteListing(w) \/ UploadDeletes(w)
    BY <1>6 DEF ChangeAcknowledged, ChangeBegin, ChangeFetch, ChangeSkipped, ChangeEdit,
                DeleteListing, UploadDeletes, market, caches
<1>7. CASE \/ LoadCurrent(w) \/ LoadCleanup(w) \/ Acknowledge(w) \/ EditStatus(w) \/ WantsListing(w)
           \/ NothingToClean(w) \/ CleanUp(w) \/ CleanUpFails(w)
    BY <1>7 DEF LoadCurrent, LoadCleanup, Acknowledge, EditStatus, WantsListing,
                NothingToClean, CleanUp, CleanUpFails, market, caches
<1> QED
    BY <1>2, <1>3, <1>4, <1>5, <1>6, <1>7 DEF WorkerStep, DirectApiStep, ReconcileStep

(* A worker at the product of its item, or beginning one of it. *)
LEMMA ItsOwnOffers ==
    ASSUME NEW w \in Workers, NEW sku \in Skus, Ready(w, sku), WorkerStep(w),
           job[w].sku = sku \/ job'[w].sku = sku
    PROVE  Offering(sku)'
<1>1. CASE job[w].sku = sku
  <2>1. pc[w] \in ItemLabels
      BY <1>1, ConstantsAssumption DEF Ready, EachHasItsSku, AboutItem
  <2>2. ~(RecentSuccessLookup(w) \/ IdempotencyLookup(w) \/ Conclude(w)
          \/ StoreIdempotent(w) \/ StoreRecentSuccess(w) \/ Reply(w))
      BY <2>1 DEF RecentSuccessLookup, IdempotencyLookup, Conclude, StoreIdempotent,
                  StoreRecentSuccess, Reply, Step, ItemLabels, ResultLabels
  <2>3. ~(NoIdentifier(w) \/ AddRejected(w) \/ DeleteListing(w) \/ UploadDeletes(w))
      BY <2>1 DEF NoIdentifier, AddRejected, DeleteListing, UploadDeletes, InBatch, ItemLabels
  <2>4. LookupRecentListing(w) => KindOf(w) # "add"
    <3>1. LookupRecentListing(w) => pc[w] = "lookupRecent"
        BY <2>1 DEF LookupRecentListing, InBatch, ItemLabels
    <3> QED
        BY <3>1 DEF Ready, Routed, Route, QuantityOnly, KindOf
  <2>5. ~CreateLost(w)
      BY Dependably DEF CreateLost, Ready
  <2>6. CASE DirectApiStep(w)
      BY <1>1, <2>3, <2>4, <2>5, <2>6, QuietOffers, FetchProductOffers, LookupRecentOffers,
         FetchRecentOffers, CreateOffers, AddOffers DEF DirectApiStep
  <2>7. CASE ReconcileStep(w)
      BY <1>1, <2>7, QuietOffers, LoadOffers, WantsOffers, LinkOffers, CleanupOffers,
         StoreRelistedOffers DEF ReconcileStep
  <2> QED
      BY <2>2, <2>6, <2>7 DEF WorkerStep
<1>2. CASE job[w].sku # sku /\ job'[w].sku = sku
  <2>1. Begins(w)
      BY <1>2, GoesOn, ConstantsAssumption DEF KeepsItem, LeavesItem, Ready
  <2>2. CASE UseWebhookSku(w) \/ LookupListingSku(w)
      BY <2>2, QuietOffers
  <2>3. CASE InBatch(w, {"add"}) /\ LookupRecentListing(w)
    <3>1. KindOf(w) = "add" /\ pc'[w] # "fetchProduct"
      <4>1. LET p == pc'[w] IN p \in {"create", "fetchRecent"}
          BY <2>3, Updated DEF LookupRecentListing, InBatch, Ready
      <4> QED
          BY <2>3, <4>1 DEF InBatch
    <3>2. ItemOf(w).sku = sku
        BY <1>2, <2>1, <3>1, Begun DEF Ready
    <3> QED
        BY <2>3, <3>1, <3>2, LookupRecentOffers
  <2> QED
      BY <2>1, <2>2, <2>3 DEF Begins
<1> QED
    BY <1>1, <1>2

(* What happens without a worker. *)
LEMMA WorldOffers ==
    ASSUME IInv, Orderly, [Next]_vars, NEW sku \in Skus, Offering(sku),
           World \/ Quiescent \/ UNCHANGED vars
    PROVE  Offering(sku)'
<1>1. UNCHANGED <<pc, job, link>>
    BY IdleSteps
<1>2. Added(sku) => recent' = recent
    BY Dependably DEF World, Quiescent, vars, caches, Purchase, Expire, Withdraw, ApplyRemoval,
                      ForgetResult, ForgetListing
<1>3. OldOffers(sku) /\ NoNewSale(sku)
    BY WorldTakes, SameOffers
<1> QED
    BY <1>1, <1>2, <1>3, Untouched

LEMMA OffersStep ==
    ASSUME IInv, Orderly, Routed, EachHasItsSku, ItemsApart, ItemsApart', AllOffering, [Next]_vars
    PROVE  AllOffering'
<1> SUFFICES ASSUME NEW sku \in Skus
             PROVE  Offering(sku)'
    BY DEF AllOffering
<1>1. Offering(sku)
    BY DEF AllOffering
<1>2. ASSUME NEW w \in Workers, WorkerStep(w) \/ \E req \in Requests : Deliver(w, req)
      PROVE  Offering(sku)'
  <2>1. \A v \in Workers \ {w} : job'[v] = job[v] /\ pc'[v] = pc[v]
      BY <1>2, WorkerAlone DEF Alone
  <2>2. CASE job[w].sku # sku /\ job'[w].sku # sku
    <3>1. link'[sku] = link[sku] /\ recent'[sku] = recent[sku]
        BY <1>2, <2>2, WritesItsOwn
    <3>2. OldOffers(sku) /\ NoNewSale(sku)
      <4>1. Moves(w)
          BY <1>2, WorkerMoves DEF Moves, Deliver, market
      <4> QED
          BY <2>2, <4>1, NoneSold
    <3>3. \A v \in Workers : job[v].sku = sku \/ job'[v].sku = sku => job'[v] = job[v] /\ pc'[v] = pc[v]
        BY <2>1, <2>2
    <3> QED
        BY <1>1, <3>1, <3>2, <3>3, Untouched
  <2>3. CASE job[w].sku = sku \/ job'[w].sku = sku
    <3>1. ASSUME NEW v \in Workers \ {w}
          PROVE  job[v].sku # sku
        BY <2>1, <2>3, ConstantsAssumption DEF ItemsApart
    <3>2. Ready(w, sku)
        BY <1>1, <2>1, <3>1 DEF Ready, OnlyAt
    <3>3. ~(\E req \in Requests : Deliver(w, req))
      <4>1. ASSUME NEW req \in Requests, Deliver(w, req)
            PROVE  FALSE
        <5>1. pc[w] = "idle" /\ job'[w].sku = NoSku
            BY <4>1, Updated DEF Deliver, FreshJob
        <5>2. job[w].sku = NoSku
            BY <5>1 DEF EachHasItsSku, AboutItem, ItemLabels
        <5> QED
            BY <2>3, <5>1, <5>2, ConstantsAssumption
      <4> QED
          BY <4>1
    <3> QED
        BY <1>2, <2>3, <3>2, <3>3, ItsOwnOffers
  <2> QED
      BY <2>2, <2>3
<1>3. CASE World \/ Quiescent \/ UNCHANGED vars
    BY <1>1, <1>3, WorldOffers
<1>4. ~Restart
    BY Dependably DEF Restart
<1> QED
    BY <1>2, <1>3, <1>4 DEF Next

LEMMA OffersAtStart ==
    ASSUME Orderly, Init
    PROVE  AllOffering
<1> SUFFICES ASSUME NEW sku \in Skus
             PROVE  Offering(sku)
    BY DEF AllOffering
<1>1. \A l \in Offers(sku) : ~Added(sku) /\ link[sku] = l
    BY DEF Offers, Init, StatusOf, Orderly, KnownAtStart
<1>2. \A l \in Offers(sku) : Known(sku, l)
    BY <1>1 DEF Known, Linked
<1>3. \A w \in Workers : job[w].sku # sku
    BY ConstantsAssumption DEF Init, IdleJob, FreshJob
<1> QED
    BY <1>1, <1>2, <1>3 DEF Offering

(* What a worker knows of the offers always holds, if calls answer truthfully, the  *)
(* cache keeps its entries, and items of one product are worked off in turn.       *)
LEMMA OffersInvariant == ApartSpec => [](IInv /\ Routed /\ EachHasItsSku /\ AllOffering)
<1> SUFFICES ASSUME Orderly
             PROVE  Init /\ [][Next /\ ItemsApart']_vars
                        => [](IInv /\ Routed /\ EachHasItsSku /\ AllOffering)
    BY DEF ApartSpec
<1>1. Init => ItemsApart /\ AllOffering
  <2>1. Init => ItemsApart
      BY DEF Init, ItemsApart, IdleJob, FreshJob
  <2> QED
      BY <2>1, OffersAtStart
<1>2. [Next /\ ItemsApart']_vars => [Next]_vars
    OBVIOUS
<1>3. ItemsApart /\ [Next /\ ItemsApart']_vars => ItemsApart'
    BY DEF ItemsApart, vars
<1>4. /\ IInv /\ Routed /\ EachHasItsSku /\ ItemsApart /\ ItemsApart' /\ AllOffering
      /\ [Next]_vars
      => AllOffering'
    BY OffersStep
<1> QED
    BY <1>1, <1>2, <1>3, <1>4, Inductive, RouteInvariant, SkuInvariant, PTL DEF Spec

(* One copy is offered once, whatever the number of threads in the pool, as long as *)
(* no two are at items of one product, calls do what they answer, the process is    *)
(* not restarted, no recent listing is forgotten where there are adds, no link      *)
(* fails to be written where there are stock levels, and at the start each listing   *)
(* on offer is linked and not of a product to be added                           *)
(* (_resolve_recent_created_listing_for_sku, _reconcile_resolved_bl_product).    *)
THEOREM OneListingAtATime == ApartSpec => []OneLiveListing
<1>1. EachHasItsSku /\ AllOffering => OneLiveListing
  <2> SUFFICES ASSUME EachHasItsSku, AllOffering, NEW l \in Listings, NEW m \in Listings,
                      StatusOf(l) \in Live, StatusOf(m) \in Live, listing[l].sku = listing[m].sku
               PROVE  l = m
      BY DEF OneLiveListing
  <2>1. PICK sku \in Skus : listing[l].sku = sku
      BY DEF EachHasItsSku, CreatedListing, Live
  <2>2. l \in Offers(sku) /\ m \in Offers(sku)
      BY <2>1 DEF Offers
  <2> QED
      BY <2>2 DEF AllOffering, Offering
<1> QED
    BY <1>1, OffersInvariant, PTL

(* On the same terms the service never loses sight of a listing on offer: it is   *)
(* linked, remembered, or about to be (_update_baselinker_listing_link,           *)
(* store_recent_discogs_listing).                                              *)
THEOREM NoneForgotten == ApartSpec => []NoOrphan
<1>1. EachHasItsSku /\ AllOffering => NoOrphan
  <2> SUFFICES ASSUME EachHasItsSku, AllOffering, NEW l \in Listings, StatusOf(l) \in Live
               PROVE  \/ link[listing[l].sku] = l \/ recent[listing[l].sku] = l
                      \/ \E w \in Workers : job[w].new = l
      BY DEF NoOrphan
  <2>1. PICK sku \in Skus : listing[l].sku = sku
      BY DEF EachHasItsSku, CreatedListing, Live
  <2>2. Known(sku, l)
      BY <2>1 DEF AllOffering, Offering, Offers
  <2> QED
      BY <2>1, <2>2 DEF Known, Told, Linked, Remembered
<1> QED
    BY <1>1, OffersInvariant, PTL

-----------------------------------------------------------------------------
(* Stock that is gone *)

(* The product a worker is at is one its webhook names. *)
LEMMA NamesItsOwn ==
    ASSUME IInv, Routed, EachHasItsSku, NEW w \in Workers, job[w].sku # NoSku
    PROVE  job[w].sku \in Skus /\ Names(w, job[w].sku)
<1>1. AboutItem(job[w], pc[w]) /\ pc[w] \in ItemLabels
    BY DEF EachHasItsSku, AboutItem
<1>2. job[w].i \in 1..Len(job[w].req.batch) /\ job[w].sku \in Skus
    BY <1>1, AtItem, JobType DEF Job
<1>3. KindOf(w) # "delete"
    BY <1>1 DEF Routed, Route, KindOf, LiveKinds, QuantityOnly, ItemLabels, ResultLabels, Labels
<1> QED
    BY <1>1, <1>2, <1>3 DEF AboutItem, Names

LEMMA WebhooksItems ==
    ASSUME IInv, Routed, EachHasItsSku, WebhooksApart
    PROVE  ItemsApart
BY NamesItsOwn DEF WebhooksApart, ItemsApart

LEMMA HiddenStays ==
    ASSUME NEW sku, NoNewSale(sku), Hidden(sku)
    PROVE  Hidden(sku)'
BY DEF NoNewSale, Hidden

LEMMA EmptiedStays ==
    ASSUME IInv, EachHasItsSku, [Next]_vars, NEW w \in Workers, KindOf(w) = "quantity",
           \A sku \in Skus : Names(w, sku) => NoNewSale(sku),
           NEW k \in 1..Len(job[w].req.batch), NEW item, item = job[w].req.batch[k], Emptied(item)
    PROVE  Emptied(item)'
<1>1. CASE item.stocked
    BY <1>1 DEF Emptied
<1>2. CASE ~item.stocked
  <2>1. Named(item) /\ Hidden(SkuOf(item))
      BY <1>2 DEF Emptied
  <2>2. PICK sku : sku = SkuOf(item)
      OBVIOUS
  <2>3. SkuOf(item)' = sku
      BY <2>1, <2>2, NamesStay DEF SkuOf, Named
  <2>4. sku \in Skus
    <3>1. item \in Item /\ (item.pid \in Listings => CreatedListing(item.pid))
        BY JobType, BatchType DEF JobGood, InFlight
    <3> QED
        BY <2>1, <2>2, <3>1 DEF Named, SkuOf, EachHasItsSku, Item
  <2>5. NoNewSale(sku)
      BY <2>1, <2>2, <2>4 DEF Names
  <2>6. Hidden(sku)'
      BY <2>1, <2>2, <2>5, HiddenStays
  <2> QED
      BY <2>1, <2>3, <2>6 DEF Emptied, Named
<1> QED
    BY <1>1, <1>2

(* A worker that does nothing, while nothing its webhook names is put on sale. *)
LEMMA WaitingEmpties ==
    ASSUME IInv, Routed, EachHasItsSku, Emptying, [Next]_vars, NEW w \in Workers,
           job'[w] = job[w], pc'[w] = pc[w], \A sku \in Skus : Names(w, sku) => NoNewSale(sku)
    PROVE  EmptiesStock(job[w], pc[w])'
<1> SUFFICES ASSUME KindOf(w) = "quantity"
             PROVE  EmptiesStock(job[w], pc[w])'
    BY DEF EmptiesStock, KindOf
<1> DEFINE batch == job[w].req.batch
<1>1. JobGood(job[w], pc[w]) /\ batch \in Seq(Item) /\ job[w].i \in Nat \ {0}
    BY JobType, BatchType
<1>2. EmptiesStock(job[w], pc[w])
    BY DEF Emptying
<1>3. ASSUME pc[w] = "cleanup", ~job[w].stocked
      PROVE  Hidden(job[w].sku)'
  <2>1. PICK sku : sku = job[w].sku
      OBVIOUS
  <2>2. sku \in Skus /\ Names(w, sku)
      BY <1>3, <2>1, AtItem, NamesItsOwn, ConstantsAssumption
         DEF ItemLabels, SkuLabels, ResultLabels, Labels
  <2>3. Hidden(sku)'
      BY <1>2, <1>3, <2>1, <2>2, HiddenStays DEF EmptiesStock, KindOf
  <2> QED
      BY <2>1, <2>3
<1>4. ASSUME NEW k \in 1..Len(batch), Emptied(batch[k])
      PROVE  Emptied(batch[k])'
  <2>1. PICK item : item = batch[k]
      OBVIOUS
  <2>2. Emptied(item)'
      BY <1>4, <2>1, EmptiedStays
  <2> QED
      BY <2>1, <2>2
<1>5. ASSUME pc[w] = "item", job[w].i > 1, job[w].bad = 0
      PROVE  Emptied(batch[job[w].i - 1])'
  <2>1. job[w].i - 1 \in 1..Len(batch)
      BY <1>1, <1>5 DEF JobGood, Counted
  <2> QED
      BY <1>2, <1>4, <1>5, <2>1 DEF EmptiesStock, KindOf
<1>6. ASSUME pc[w] = "reply", job[w].bad = 0, batch # <<>>
      PROVE  Emptied(batch[Len(batch)])'
  <2>1. Len(batch) \in 1..Len(batch)
      BY <1>1, <1>6
  <2> QED
      BY <1>2, <1>4, <1>6, <2>1 DEF EmptiesStock, KindOf
<1> QED
    BY <1>3, <1>5, <1>6 DEF EmptiesStock

LEMMA FailEmpties ==
    ASSUME IInv, NEW w \in Workers, Fail(w)
    PROVE  EmptiesStock(job[w], pc[w])'
<1>1. pc'[w] = "item" /\ job'[w].bad = job[w].bad + 1
    BY Finished DEF Fail
<1>2. job[w].bad \in Nat
    BY JobType DEF Job
<1> QED
    BY <1>1, <1>2 DEF EmptiesStock

LEMMA SucceedEmpties ==
    ASSUME IInv, EachHasItsSku, [Next]_vars, NEW w \in Workers, NEW sku, sku = job[w].sku,
           sku # NoSku, NEW lid, Succeed(w, lid), ~ItemOf(w).stocked => Hidden(sku)'
    PROVE  EmptiesStock(job[w], pc[w])'
<1>1. pc'[w] = "item" /\ job'[w].req = job[w].req /\ job'[w].i = job[w].i + 1
    BY Done
<1>2. PICK item : item = ItemOf(w)
    OBVIOUS
<1>3. pc[w] \in ItemLabels /\ Named(item) /\ SkuOf(item) = sku
    BY <1>2 DEF EachHasItsSku, AboutItem, ItemOf
<1>4. job[w].i \in 1..Len(job[w].req.batch)
    BY <1>3, AtItem
<1>5. SkuOf(item)' = sku
    BY <1>2, <1>3, <1>4, NamesStay DEF SkuOf, Named, ItemOf
<1>6. Emptied(item)'
    BY <1>2, <1>3, <1>5 DEF Emptied, Named
<1>7. job'[w].req.batch[job'[w].i - 1] = item
    BY <1>1, <1>2, <1>4 DEF ItemOf
<1> QED
    BY <1>1, <1>6, <1>7 DEF EmptiesStock

(* The steps before the listing of an item is known. *)
LEMMA ApproachEmpties ==
    ASSUME IInv, NEW w \in Workers, KindOf(w) = "quantity",
           \/ NoIdentifier(w) \/ UseWebhookSku(w) \/ LookupListingSku(w) \/ FetchProduct(w)
           \/ LoadCurrent(w) \/ LoadCleanup(w) \/ WantsListing(w)
           \/ LookupRecentListing(w) \/ FetchRecentListing(w)
           \/ CreateListing(w) \/ CreateFails(w)
    PROVE  EmptiesStock(job[w], pc[w])'
<1>1. Fail(w) \/ pc'[w] \in ItemLabels \ {"cleanup"}
  <2>1. \A j, p : Update(w, j, p) => pc'[w] = p
      BY Updated
  <2> USE DEF ItemLabels, ResultLabels, Labels
  <2>2. CASE NoIdentifier(w) \/ UseWebhookSku(w) \/ LookupListingSku(w) \/ FetchProduct(w)
      BY <2>1, <2>2, FetchesProduct DEF NoIdentifier, UseWebhookSku, LookupListingSku
  <2>3. CASE LoadCurrent(w) \/ LoadCleanup(w) \/ WantsListing(w)
      BY <2>1, <2>3, Loads, Stepped DEF LoadCleanup, WantsListing
  <2>4. CASE LookupRecentListing(w) \/ FetchRecentListing(w) \/ CreateListing(w) \/ CreateFails(w)
      BY <2>1, <2>4 DEF LookupRecentListing, FetchRecentListing, CreateListing, CreateFails
  <2> QED
      BY <2>2, <2>3, <2>4
<1> QED
    BY <1>1, FailEmpties DEF EmptiesStock, ItemLabels, ResultLabels

(* At the decision the offers of the product are the listing that was fetched. *)
LEMMA LinkedOnly ==
    ASSUME IInv, EachHasItsSku, ItemsApart, AllOffering, NEW w \in Workers, pc[w] = "decide",
           KindOf(w) = "quantity", NEW sku, sku = job[w].sku
    PROVE  sku \in Skus /\ job[w].cur = link[sku] /\ Offers(sku) \subseteq {link[sku]}
<1>1. sku \in Skus /\ Told(sku)
    BY AtDecide, KindsThere DEF Told
<1>2. job[w].cur = link[sku]
    BY <1>1 DEF AllOffering, Offering, SeesLink, QuantityOnly
<1>3. ASSUME NEW l \in Offers(sku), NEW v \in Workers, job[v].new = l, pc[v] \in HandLabels
      PROVE  FALSE
  <2>1. job[v].sku = sku
      BY <1>3, Holder DEF Offers, Owns
  <2>2. v = w
      BY <1>1, <2>1, ConstantsAssumption DEF ItemsApart
  <2> QED
      BY <1>3, <2>2 DEF HandLabels
<1>4. ASSUME NEW l \in Offers(sku)
      PROVE  link[sku] = l
    BY <1>1, <1>3 DEF AllOffering, Offering, Known, Linked, HandLabels
<1> QED
    BY <1>1, <1>2, <1>4

(* A stock level is not in the way of a sale, or the listing has been drafted. *)
LEMMA ReuseEmpties ==
    ASSUME IInv, Routed, EachHasItsSku, ItemsApart, AllOffering, [Next]_vars, NEW w \in Workers,
           KindOf(w) = "quantity", Acknowledge(w) \/ EditStatus(w)
    PROVE  EmptiesStock(job[w], pc[w])'
<1>1. CASE Fail(w)
    BY <1>1, FailEmpties
<1>2. CASE Succeed(w, job[w].cur) /\ ~Fail(w)
  <2>1. pc[w] = "decide"
      BY DEF Acknowledge, EditStatus, Reusable
  <2>2. job[w].stocked = ItemOf(w).stocked
      BY <2>1 DEF Routed, Route, QuantityOnly, KindOf, ItemOf
  <2>3. PICK sku : sku = job[w].sku
      OBVIOUS
  <2>4. sku \in Skus /\ Offers(sku) \subseteq {job[w].cur}
      BY <2>1, <2>3, LinkedOnly
  <2>5. SeesLink(job[w], pc[w])
      BY <2>3, <2>4 DEF AllOffering, Offering
  <2>6. ASSUME ~job[w].stocked
        PROVE  Hidden(sku)'
    <3>1. StatusFor(w) = "Draft"
        BY <2>6 DEF StatusFor
    <3>2. CASE Acknowledge(w)
      <4>1. job[w].curSnap.status = "Draft" /\ listing' = listing
          BY <3>1, <3>2 DEF Acknowledge, market
      <4>2. StatusOf(job[w].cur) # "For Sale"
          BY <2>1, <2>5, <4>1 DEF SeesLink
      <4> QED
          BY <2>4, <4>1, <4>2 DEF Hidden, StatusOf, Offers, Live
    <3>3. CASE EditStatus(w)
      <4>1. SetStatus(job[w].cur, "Draft")
          BY <1>2, <3>1, <3>3 DEF EditStatus, SetStatus
      <4>2. \A l \in Listings :
                /\ StatusOf(l)' = IF l = job[w].cur THEN "Draft" ELSE StatusOf(l)
                /\ listing'[l].sku = listing[l].sku
          BY <4>1, StatusSet DEF IInv
      <4> QED
          BY <2>4, <4>2 DEF Hidden, Offers, Live
    <3> QED
        BY <3>2, <3>3
  <2> QED
      BY <1>2, <2>2, <2>3, <2>4, <2>6, SucceedEmpties, ConstantsAssumption
<1> QED
    BY <1>1, <1>2 DEF Acknowledge, EditStatus

(* Nothing on offer, and the link reset. *)
LEMMA UnlinkEmpties ==
    ASSUME IInv, Routed, EachHasItsSku, ItemsApart, AllOffering, [Next]_vars, NEW w \in Workers,
           KindOf(w) = "quantity", LinkZero(w) \/ LinkRecent(w) \/ LinkNew(w)
    PROVE  EmptiesStock(job[w], pc[w])'
<1>1. CASE Fail(w)
    BY <1>1, FailEmpties
<1>2. CASE ~Fail(w)
  <2> DEFINE target == IF pc[w] = "decide" THEN ZeroListing ELSE job[w].new
             p == IF pc[w] = "linkNew" THEN "cleanupRelist" ELSE "cleanup"
             j == [job[w] EXCEPT !.new = target]
  <2>1. Update(w, j, p) /\ listing' = listing /\ pc[w] \in {"decide", "linkRecent", "linkNew"}
      BY <1>2 DEF LinkZero, LinkRecent, LinkNew, UpdateLink
  <2>2. job'[w] = j /\ pc'[w] = p
      BY <2>1, Updated
  <2>3. j.req = job[w].req /\ j.sku = job[w].sku /\ j.stocked = job[w].stocked
      BY JobType DEF Job
  <2> HIDE DEF j
  <2>4. PICK sku : sku = job[w].sku
      OBVIOUS
  <2>5. CASE pc[w] = "decide"
    <3>1. sku \in Skus /\ job[w].cur = link[sku] /\ Offers(sku) \subseteq {link[sku]}
        BY <2>4, <2>5, LinkedOnly
    <3>2. Dead(link[sku])
        BY <2>4, <2>5, <3>1 DEF LinkZero, LinkRecent, LinkNew, Reusable, AllOffering, Offering, SeesLink
    <3>3. Hidden(sku)'
        BY <2>1, <3>1, <3>2 DEF Hidden, StatusOf, Offers, Dead, Live
    <3> QED
        BY <2>2, <2>3, <2>4, <2>5, <3>3 DEF EmptiesStock
  <2>6. CASE pc[w] # "decide"
    <3>1. job[w].stocked
        BY <2>1, <2>6 DEF Routed, Route, Relisting, KindOf
    <3> QED
        BY <2>2, <2>3, <3>1 DEF EmptiesStock
  <2> QED
      BY <2>5, <2>6
<1> QED
    BY <1>1, <1>2

(* The old listing cleaned up, and the new one remembered. *)
LEMMA SettleEmpties ==
    ASSUME IInv, Routed, EachHasItsSku, Emptying, [Next]_vars, NEW w \in Workers,
           KindOf(w) = "quantity",
           NothingToClean(w) \/ CleanUp(w) \/ CleanUpFails(w) \/ StoreRelisted(w)
    PROVE  EmptiesStock(job[w], pc[w])'
<1>1. PICK sku : sku = job[w].sku
    OBVIOUS
<1>2. NoNewSale(sku)
  <2>1. CASE listing' = listing
      BY <2>1, SameOffers
  <2>2. CASE listing' # listing
    <3>1. Takes(job[w].old) /\ job[w].old \in Listings
        BY <2>2 DEF NothingToClean, CleanUp, CleanUpFails, StoreRelisted, CleansUp, Takes, SetStatus,
                    market
    <3> QED
        BY <3>1, SameOffers
  <2> QED
      BY <2>1, <2>2
<1>3. pc[w] \in {"cleanup", "cleanupRelist", "storeRelisted"}
    BY DEF NothingToClean, CleanUp, CleanUpFails, AfterCleanup, StoreRelisted
<1>4. /\ job[w].stocked = ItemOf(w).stocked
      /\ pc[w] # "cleanup" => job[w].stocked
    BY <1>3 DEF Routed, Route, QuantityOnly, Relisting, KindOf, ItemOf
<1>5. ~ItemOf(w).stocked => Hidden(sku)'
    BY <1>1, <1>2, <1>3, <1>4, HiddenStays DEF Emptying, EmptiesStock, KindOf
<1>6. sku # NoSku
    BY <1>1, <1>3, AtItem, ConstantsAssumption DEF ItemLabels, SkuLabels, ResultLabels, Labels
<1>7. CASE Succeed(w, job[w].new)
    BY <1>1, <1>5, <1>6, <1>7, SucceedEmpties
<1>8. CASE Update(w, job[w], "storeRelisted")
    BY <1>8, Updated DEF EmptiesStock
<1> QED
    BY <1>7, <1>8 DEF NothingToClean, CleanUp, CleanUpFails, AfterCleanup, StoreRelisted

LEMMA RequestEmpties ==
    ASSUME IInv, Emptying, [Next]_vars, NEW w \in Workers, KindOf(w) = "quantity",
           \/ RecentSuccessLookup(w) \/ IdempotencyLookup(w) \/ Conclude(w)
           \/ StoreIdempotent(w) \/ StoreRecentSuccess(w) \/ Reply(w)
    PROVE  EmptiesStock(job[w], pc[w])'
<1>1. CASE Reply(w)
    BY <1>1, Updated DEF Reply, EmptiesStock
<1>2. CASE Conclude(w)
  <2> DEFINE j == [job[w] EXCEPT !.res = ResultOf(w)]
  <2>1. job'[w] = j /\ pc'[w] = "reply"
      BY <1>2, Updated DEF Conclude, LiveKinds
  <2>2. j.req = job[w].req /\ j.bad = job[w].bad
      BY JobType DEF Job
  <2> HIDE DEF j
  <2>3. job[w].req.batch \in Seq(Item) /\ job[w].i \in Nat \ {0}
      BY BatchType
  <2>4. job[w].i = Len(job[w].req.batch) + 1
      BY <1>2, <2>3, JobType DEF Conclude, HasItem, JobGood, Counted
  <2>5. ASSUME job[w].bad = 0, job[w].req.batch # <<>>
        PROVE  Emptied(job[w].req.batch[Len(job[w].req.batch)])
      BY <1>2, <2>3, <2>4, <2>5 DEF Conclude, Emptying, EmptiesStock, KindOf
  <2>6. listing' = listing
      BY <1>2 DEF Conclude, market
  <2>7. PICK item : item = job[w].req.batch[Len(job[w].req.batch)]
      OBVIOUS
  <2>8. job[w].bad = 0 /\ job[w].req.batch # <<>> => Emptied(item)'
      BY <2>5, <2>6, <2>7 DEF Emptied, Named, Hidden, SkuOf, StatusOf
  <2> QED
      BY <2>1, <2>2, <2>7, <2>8 DEF EmptiesStock
<1>3. ~(\/ RecentSuccessLookup(w) \/ IdempotencyLookup(w)
        \/ StoreIdempotent(w) \/ StoreRecentSuccess(w))
    BY JobType DEF RecentSuccessLookup, IdempotencyLookup, StoreIdempotent, StoreRecentSuccess,
                   Step, JobGood, Stage, LiveKinds, KindOf
<1> QED
    BY <1>1, <1>2, <1>3

(* The steps of the worker itself. *)
LEMMA WorkEmpties ==
    ASSUME IInv, Orderly, Routed, EachHasItsSku, ItemsApart, AllOffering, Emptying, [Next]_vars,
           NEW w \in Workers, WorkerStep(w) \/ \E req \in Requests : Deliver(w, req)
    PROVE  EmptiesStock(job[w], pc[w])'
<1>1. ASSUME NEW req \in Requests, Deliver(w, req)
      PROVE  EmptiesStock(job[w], pc[w])'
  <2>1. job'[w].i = 1 /\ pc'[w] \in {"recentSuccess", "idempotency", "item"}
      BY <1>1, Updated DEF Deliver, FreshJob
  <2> QED
      BY <2>1 DEF EmptiesStock
<1>2. CASE WorkerStep(w) /\ KindOf(w) # "quantity"
  <2>1. job'[w].req = job[w].req \/ pc'[w] = "idle"
      BY <1>2, GoesOn, Begun DEF KeepsItem, LeavesItem
  <2> QED
      BY <1>2, <2>1 DEF EmptiesStock, KindOf
<1>3. CASE DirectApiStep(w) /\ KindOf(w) = "quantity"
  <2>1. ~(AddRejected(w) \/ DeleteListing(w) \/ UploadDeletes(w))
      BY <1>3 DEF AddRejected, InBatch, DeleteListing, UploadDeletes, KindOf
  <2>2. ~(\/ AddStoreRecent(w) \/ AddLink(w) \/ ChangeAcknowledged(w) \/ ChangeBegin(w)
          \/ ChangeFetch(w) \/ ChangeSkipped(w) \/ ChangeEdit(w))
      BY <1>3 DEF AddStoreRecent, AddLink, Step, ChangeAcknowledged,
                  ChangeBegin, ChangeFetch, ChangeSkipped, ChangeEdit, Routed, Route, KindOf
  <2>3. ~CreateLost(w)
      BY Dependably DEF CreateLost
  <2> QED
      BY <1>3, <2>1, <2>2, <2>3, ApproachEmpties DEF DirectApiStep
<1>4. CASE ReconcileStep(w) /\ KindOf(w) = "quantity"
    BY <1>4, ApproachEmpties, ReuseEmpties, UnlinkEmpties, SettleEmpties DEF ReconcileStep
<1> QED
    BY <1>1, <1>2, <1>3, <1>4, RequestEmpties DEF WorkerStep

LEMMA EmptiesStep ==
    ASSUME IInv, Orderly, Routed, EachHasItsSku, WebhooksApart, AllOffering, Emptying, [Next]_vars
    PROVE  Emptying'
<1> SUFFICES ASSUME NEW w \in Workers
             PROVE  EmptiesStock(job[w], pc[w])'
    BY DEF Emptying
<1>1. ItemsApart
    BY WebhooksItems
<1>2. CASE WorkerStep(w) \/ \E req \in Requests : Deliver(w, req)
    BY <1>1, <1>2, WorkEmpties
<1>3. ASSUME NEW v \in Workers, v # w, WorkerStep(v) \/ \E req \in Requests : Deliver(v, req)
      PROVE  EmptiesStock(job[w], pc[w])'
  <2>1. job'[w] = job[w] /\ pc'[w] = pc[w]
      BY <1>3, WorkerAlone DEF Alone
  <2>2. Moves(v)
      BY <1>3, WorkerMoves DEF Moves, Deliver, market
  <2>3. ASSUME NEW sku \in Skus, Names(w, sku)
        PROVE  NoNewSale(sku)
    <3>1. job[v].sku # sku
        BY <1>3, <2>3, NamesItsOwn, ConstantsAssumption DEF WebhooksApart
    <3> QED
        BY <2>2, <3>1, NoneSold
  <2> QED
      BY <2>1, <2>3, WaitingEmpties
<1>4. CASE World \/ Quiescent \/ UNCHANGED vars
  <2>1. job'[w] = job[w] /\ pc'[w] = pc[w]
      BY <1>4, IdleSteps
  <2>2. \A sku : NoNewSale(sku)
      BY <1>4, WorldTakes, SameOffers
  <2> QED
      BY <2>1, <2>2, WaitingEmpties
<1>5. ~Restart
    BY Dependably DEF Restart
<1> QED
    BY <1>2, <1>3, <1>4, <1>5 DEF Next

(* A quantity webhook that says the stock is gone and is answered without error    *)
(* leaves no listing of that SKU on sale: on the terms of OneListingAtATime, if no   *)
(* two webhooks that name one product are handled at a time                        *)
(* (_determine_quantity_update_listing_status, _reconcile_resolved_bl_product).  *)
THEOREM StockedOrHidden == ApartWebhooksSpec => []ZeroStockHidden
<1> SUFFICES ASSUME Orderly
             PROVE  Init /\ [][Next /\ WebhooksApart']_vars => []ZeroStockHidden
    BY DEF ApartWebhooksSpec
<1>1. Init => WebhooksApart /\ AllOffering /\ Emptying
  <2>1. Init => \A w \in Workers : job[w].req.batch = <<>> /\ pc[w] = "idle"
      BY DEF Init, IdleJob, FreshJob, NoRequest
  <2>2. Init => WebhooksApart /\ Emptying
      BY <2>1 DEF WebhooksApart, Names, Emptying, EmptiesStock
  <2> QED
      BY <2>2, OffersAtStart
<1>2. [Next /\ WebhooksApart']_vars => [Next]_vars
    OBVIOUS
<1>3. WebhooksApart /\ [Next /\ WebhooksApart']_vars => WebhooksApart'
  <2>1. ASSUME UNCHANGED vars, NEW w \in Workers, NEW sku \in Skus
        PROVE  Names(w, sku)' <=> Names(w, sku)
      BY <2>1 DEF Names, KindOf, Named, SkuOf, vars, market
  <2> QED
      BY <2>1 DEF WebhooksApart
<1>4. IInv /\ Routed /\ EachHasItsSku /\ WebhooksApart => ItemsApart
    BY WebhooksItems
<1>5. /\ IInv /\ Routed /\ EachHasItsSku /\ ItemsApart /\ ItemsApart' /\ AllOffering
      /\ [Next]_vars
      => AllOffering'
    BY OffersStep
<1>6. /\ IInv /\ Routed /\ EachHasItsSku /\ WebhooksApart /\ AllOffering /\ Emptying
      /\ [Next]_vars
      => Emptying'
    BY EmptiesStep
<1>7. Emptying => ZeroStockHidden
    BY DEF Emptying, EmptiesStock, ZeroStockHidden, KindOf, Emptied, Hidden
<1> QED
    BY <1>1, <1>2, <1>3, <1>4, <1>5, <1>6, <1>7, Inductive, RouteInvariant, SkuInvariant, PTL DEF Spec

=============================================================================
