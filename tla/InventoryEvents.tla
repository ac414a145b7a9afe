---------------------------- MODULE InventoryEvents ----------------------------
(***************************************************************************)
(* The life of a webhook request in process_inventory_event: delivery to a   *)
(* worker thread, the two result caches, the items one by one (DirectApi,     *)
(* Reconcile), the result and the reply.  Workers share every cache, and no   *)
(* lock spans two steps.  The specification of the whole is here.            *)
(***************************************************************************)
EXTENDS Reconcile

LiveKinds == {"quantity", "price"}   \* uses_live_external_state: never cached

(* Slip: an absent key is hashed like any other. *)
TokenOfKeyOnly(req) == <<req.key>>

(* The idempotency digest: of the explicit key alone, else of action and     *)
(* payload.  The recent-success digest is always of action and payload.      *)
PayloadToken(req) == <<req.kind, req.batch, req.mapped>>
Token(req) == IF req.key # NoKey THEN <<req.key>> ELSE PayloadToken(req)

Tokens == {Token(r) : r \in Requests}
PayloadTokens == {PayloadToken(r) : r \in Requests}

Init ==
    /\ listing = StartListing /\ removals = {} /\ link = StartLink
    /\ recent = [s \in Skus |-> NoListing]
    /\ retired = {} /\ fetched = {}
    /\ idem = [t \in Tokens |-> NoResult]
    /\ recentOk = [t \in PayloadTokens |-> NoResult]
    /\ pc = [w \in Workers |-> "idle"]
    /\ job = [w \in Workers |-> IdleJob]
    /\ faults = 0 /\ deliveries = 0

(* BaseLinker knows a listing id from a link it was given, so an item names   *)
(* a listing that exists or did, and one of the SKU named beside it.         *)
Plausible(req) ==
    \A k \in 1..Len(req.batch) : LET item == req.batch[k] IN
        item.pid # NoListing =>
            /\ StatusOf(item.pid) # "Unused"
            /\ item.sku \in {NoSku, listing[item.pid].sku}

(* A request arrives: new, repeated, or after another it should precede. *)
Deliver(w, req) ==
    /\ deliveries < MaxDeliveries
    /\ Plausible(req)
    /\ pc[w] = "idle"
    /\ Update(w, FreshJob(req, 1),
              IF req.kind \in LiveKinds \/ req.force THEN "item"
              ELSE IF req.key = NoKey THEN "recentSuccess" ELSE "idempotency")
    /\ deliveries' = deliveries + 1
    /\ UNCHANGED <<market, caches, faults>>

(* A cached result answers the request, except that one of an event without   *)
(* rows is computed again.                                                   *)
RecentSuccessLookup(w) ==
    LET hit == recentOk[PayloadToken(job[w].req)] IN
    /\ pc[w] = "recentSuccess"
    /\ IF hit = NoResult THEN Update(w, job[w], "idempotency")
       ELSE Update(w, [job[w] EXCEPT !.res = hit], "reply")
    /\ UNCHANGED <<market, caches, bounds>>

IdempotencyLookup(w) ==
    LET hit == idem[Token(job[w].req)] IN
    /\ pc[w] = "idempotency"
    /\ IF hit = NoResult \/ (hit # NoResult /\ hit.reason = "no_rows")
       THEN Update(w, job[w], "item")
       ELSE Update(w, [job[w] EXCEPT !.res = hit], "reply")
    /\ UNCHANGED <<market, caches, bounds>>

-----------------------------------------------------------------------------
(* The result *)

ResultOf(w) ==
    LET j == job[w]
        reason == IF j.req.kind \in LiveKinds \/ j.ok > 0 THEN ""
                  ELSE IF j.req.batch = <<>> THEN "no_rows" ELSE "discogs_error"
    IN  [status |-> IF reason = "" THEN "OK" ELSE "QUEUED", reason |-> reason,
         first |-> j.first, req |-> j.req]

(* Every item is done; live results are not cached. *)
Conclude(w) ==
    /\ pc[w] = "item" /\ ~HasItem(w)
    /\ Update(w, [job[w] EXCEPT !.res = ResultOf(w)],
              IF KindOf(w) \in LiveKinds THEN "reply" ELSE "storeResult")
    /\ UNCHANGED <<market, caches, bounds>>

(* Success or failure, the result is cached under the idempotency token. *)
StoreIdempotent(w) ==
    LET j == job[w] IN
    /\ Step(w, "storeResult",
            IF j.req.key = NoKey /\ ~j.req.force /\ j.res.status = "OK"
            THEN "storeRecentSuccess" ELSE "reply")
    /\ idem' = [idem EXCEPT ![Token(j.req)] = j.res]
    /\ UNCHANGED <<market, recent, retired, fetched, recentOk, job, bounds>>

StoreRecentSuccess(w) ==
    /\ Step(w, "storeRecentSuccess", "reply")
    /\ recentOk' = [recentOk EXCEPT ![PayloadToken(job[w].req)] = job[w].res]
    /\ UNCHANGED <<market, recent, retired, fetched, idem, job, bounds>>

Reply(w) ==
    /\ pc[w] = "reply"
    /\ Update(w, IdleJob, "idle")
    /\ UNCHANGED <<market, caches, bounds>>

(* The numbers in the reply of a quantity or price webhook, and the listing   *)
(* id in the reply of an add.                                               *)
Counter(w) == job[w].ok + job[w].bad
ProductId(w) == IF job[w].res.status = "OK" THEN job[w].res.first ELSE NoListing

-----------------------------------------------------------------------------
(* The process is restarted: its memory and its requests are lost. *)
Restart ==
    /\ Fault("restart")
    /\ recent' = [s \in Skus |-> NoListing]
    /\ retired' = {} /\ fetched' = {}
    /\ idem' = [t \in Tokens |-> NoResult]
    /\ recentOk' = [t \in PayloadTokens |-> NoResult]
    /\ pc' = [w \in Workers |-> "idle"]
    /\ job' = [w \in Workers |-> IdleJob]
    /\ UNCHANGED <<market, deliveries>>

WorkerStep(w) ==
    \/ RecentSuccessLookup(w) \/ IdempotencyLookup(w)
    \/ DirectApiStep(w) \/ ReconcileStep(w)
    \/ Conclude(w) \/ StoreIdempotent(w) \/ StoreRecentSuccess(w) \/ Reply(w)

(* Every delivery the bound allows was made and answered. *)
Quiescent ==
    /\ deliveries = MaxDeliveries /\ \A w \in Workers : pc[w] = "idle"
    /\ UNCHANGED vars

Next ==
    \/ \E w \in Workers : WorkerStep(w) \/ \E req \in Requests : Deliver(w, req)
    \/ World \/ Restart \/ Quiescent

Spec == Init /\ [][Next]_vars

(* The pool runs every thread it started; deliveries and the world are free. *)
FairSpec == Spec /\ \A w \in Workers : WF_vars(WorkerStep(w))
=============================================================================
