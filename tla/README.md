# Verification of the BaseLinker webhook service

This directory holds TLA+ models of the service in `src/`, TLC configurations that check
them on small instances, and proofs TLAPS checks for every instance. `PROJECT.json` maps
every definition to the lines it models.

    tlc -workers 2 -config stock_apart.cfg MCInventory.tla     # a run
    tlapm InventoryProofs.tla                                       # proofs

## 1. The system

A FastAPI process receives webhooks of BaseLinker, a shop manager, and carries them out
on Discogs, a marketplace for records. It has no database: everything it remembers is in
process-local caches. Each webhook is handled synchronously by a thread of the server's
pool (`run_in_threadpool`), so webhooks run concurrently and share the caches, the API
clients, their rate limiters and circuit breaker. No lock is held across two steps.

### Components, their state and operations

| component | state | operations | what makes it correct |
|---|---|---|---|
| inventory processing (`inventory_processor.py`, `inventory_handler.py`) | the locals of each request | add, price, quantity, delete, item by item; result; reply | one live listing per copy, linked or remembered; never a listing of another product; nothing out of stock stays on sale, nothing is free; every item answered for |
| relist flow (`discogs_relist.py`) | none | create, link, clean up | the listing created is linked before the old one goes |
| caches (`recent_result_cache.py`, `recent_discogs_listing.py`, `ttl_cache.py`) | one ordered dictionary of all namespaces | get, set, delete, clear | bounded, least recently used first out, never a stale answer |
| rate limiter (`rate_limiter.py`) | tokens, time of the last refill, cooldown | wait, impose_cooldown | no more calls than paid for, no token unused while a thread sleeps for it, every call gets through once the others are done |
| Discogs client (`discogs_client.py`), `retry.py` | breaker counter and time, user name | requests with retries within retries, uploads, export jobs | a bounded number of failures; the breaker opens and closes again; every call ends |
| BaseLinker client (`baselinker_client.py`) | HTTP client | read products, write links | a blocked token is not tried again, a query limit is waited out |
| connector (`bl_connector.py`, `discogs_inventory_export.py`) | page cache, export snapshot | product lists, order reads, order status | nothing served is older than promised, a scan of one snapshot is complete; no change of an order is lost between polls |
| order updates (`order_handler.py`) | none | status, tracking and messages of orders | every order reported done or failed; done means done; no order led where it may not go |
| exchange and connector routes (`routes/*.py`, `handlers/utils.py`) | none | dispatch, pagination, bodies in the notation of PHP | the order of fields does not matter; a body is read whole or not at all |
| authentication (`middleware/auth.py`) | none | body limit, secret | nothing is handled before it is authenticated |
| translation, delivery methods, order statuses, schemas, errors, logging | tables | field by field mapping | -- |
| categories (`state.py`) | dictionary of names | list, add | -- |

### Interactions

* A route reads the body and calls `handle_inventory_action` on a pool thread, which
  calls `process_inventory_event` and turns its result into BaseLinker's reply.
* `process_inventory_event` consults the result caches (add and delete only), extracts
  the items, and calls the two clients for each item in turn.
* It shares `recent_result_cache` with all other threads: results (ten minutes), listings
  recently created per SKU (up to a week), retired listings (half an hour), fetched
  listings (seconds).
* Each client has one rate limiter for all threads; a 429 makes them all wait.
* Discogs changes by itself: buyers order, listings expire, the seller withdraws them,
  an uploaded delete CSV is applied at some time; orders are paid, shipped, written to.
* BaseLinker polls `/exchange` and `/bl` for products, prices, quantities and orders, and
  pushes order updates. `/exchange` builds a connector per request, `/bl` keeps one; the
  export snapshot is shared by both. Each order update builds a Discogs client of its
  own: it has its own breaker, user name and HTTP client, and shares the rate limiter with
  the webhooks (`_shared_rate_limiter`).

### What is hard

Overlapping, repeated and reordered webhooks; remote state that changes between a fetch
and the call that relies on it; the failure of one call after others succeeded; lost
responses that are retried; caches that may forget anything at any time; restarts.
`PROJECT.json` lists these hazards at their lines with the properties that guard them.

## 2. The modules

| module | models | what it has |
|---|---|---|
| `Marketplaces` | the shared state: listings, links, caches, jobs | constants, job record, the world's own actions |
| `DirectApi` | `_process_via_direct_api`, product resolution, price and delete paths | one action per remote call |
| `Reconcile` | `_reconcile_resolved_bl_product`, `execute_discogs_relist_flow` | the quantity path |
| `InventoryEvents` | `process_inventory_event`, `handle_inventory_action` | delivery, result caches, result, reply, restart; `Spec`, `FairSpec` |
| `InventoryProperties` | -- | what all this must guarantee |
| `ListingLifecycle` | -- | abstract: the life of a listing, which the four modules above implement |
| `InventoryInvariant` | -- | the inductive invariant `IInv`, those of `OfferProofs`, and the terms they hold on |
| `TTLCache` | `utils/ttl_cache.py` | get, set, delete, clear, time |
| `ForgetfulMap` | -- | abstract: a map that forgets but never lies, which `TTLCache` implements |
| `RateLimiter` | `utils/rate_limiter.py` | `wait` and `impose_cooldown` by several threads |
| `ApiCalls` | `_request` and `_post` with their decorators, breaker and cooldown | one action per step of an attempt; every kind of error |
| `DiscogsOrders` | orders at Discogs (external) | placing and moving orders, the order of the list |
| `OrderReads` | `orders_list`, `orders_get` and the routes that call them | polls, page by page |
| `OrderUpdates` | `sync_order_update_to_discogs`, `orders_status` | one action per call; lost answers, refusals |
| `OrderSync` | -- | the composition of the three |
| `Catalog` | `products_list`, its caches, the export at Discogs, the pagination of `/exchange` | several readers, time, jobs that run, fail or hang |
| `RequestBody` | `_parse_php_array_notation` and its helpers | a body as a tree, one field at a time |
| `Intake` | `read_request_body`, `resolve_secret`, `require_secret`, the extraction and counting of items | the way of a request to its handler |
| `MCInventory`, `MCTTLCache`, `MCApiCalls`, `MCOrderSync`, `MCCatalog`, `MCIntake` | -- | instances for TLC |
| `InventoryProofs`, `OfferProofs` | -- | the proofs about the webhooks: what holds always, and what holds on terms |
| `TTLCacheProofs`, `RateLimiterProofs`, `ApiCallsProofs`, `OrderSyncProofs`, `CatalogProofs`, `IntakeProofs` | -- | the proofs about the other components |

### How the inventory model corresponds to the code

*State.* `listing` is Discogs, per listing id its status, SKU (`external_id`) and whether
its price is positive; `removals` are the ids of uploaded delete CSVs; `link` is the shop
link in BaseLinker, per product. The cache namespaces are `recent`
(`discogs-recent-listing-by-sku`), `retired` (`discogs-retired-listing`), `fetched`
(`discogs-listing`, of which only the SKU is ever read), `idem` and `recentOk`
(`inventory-success`). `job[w]` holds the locals of the request worker `w` serves and
`pc[w]` the step it is at.

*Actions.* An action is the code from one remote call or shared cache access to the
next, so every interleaving threads can produce at these points is explored. The
marketplaces' operations (`Created`, `Editable`, `Fetchable`) give the outcomes a client
call can have. A call that fails consumes a *fault* of its kind, unless it had to fail
(a fetch of a removed listing). A failed call may have been applied all the same. Retries
inside the client are not steps: a fault stands for retries exhausted, except that the
retry of a POST whose response was lost is `CreateLost`.

*Data.* A product is identified with its SKU. Prices and stock are kept as "positive or
not", all the code branches on; a price that differs from another positive one is edited
or not by choice. The stock a price webhook reads from BaseLinker is a choice. An item
names a listing that exists or did exist, of the SKU named beside it (`Plausible`):
BaseLinker knows listing ids only from links it was given.

*The caches* of the inventory model are functions whose entries disappear at any time
(`ForgetResult`, `ForgetListing`, each a fault so that it is bounded). That is what
`TTLCache` is shown to implement (`IsForgetfulMap`).

*Abstracted.* The many spellings of body fields, Base.com rows, formatting, logging. The
snapshot of a listing `_reconcile_resolved_bl_product` gets is used for status and SKU
only. The dead `reconcile_sold_order_listing` is left out.

### How the other models correspond to the code

*The TTL cache* keeps its `OrderedDict` as a set of keys and the order between them
(`before`). Every operation holds the lock throughout, so each is one action.

*The rate limiter* counts time in instants and tokens in fractions (`Minute` units to a
token), exact where the code uses floating point. A pass through the locked part of
`wait` is one action; sleeping happens outside of it.

*API calls.* A thread's call is at a `phase` of its attempt: about to check the breaker,
queued at the limiter, sent, or between counting a failure and opening the breaker, which
the code does without a lock. The tenacity decorators are `Layers`: `create_listing`,
`edit_listing` and `delete_listing` have both of theirs around both of `_request`.
`Raise` is the way of an exception through them: the innermost layer that retries it and
has an attempt left sleeps, and those inside it start anew. Waits are counted down, so no
clock needs a bound. The tokens of the limiter are `RateLimiter`'s; only its cooldown is
here.

*Orders.* `rank` is the order of Discogs' list by last activity; whatever happens to an
order puts it first, so pages shift under a poll. How BaseLinker polls is not in this
code: the model assumes it asks for the changes since the start of its last poll, for as
many pages as the last answer names. An update is taken by a worker, goes through its ids
one by one, and makes per order a read (where the status is checked), an edit and a
message, each of which may be refused, or applied without an answer and sent again.
The history `held` watches which orders had the status an update asks for while it was
at work. `orders_status` (kind `"direct"`) checks nothing, and its message names the
status a second time, as the code does. An order whose next statuses Discogs does not
name is not checked either.

*Catalogue.* The lock of the export cache is held for looking and for storing, not for
both, so readers that miss together each start an export. Content is the sequence of
products an export has kept. Each entry carries the age of what it holds; `answers`, the
cache of pages, has the pages it keeps as its domain, and an entry that expires leaves it.
The download of an
export takes up to `DownloadTime`, and time passes meanwhile; any other call takes less
than a unit. Each filter value has caches of its own, so one value is modelled; of a row
only its name matters, and whether the loop over the export keeps it (`Parsed`). The pages
`/bl` keeps are told apart by `action_token` as well; the model has one token.

*Intake.* A body under construction is a function from paths to nodes; `Grown` is one
turn of the parser's loop, lists filled up to the index included. A name occurs once in a
body (`NoNameTwice`), as a dictionary of JSON has it; a form that repeats a name gives it
the list of its values (`utils.py:310`), which the model leaves out. So are rows and
parameters sent as a string of JSON (`utils.py:434`). Fields sent inside "products" take the
place of a payload entry of their name (`Key`), which is then read where that entry was
(`Early`), or come last. `NoValue` is a value left blank, which a name may have and which
counts as nothing (`Given`). JSON is nested when it
arrives. The order of fields is the sender's,
that is any. A form field that does not fit raises, the body is read again and is empty,
so the request is refused unless the header has the secret; the same in JSON answers 500.

*Slips.* Some definitions are marked as such: each is the code with a plausible bug, a
dropped guard, a missing reset. No specification uses them. Put in place of the
definition after it, each breaks the property `PROJECT.json` names beside it, which
shows that the property depends on the code being as it is.

## 3. The runs

Properties of the inventory webhooks (`InventoryProperties`):

* `SkuIntegrity` -- links, remembered listings and what workers hold are always listings
  of their own SKU.
* `RetiredIsGone` -- only a listing Discogs no longer has is marked retired.
* `RemovesOnlyWhatItMay` -- a live listing is removed only by a delete webhook naming it,
  an uploaded delete or the seller, never by the cleanup of a quantity webhook that acts
  on a status fetched earlier.
* `EveryItemCounted` -- the counter in a reply is the number of items received.
* `AnswerMatchesRequest` -- a reply, cached or not, is that of the same action and items.
* `OneLiveListing` -- no SKU has two listings that are or can be put on sale.
* `NoOrphan` -- a live listing is linked, remembered, or in a worker's hands.
* `ZeroStockHidden` -- after a quantity webhook of 0 without errors nothing of that SKU is
  on sale.
* `NoFreeSale` -- what is on sale has a price.
* `EveryRequestAnswered` -- a request taken is answered.
* `ListingsLiveTheirLife` -- refinement of `ListingLifecycle`: a listing is created once,
  keeps its SKU and a positive price, and comes back neither from sold nor from removed.

| run | instance | shows |
|---|---|---|
| `concurrent_safety` | 2 workers (interchangeable: `SYMMETRY`, sound as the run has no liveness property), 3 listing ids, 2 SKUs, 3 deliveries of 6 requests, a delete of two by upload among them, 1 fault of 10 kinds, a restart among them, purchases | `TypeOK`, `SkuIntegrity`, `RetiredIsGone`, `EveryItemCounted`, `AnswerMatchesRequest`, `RemovesOnlyWhatItMay`, `ListingsLiveTheirLife` |
| `add_apart` | 2 workers, 4 listing ids, 3 deliveries of adds and deletes (repeated, forced, empty, with a key, in bulk), 2 faults of 5 kinds, items of one product one after the other (`ApartSpec`) | `OneLiveListing`, `NoOrphan`, `NoFreeSale` |
| `stock_apart` | 2 workers, 3 deliveries of quantity webhooks by SKU, by id and in a batch, an add, a price change and a delete, with purchases, expiry and withdrawal between any two steps, webhooks that name one product one after the other (`ApartWebhooksSpec`) | `OneLiveListing`, `NoOrphan`, `ZeroStockHidden` |
| `liveness` | 2 workers, 2 deliveries of the same requests and of items that name nothing, lost responses, failing links, expiry, forgotten results, a restart | `EveryRequestAnswered` under `FairSpec` |
| `ttl_cache` | 4 keys with times to live 0, 1 and 3, room for 2, 4 instants | `BoundedSize`, `LeastRecentlyUsed`, `IsForgetfulMap` |
| `rate_limit` | 2 threads, 2 tokens a minute of 4 instants, 6 calls, a cooldown of 0 or 3, 9 instants, under `FairSpec` | `EveryCallPaid`, `NoIdleToken`, `EveryoneGetsThrough` |
| `api_calls` | 2 threads that make all five kinds of calls between them, 3 and 2 tries, breaker of 2 failures and 3 seconds, Retry-After of 1 and 2 | `TypeOK`, `FailuresBounded`, `OneStragglerEach`, `EveryCallEnds`, `PauseEnds` under `FairSpec` |
| `order_sync` | 2 orders on pages of 1, 3 statuses, 1 worker, 2 of 8 updates of every kind, 2 tries, 2 instants | `TypeOK`, `NothingMissed`, `CountedMeansDone`, `EveryOrderAccounted`, `StatusesAlwaysFollow` |
| `catalog` | a reader of `/bl` and one of `/exchange`, inventories of 4 and 2 rows of which 1 is filtered out, pages of 2, both times to live, the nap, the deadline and the longest download of 1 | `TypeOK`, `Fresh`, `OneExtraExportEach`, `ScanComplete`, `EveryReadEnds` under `FairSpec` |
| `intake` | every set of up to 4 of 23 fields, as form or JSON, in every order | `TypeOK`, `ReadInAnyOrder`, `AllOrNothing`, `BothCountsAgree` |

Properties of the other components, beyond those named in their modules' headers:

* `TypeOK` of `ApiCalls` also says that no layer of retries makes more attempts than
  `stop_after_attempt` allows; that of `Catalog` that nothing cached or answered has another
  status than asked for, or no listing id. Of the breaker's counter nothing is said: in the
  code it grows beyond the threshold, in the model it stops there, which makes no
  difference to what it is compared with.
* `EveryoneGetsThrough` -- a thread may lose the race for a token any number of times; as
  the calls are finitely many and come in the first third of the clock, each gets its own in
  the end. That a thread gets through while others never stop calling is not claimed: the
  code has no queue.
* `FailuresBounded` -- with nested retries a listing could be created up to 225 times; as
  long as nobody succeeds, the breaker cuts every call off after its threshold of
  failures, whatever happens on the way from the counter to the breaker's time.
* `OneStragglerEach` -- the breaker is checked before the wait for the limiter, so a
  request can leave while it is open; each thread sends at most one such.
* `EveryCallEnds`, `PauseEnds` -- retries and cooldowns come to an end, and no traffic
  keeps the breaker open for good.
* `NothingMissed` -- an order whose last change BaseLinker has not been told of is on a
  page still to come, or falls into the next poll. Excused are the orders a failed read
  hid and those that changed more than the lookback after they were placed.
* `CountedMeansDone`, `EveryOrderAccounted` -- what an update's reply says about an order
  is so, although answers are lost and buyers act in between.
* `StatusesAlwaysFollow` -- a checked update sends a status only where Discogs named it as
  a next one of the status that was read.
* `Fresh` -- whatever is served is at most a poll interval and the times to live of the
  caches and the download it went through old, even if a slow export overwrites a younger snapshot.
* `OneExtraExportEach` -- the stampede on a missing snapshot ends with one export each.
* `ScanComplete` -- pages cut from one content make up that content.
* `EveryReadEnds` -- also if Discogs never runs the export.
* `ReadInAnyOrder`, `AllOrNothing`, `BothCountsAgree` -- see the comments in `Intake`.

*What the terms of `add_apart` and `stock_apart` leave out.* `OneLiveListing` and `NoOrphan`
do not hold of webhooks about one product that overlap, nor with every fault. `Orderly`
and the two specifications built on it (`InventoryInvariant`) say on which terms they do;
they are those of the two runs and, for any number of everything, of the theorems (§4).
Workers do overlap in these runs: on items (or webhooks) of different products, on deletes
of any, and with the world everywhere. In particular

* two deliveries of one add *at once* create two live listings, and no property says they do
  not: the caches are read before
  the work and written after it (`inventory_processor.py:1921`; the design document
  `2026-07-23-stateless-webhook-runtime.md:11` calls the caches a protection from
  immediate retries of BaseLinker);
* a *fetch* that fails is taken for a listing that is gone
  (`_load_linked_discogs_listing`), so the product is listed again;
* a lost response to a create is retried and leaves an orphan (`CreateLost`);
* a *forgotten* recent listing, by expiry, eviction or restart, makes a repeated add
  create another;
* a link that cannot be written in a relist does the same: the listing is remembered only
  after the link (`inventory_processor.py:1099`).

In `stock_apart` an out-of-stock webhook hides the linked listing; one known to the
recent cache only (its link was not written) stays on sale, as the code sets the link to
"0" without looking there. Rows of the fallback mapping go on sale at a price of 0.00
(`mapping.py:182`); `add_apart` leaves them out. An explicit idempotency key is
hashed alone (`inventory_processor.py:1741`), so another request with it gets the first
one's answer; `AnswerMatchesRequest` is about requests that do not share keys.

*What else the code does that no property asks of it.* A list of paid orders alone loses
orders as they leave that status and shifts those behind them onto pages already read;
`NothingMissed` is about the list of all. A failed read of orders is answered like an
empty list of one page, one of products like no pages. `products_data` cuts more than 100
ids off without a word. An update with a comment only is neither processed nor failed.
The route wrapper writes a correlation id into the page the cache holds
(`connector_handler.py:49`). The HTTP client of an order update is closed at exit only.
Gaps in the indices of a form make empty items, and of two fields one within the other
the later wins; multipart bodies are parsed as if they were URL-encoded.

### Runs that end in a violation

| run | what the code does | what it is said to do |
|---|---|---|
| `free_sale` | a quantity webhook reactivates any draft, one without a price too (`inventory_processor.py:989`) | "If price is 0 or missing, list as Draft to avoid free sales" (`:1437`) |
| `named_products` | products named in a request for prices or quantities are picked from one page of the catalogue, and the pick is paginated once more (`routes/exchange.py:80`): one that is on a later page is on no page of the answer | "its expected pagination is for that selected set" (`:77`) |

### Bounds, and why they are enough

Two workers suffice for every race of a pair; three deliveries let one webhook create
what the two others race for, and reach a listing made, deleted and made again, or made,
repeated and sold. Two SKUs, one not inspected, are what the guards tell apart and what
a mix-up needs. Three or four listing ids are more than these deliveries can use up on
the paths checked; when they are used up, creation fails (`CreateFails`). One fault at any
point of a concurrent run is the failure between any two steps; the two runs with products kept apart
have two.

`api_calls` has 3 standard tries where the code has 5: enough for a call to meet the
threshold of 2 in the middle of an inner layer and for the outer layer to begin anew; the
breaker's pause outlasts every wait, as in the code (`CallsAssumption`). Nothing bounds
the time: all its counters run down. `order_sync` has pages of one, so that every touch
moves an order to another page, and a lookback of 0, the boundary at which an order falls
out of the list; two instants tell a change before a poll's start from one after it. Two
updates meet in one order with every interleaving of the buyer. `catalog` has a last page
that is not full, one that is empty after filtering, and times to live as long as the poll interval, so that
entries expire between any two steps of a poll; ages
are bounded because entries expire and jobs time out. In `intake`, four fields are the
fewest in which two rows with gaps, a parameter and a secret meet.

`Faults`, `MaxFaults`, `MaxDeliveries`, `MaxCalls`, `MaxCooldowns`, `MaxUpdates` and
`MaxTime` are the only bounds and are all constants. None of them restricts the theorems:
they are proved for every value.

### Fairness

`FairSpec` of the webhooks is weak fairness of each worker: the thread pool runs every
thread it started, and every client call ends, by answer or timeout, after a bounded
number of attempts. Nothing is assumed of deliveries and of the world. In the rate
limiter, threads and the clock are weakly fair, and threads are faster than an instant
(`PromptNext`): a sleeping thread that wakes up tries within the instant. As the model's
clock stops at `MaxTime`, calls and 429s come in its first third, so that the clock's end
never stands for a starved thread.

In `ApiCalls` time is weakly fair and each thread strongly: a thread that waits for the
limiter is disabled again whenever another one's 429 renews the cooldown, and it is not
the last to wake up every single time. A request that is sent is answered or its timeout
ends it. In `Catalog` the readers are weakly fair and the clock strongly, as every
request in progress holds it up for an instant; Discogs owes nothing, an export may hang,
and BaseLinker need not come back for the next page. `OrderSync` and `Intake` have safety
properties only.

### Deadlock

Checked where the system never stops by itself or stops in a known way: `Quiescent` (all
deliveries made and answered) and `ClockStopped` (the clock's bound). `order_sync` and
`intake` stop by design, when the clock and the updates are used up and when the request
has reached its handler, and say so in their configurations.

## 4. The proofs

| module | theorem | statement |
|---|---|---|
| `InventoryProofs` | `Inductive` | `Spec => []IInv` |
| | `TypesCorrect` | `Spec => []TypeOK` |
| | `SkusNeverMix` | `Spec => []SkuIntegrity` |
| | `RetiredAreGone` | `Spec => []RetiredIsGone` |
| | `ItemsCounted` | `Spec => []EveryItemCounted` |
| | `RemovesNothingElse` | `Spec => RemovesOnlyWhatItMay` |
| | `Refinement` | `Spec => ListingsLiveTheirLife` |
| `OfferProofs` | `AnswersMatch` | `KeysUnshared` : `Spec => []AnswerMatchesRequest` |
| | `OneListingAtATime` | `ApartSpec => []OneLiveListing` |
| | `NoneForgotten` | `ApartSpec => []NoOrphan` |
| | `StockedOrHidden` | `ApartWebhooksSpec => []ZeroStockHidden` |
| `TTLCacheProofs` | `CacheBounded` | `Spec => []BoundedSize` |
| | `EvictsTheOldest` | `Spec => LeastRecentlyUsed` |
| | `NeverLies` | `Spec => IsForgetfulMap` |
| `RateLimiterProofs` | `LimitKept` | `Spec => []RateBound` |
| | `CallsPaid` | `Spec => EveryCallPaid` |
| | `TokensUsed` | `Spec => []NoIdleToken` |
| `ApiCallsProofs` | `Types` | `Spec => []TypeOK` |
| | `BreakerBoundsFailures` | `Spec => []FailuresBounded` |
| | `OneStraggler` | `Spec => []OneStragglerEach` |
| `OrderSyncProofs` | `Types` | `Spec => []TypeOK` |
| | `NoChangeMissed` | `Spec => []NothingMissed` |
| | `WhatIsCountedIsDone` | `Spec => []CountedMeansDone` |
| | `NoOrderForgotten` | `Spec => []EveryOrderAccounted` |
| | `StatusesAreFollowed` | `Spec => StatusesAlwaysFollow` |
| `CatalogProofs` | `NothingStaleServed` | `Spec => []Fresh` |
| | `ExportsEnd` | `Spec => []OneExtraExportEach` |
| | `Types` | `Spec => []TypeOK` |
| | `ScansAreWhole` | `Spec => []ScanComplete` |
| `IntakeProofs` | `Types` | `Spec => []TypeOK` |
| | `AnyOrderWillDo` | `Spec => []ReadInAnyOrder` |
| | `WholeOrEmpty` | `Spec => []AllOrNothing` |
| | `ItemsAreCounted` | `Spec => []BothCountsAgree` |

**The webhooks.** The theorems hold for any number of workers, listings, SKUs, requests of any batch length, keys,
faults and bounds, under the assumptions of `Marketplaces`: the special ids differ from
the ordinary ones (`ConstantsAssumption`), and the service starts on a marketplace in
which a linked listing is of the product it is linked to (`StartAssumption`).

*The argument.* None of the properties is inductive. That a link names a listing of its
own SKU depends on what the worker about to write it found several steps earlier, while
other workers and the world went on. `IInv` says, for each worker at each step, what its
locals are: which of them are set (`Stage`), that the listings they name were created for
the SKU the worker works on (`HoldsItsOwn`, and `InFlight` for those the webhook names),
that the items done are counted (`Counted`), and that a listing fetched as sold will not
be for sale again (`SoldForGood`). What makes it stable is that every step of anyone, the
world included, *matures* listings only: a created listing stays created for its SKU, and
a sold one is sold or gone. `InventoryProofs` states this relation and proves that the
invariant of a job that does not move survives any such step, and what the operators
(`Finish`, `Created`, `Fault`, ...) do. Then come one lemma per action of a worker, those
of the world and of restarts, the induction, and the consequences.

**The webhooks, on terms.** What §3 shows to fail in general holds on terms, and
`OfferProofs` proves that these suffice. Each names a class of systems, not an instance;
§3 tells what happens without them.

* `KeysUnshared`: requests with the same explicit key are for the same action and items.
  Nothing else is asked: any number of workers, all faults and restarts. Every kept result
  is under the digest of its own request (`AnswersKept`), and so is the one a worker holds
  (`Answered`).
* `ApartSpec` (`OneListingAtATime`, `NoneForgotten`): any number of workers, in any
  interleaving in which no two are at items of one product at the same time
  (`ItemsApart`). Nothing in the code sees to that; it is what BaseLinker's one queue per
  product, or a lock per SKU, would give. Further, `Dependable`: no failed fetch, no lost
  response to a create, no restart; no forgotten listing if any request adds, and no
  failed write of a link if any is a quantity webhook. And `KnownAtStart`: every live
  listing of the start is linked, and none is of a product that a request adds, as adds
  never look at the links. A shop may begin stocked, then, with adds for other products.
  Creates, edits, deletes, uploads and resolutions may fail, results be forgotten,
  buyers buy, listings expire and be withdrawn at any time.
* `ApartWebhooksSpec` (`StockedOrHidden`): the same, but apart are whole webhooks that name
  one product, from delivery to reply (`WebhooksApart`), since the promise is about the
  reply, and an item of a batch is dealt with long before it.

The proofs are about interleaving all the same: other workers and the world act between any
two steps of one. `Routed` says which step serves which kind of webhook. `Offering(sku)` is
kept for every product by itself, which is what makes any number of workers possible: the one
at the product moves it (`Ready`), everyone else leaves it as it is. It adds to
`OneLiveListing` who
knows of a live listing -- the link, for products added by webhook the recent cache, or a worker about to
tell them (`Known`) -- what a worker has seen of the link and the linked listing (`SeesLink`), and what it has
established about other offers when it decides to create one: there is none (`SeesOffers`).
World steps keep all of it, as they put nothing on offer. `Emptying` follows the stock of
an item on its way: once the worker has dealt with an item that says 0, and without an
error, nothing of its SKU is for sale until the next item of the batch is dealt with.
`NoFreeSale` is not among the theorems: what the code does is the violation of §3, and terms
on which it held would leave nothing that could go wrong.

**The cache.** For any keys, values, times to live and `max_entries >= 1` (`CacheAssumption`;
the keys are finitely many). Types, a strict total order of the entries and the bound are
not enough to be inductive: that eviction finds an entry to take needs a first entry in
the order, and after that one is gone another. `CacheInv` therefore says that every set
of entries has an oldest (`HasOldest`), which all operations keep; it also spares an
induction over finite sets.

**The rate limiter.** For any number of threads, any limit, minute and cooldowns
(`LimiterAssumption`). What was let through must be weighed against what the bucket held
at its last refill (`Paid`). A sleeping thread reckoned with a bucket that others have
refilled and emptied since; `SleepsToToken` says that it still never sleeps past the
instant the next token is due, because a refill does not move that instant and a token
taken by another only puts it off. That nobody takes a token during a cooldown is the guard
of `TakeToken` and no property of its own.

**API calls.** For any threads, tries, waits, threshold and pause such that no wait between
two attempts lasts as long as the pause (`CallsAssumption`, which the code's numbers
satisfy). A call that has met as many failures as the breaker counts must be shown not to
send again: a thread that failed last still has to open the breaker, and while it has not,
the others go on. The invariant therefore bounds, for every thread at every phase, its
failures by the shared counter, and says what a sleeping thread will find: a breaker that
is open for longer than it sleeps, or one that was closed by somebody's success, which
begins the count anew.

**Orders.** For any orders, statuses, workers, updates, page size and lookback
(`DiscogsAssumption`, `ReadsAssumption`, `UpdatesAssumption`; the orders are finitely many,
so that places in the list are numbers). That nothing is missed rests on the order of the
list: whoever is touched goes to the front, and everyone else keeps all those before it
(`TouchKeepsOrder`), so its place can only grow (`TouchPushesBack`) and it stays ahead of the
poll. That the list contains it at all is `ListedWhenDue`. Of the workers, the invariant
says what a request in flight is founded on (`EditFounded`, `MessageFounded`,
`StatusFounded`): an edit that leaves the status alone found it as it should be, a message
follows the edit. `LeavingIsOK` and `TurningIsOK` are the two ways a worker moves on.

**Catalogue.** For any readers, inventories, page size and times (`CatalogAssumption`). That
nothing served is too old is not inductive: an entry that may still live long must not be
old already. `Bounded` says that its age and what it has left are together within the
bound, and `JobAge` that a finished export waits for at most what is left of a nap.
`Extras` says why the stampede ends: whoever started an export too many is past the
place where exports are started, and does not come back there while a snapshot lives.

That a scan is complete is a matter of arithmetic and of loops. `Scanning` says of every
reader in the middle of one that what it has is a prefix of the content, as long as the
pages before the next one, as long as all pages were cut from one content; that the number of
pages the last answer names is the right one (`NotTheLastPage`, `OnePageMore`) makes the
last prefix the whole. The loops that pick products are recursive functions
(`Keeping`). What such a function returns is shown for every input by its least
counterexample: the set of lengths at which it fails would have a least element
(`WFMin` over `NatLessThanWellFounded`), which the step from one length to the next
excludes (`Least`, `KeptIsDefined`, `KeepingType`). This does the work of an induction whose theorem the
provers cannot instantiate.

**The intake.** For any segments, indices, values, secrets and requests whose fields have
names of their own and are finitely many (`BodyAssumption`, `IntakeAssumption`; a redacted secret is none of the
secrets). A field can be read at any time only if the nodes it meets were made by fields that
agree with it. `Shaped` says where every node of a body being read comes from: it is on
the way to a field that was sent, is such a field, or stands beside one in a list that was
filled up, and has the kind they gave it. `BeingRead` keeps what is
sent, still to come, and found inside others apart. Where no field leads to another,
nothing that was read is overwritten, so a body is whole when no field is left
(`WasRead`), and a field that does not fit leaves nothing of it.

That the items a handler extracts are as many as the counter says rests on `Counting`:
while a body is read, every node on the way to a field that was read is there (`Reached`);
after the parameters were merged, every node is there on account of a field
(`PlacedNodes`) and every field is at its place (`PlacedFields`). So the children of the
rows are exactly the numbers the fields name. A list may be longer than that only by the
entries it was filled up with, and `Countable` says that the numbers have no gap; that two numbers are
never the same index is `BodyAssumption` (the parser takes a segment for an index only if it
has digits alone, and the fields are the ones whose indices are written without leading zeros).
`NamesAssumption` keeps the names apart that the code looks for. The argument was needed to
find what the property may claim: a row that is itself a list (`products[0][0]`) is counted
but not extracted, and rows under the parameters are dropped where the top has rows of
its own. `Countable` leaves out both.

**Proved only.** `IInv` and `RateBound` (which `EveryCallPaid` implies step by step) are theorems
and are not run again; the inductive invariants of the other modules were never needed as
runs.

**Model-checked only.** Liveness (`EveryRequestAnswered`, `EveryoneGetsThrough`,
`EveryCallEnds`, `PauseEnds`, `EveryReadEnds`) is, like ENABLED, out of the prover's reach.
So is `NoFreeSale` for adds. All other safety properties of the passing runs are theorems,
`OneLiveListing`, `NoOrphan` and `ZeroStockHidden` on the terms of their runs. The modules have no RECURSIVE operators.

## 5. Not modelled

* Translation of orders and listings, schemas, delivery methods, status names, error and
  log formats, health checks, configuration: stateless mappings of fields, whose
  correctness is a matter of the two APIs' documents. What an update asks for, as the
  translation has it, is `HasEdit`, `HasMessage` and `Empty`.
* The Base.com and CSV processors: parsing and formatting, nothing is kept.
* `products_data`, one fetch per id without state; `order_add`, which echoes an id; the
  constant lists of statuses, couriers and payments; the size limit of a body, one
  comparison.
* The grace marks that order reads leave for sold listings
  (`order_mapping_grace.py`): every caller of today's cleanup ignores them. For the same
  reason the dead `reconcile_sold_order_listing` is left out.
* The categories of `state.py`, a dictionary that grows by one assignment.

## 6. What could come next

1. `NothingMissed` for lists of one status, with what the code would need for it.
2. The webhooks and the order updates as one system over the same orders: a purchase that
   sells the listing a webhook relists.
3. The search of releases and the row mapping of adds, as operators on small rows.
