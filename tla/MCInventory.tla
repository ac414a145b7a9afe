------------------------------ MODULE MCInventory ------------------------------
(* Small instances of the inventory webhooks for TLC: listing ids are numbers. *)
EXTENDS InventoryInvariant, TLC

CONSTANTS A, B, K

(* The threads of the pool are interchangeable. *)
WorkerSymmetry == Permutations(Workers)

ItemFor(pid, sku, stocked, priced) ==
    [pid |-> pid, sku |-> sku, stocked |-> stocked, priced |-> priced]
Webhook(kind, batch) ==
    [kind |-> kind, batch |-> batch, key |-> NoKey, force |-> FALSE, mapped |-> FALSE]
Keyed(req, key) == [req EXCEPT !.key = key]
Forced(req) == [req EXCEPT !.force = TRUE]

Add(sku) == Webhook("add", <<ItemFor(NoListing, sku, TRUE, TRUE)>>)
AddFree(sku) == Webhook("add", <<ItemFor(NoListing, sku, TRUE, FALSE)>>)
InStock(sku) == Webhook("quantity", <<ItemFor(NoListing, sku, TRUE, FALSE)>>)
OutOfStock(sku) == Webhook("quantity", <<ItemFor(NoListing, sku, FALSE, FALSE)>>)
InStockById(l) == Webhook("quantity", <<ItemFor(l, NoSku, TRUE, FALSE)>>)
OutOfStockById(l) == Webhook("quantity", <<ItemFor(l, NoSku, FALSE, FALSE)>>)
Price(l) == Webhook("price", <<ItemFor(l, NoSku, FALSE, TRUE)>>)
Delete(l) == Webhook("delete", <<ItemFor(l, NoSku, FALSE, FALSE)>>)

ListingIds2 == 1..2
ListingIds3 == 1..3
ListingIds4 == 1..4

(* Nothing listed yet. *)
EmptyListings == [l \in Listings |-> Unused]
EmptyLinks == [s \in Skus |-> NoListing]

(* Listing 1 is for sale and linked to A. *)
OneListed == [l \in Listings |-> IF l = 1 THEN [status |-> "For Sale", sku |-> A, priced |-> TRUE]
                                 ELSE Unused]
OneLinked == [s \in Skus |-> IF s = A THEN 1 ELSE NoListing]

(* Two workers, every path, both SKUs; a delete of two listings goes by upload. *)
BulkDelete == Webhook("delete", <<ItemFor(1, NoSku, FALSE, FALSE), ItemFor(2, NoSku, FALSE, FALSE)>>)
ConcurrentRequests ==
    {InStockById(1), OutOfStock(A), Price(1), Delete(1), Add(B), BulkDelete}

(* The same, and items that name nothing. *)
AnsweredRequests ==
    ConcurrentRequests \cup
        {Webhook("add", <<ItemFor(NoListing, NoSku, TRUE, TRUE)>>), InStock(NoSku)}

(* Adds, repeated, forced, without rows, without a SKU, and deletes of the     *)
(* listings they create, one by one and in bulk.                             *)
AddRequests ==
    {Add(A), Forced(Add(A)), AddFree(B), Webhook("add", <<>>), Delete(1),
     Webhook("add", <<ItemFor(NoListing, NoSku, TRUE, TRUE), ItemFor(NoListing, B, FALSE, TRUE)>>),
     Keyed(Webhook("delete", <<ItemFor(1, NoSku, FALSE, FALSE), ItemFor(2, NoSku, FALSE, FALSE)>>), K)}

(* Stock of A, inspected and listed before, and of B, which is not inspected and *)
(* is added meanwhile, by SKU and by listing id, with a price and a delete between. *)
StockRequests ==
    {InStock(A), OutOfStock(A), OutOfStockById(1), OutOfStockById(2),
     Webhook("quantity", <<ItemFor(NoListing, B, TRUE, FALSE), ItemFor(NoListing, NoSku, TRUE, FALSE),
                           ItemFor(1, A, TRUE, FALSE)>>),
     OutOfStock(B), Add(B), Price(1), Delete(1)}

(* The requests of the counterexample. *)
FreeRequests == {AddFree(A), InStock(A)}

(* The runs are instances the theorem about AnswerMatchesRequest is about.        *)
ASSUME ProvedInstances == KeysUnshared
=============================================================================
