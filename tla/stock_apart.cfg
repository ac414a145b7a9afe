SPECIFICATION ApartWebhooksSpec
CONSTANTS
    Workers = {w1, w2}
    Listings <- ListingIds4
    Skus = {A, B}
    A = A
    B = B
    K = K
    Keys = {K}
    Requests <- StockRequests
    NoListing = NoListing
    ZeroListing = ZeroListing
    NoSku = NoSku
    NoKey = NoKey
    NoResult = NoResult
    InspectedSkus = {A}
    PricedSkus = {A, B}
    DirectApiThreshold = 1
    StartListing <- OneListed
    StartLink <- OneLinked
    Faults = {"create", "edit", "delete", "resolve", "expire", "withdraw"}
    MaxFaults = 2
    MaxDeliveries = 3
INVARIANTS OneLiveListing NoOrphan ZeroStockHidden
SYMMETRY WorkerSymmetry
