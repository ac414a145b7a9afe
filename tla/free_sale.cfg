SPECIFICATION Spec
CONSTANTS
    Workers = {w1}
    Listings <- ListingIds3
    Skus = {A, B}
    A = A
    B = B
    K = K
    Keys = {K}
    Requests <- FreeRequests
    NoListing = NoListing
    ZeroListing = ZeroListing
    NoSku = NoSku
    NoKey = NoKey
    NoResult = NoResult
    InspectedSkus = {A, B}
    PricedSkus = {A, B}
    DirectApiThreshold = 1
    StartListing <- EmptyListings
    StartLink <- EmptyLinks
    Faults = {}
    MaxFaults = 0
    MaxDeliveries = 2
INVARIANTS NoFreeSale
