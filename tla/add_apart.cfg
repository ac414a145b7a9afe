SPECIFICATION ApartSpec
CONSTANTS
    Workers = {w1, w2}
    Listings <- ListingIds4
    Skus = {A, B}
    A = A
    B = B
    K = K
    Keys = {K}
    Requests <- AddRequests
    NoListing = NoListing
    ZeroListing = ZeroListing
    NoSku = NoSku
    NoKey = NoKey
    NoResult = NoResult
    InspectedSkus = {A, B}
    PricedSkus = {A, B}
    DirectApiThreshold = 1
    StartListing <- EmptyListings
    StartLink <- EmptyLinks
    Faults = {"create", "link", "delete", "upload", "forgetResult"}
    MaxFaults = 2
    MaxDeliveries = 3
INVARIANTS OneLiveListing NoOrphan NoFreeSale
SYMMETRY WorkerSymmetry
