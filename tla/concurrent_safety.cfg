SPECIFICATION Spec
CONSTANTS
    Workers = {w1, w2}
    Listings <- ListingIds3
    Skus = {A, B}
    A = A
    B = B
    K = K
    Keys = {K}
    Requests <- ConcurrentRequests
    NoListing = NoListing
    ZeroListing = ZeroListing
    NoSku = NoSku
    NoKey = NoKey
    NoResult = NoResult
    InspectedSkus = {A, B}
    PricedSkus = {A, B}
    DirectApiThreshold = 1
    StartListing <- OneListed
    StartLink <- OneLinked
    Faults = {"fetch", "create", "createLost", "link", "edit", "delete", "resolve", "forgetListing", "withdraw", "restart"}
    MaxFaults = 1
    MaxDeliveries = 3
INVARIANTS TypeOK SkuIntegrity RetiredIsGone EveryItemCounted AnswerMatchesRequest
PROPERTIES RemovesOnlyWhatItMay ListingsLiveTheirLife
SYMMETRY WorkerSymmetry
