SPECIFICATION FairSpec
CONSTANTS
    Workers = {w1, w2}
    Listings <- ListingIds3
    Skus = {A, B}
    A = A
    B = B
    K = K
    Keys = {K}
    Requests <- AnsweredRequests
    NoListing = NoListing
    ZeroListing = ZeroListing
    NoSku = NoSku
    NoKey = NoKey
    NoResult = NoResult
    InspectedSkus = {A, B}
    PricedSkus = {A, B}
    DirectApiThreshold = 1
    StartListing <- OneListed
    StartLink <- OneLinked
    Faults = {"createLost", "link", "expire", "forgetResult", "restart"}
    MaxFaults = 1
    MaxDeliveries = 2
PROPERTIES EveryRequestAnswered
