SPECIFICATION Spec
CONSTANTS
    listing = listing
    retired = retired
    result = result
    off = off
    Keys = {listing, retired, result, off}
    Values = {v1, v2}
    None = None
    TTL <- TwoSpeeds
    MaxEntries = 2
    MaxTime = 4
INVARIANTS BoundedSize
PROPERTIES LeastRecentlyUsed IsForgetfulMap
