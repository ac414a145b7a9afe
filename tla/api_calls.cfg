SPECIFICATION FairSpec
CONSTANTS
    t1 = t1
    t2 = t2
    Threads <- MCThreads
    MayCall <- MCMayCall
    StandardTries = 3
    RateTries = 2
    MaxStandardWait = 2
    MinRateWait = 1
    MaxRetryAfter = 1
    RetryAfters = {1, 2}
    FallbackCooldown = 1
    Threshold = 2
    Reset = 3
INVARIANTS TypeOK FailuresBounded OneStragglerEach
PROPERTIES EveryCallEnds PauseEnds
