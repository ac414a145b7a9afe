SPECIFICATION FairSpec
CONSTANTS
    Threads = {t1, t2}
    PerMinute = 2
    Minute = 4
    MaxCalls = 6
    Cooldowns = {0, 3}
    MaxCooldowns = 1
    MaxTime = 9
INVARIANTS NoIdleToken
PROPERTIES EveryCallPaid EveryoneGetsThrough
