SPECIFICATION Spec
CONSTANTS
    o1 = o1
    o2 = o2
    NoStatusAsked = NoStatusAsked
    Orders = {o1, o2}
    Statuses <- MCStatuses
    NewOrder = "New"
    NextStatus <- MCNextStatus
    NoStatus = NoStatusAsked
    MaxTime = 2
    PageSize = 1
    Lookback = 0
    Workers = {w1}
    Updates <- MCUpdates
    Tries = 2
    MaxUpdates = 2
INVARIANTS TypeOK NothingMissed CountedMeansDone EveryOrderAccounted
PROPERTIES StatusesAlwaysFollow
CHECK_DEADLOCK FALSE
