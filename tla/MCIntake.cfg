CONSTANTS
    o1 = o1 o2 = o2
    Orders = {o1, o2}
    Legacy = {o2}
    Manual <- SentOut
    Dispatched = {o1}
    BatchSize = 1
    MaxFailures = 1
    MaxCrashes = 1
CHECK_DEADLOCK FALSE
SPECIFICATION FairSpec
INVARIANTS TypeOK OrphanIsGone ProjectionTrue
PROPERTIES FollowsLifecycle EveryOrderTakenIn EveryOrphanFlagged
