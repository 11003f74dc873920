CONSTANTS
    o1 = o1 o2 = o2
    Orders = {o1}
    Legacy = {}
    Manual = {}
    Dispatched = {}
    BatchSize = 1
    MaxFailures = 1
    MaxCrashes = 1
CHECK_DEADLOCK FALSE
SPECIFICATION FairSpec

PROPERTIES LostConfirmationFlagged
