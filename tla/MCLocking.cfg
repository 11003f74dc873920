CONSTANTS
    o1 = o1 o2 = o2 o3 = o3 o4 = o4 m0 = m0 m1 = m1 m2 = m2 m3 = m3 v1 = v1 c1 = c1 c2 = c2 s1 = s1 p1 = p1 p2 = p2 p3 = p3
    Orders = {o1, o2, o3, o4}
    Shops = {s1}
    Corridors = {c1, c2}
    Vehicles = {v1}
    Manifests = {m0, m1, m2, m3}
    ShopOf <- AllInOneShop
    Age <- AgeInOrder
    Weight <- EachAGram
    MaxWeight = 1
    Unweighed = {}
    Capacities = {1, 2}
    Governed = {c1, c2}
    Losable = {o1}
    Timezone = TRUE
    Editable = {c1, v1}
    MaxGeometry = 2
    MaxLocation = 1
    MaxDay = 1
    Callers = {p1, p2, p3}
    Requests <- EveryRequest
    FreshId <- Ids
    Id <- RowIds
    MaxAttempts = 2
CHECK_DEADLOCK FALSE
SPECIFICATION LoadedSpec
INVARIANTS CallsOK OnlyOrdersDeadlock
PROPERTIES CommitsAreTransactions EveryCallEnds
