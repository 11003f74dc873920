CONSTANTS
    o1 = o1 o2 = o2 o3 = o3 m1 = m1 m2 = m2 m3 = m3 v1 = v1 v2 = v2 c1 = c1 c2 = c2 s1 = s1 s2 = s2
    Orders = {o1, o2, o3}
    Shops = {s1}
    Corridors = {c1}
    Vehicles = {v1}
    Manifests = {m1, m2}
    ShopOf <- AllInOneShop
    Age <- AgeInOrder
    Weight <- Grams
    MaxWeight = 2
    Unweighed = {}
    Capacities = {3}
    Governed = {c1}
    Losable = {}
    Timezone = FALSE
    Editable = {v1}
    MaxGeometry = 1
    MaxLocation = 1
    MaxDay = 1
SYMMETRY ManifestSymmetry
SPECIFICATION Spec
INVARIANTS AllocationCoherent NeverOverloaded DeliveredOnce
PROPERTIES ClosedLoadFrozen FinishedOrdersStayFinished FollowsLifecycle
