CONSTANTS
    o1 = o1 o2 = o2 o3 = o3 m1 = m1 m2 = m2 m3 = m3 v1 = v1 v2 = v2 c1 = c1 c2 = c2 s1 = s1 s2 = s2
    Orders = {o1, o2}
    Shops = {s1}
    Corridors = {c1}
    Vehicles = {v1}
    Manifests = {m1, m2}
    ShopOf <- AllInOneShop
    Age <- AgeInOrder
    Weight <- EachAGram
    MaxWeight = 1
    Unweighed = {}
    Capacities = {1}
    Governed = {c1}
    Losable = {o1}
    Timezone = TRUE
    Editable = {c1}
    MaxGeometry = 2
    MaxLocation = 1
    MaxDay = 2
SYMMETRY ManifestSymmetry
SPECIFICATION Spec
INVARIANTS TypeOK VehicleDayOwned OutboxMirrorsTrips RouteIsCurrent NoStrandedTrip
