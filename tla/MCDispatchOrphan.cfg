CONSTANTS
    o1 = o1 o2 = o2 o3 = o3 m1 = m1 m2 = m2 m3 = m3 v1 = v1 v2 = v2 c1 = c1 c2 = c2 s1 = s1 s2 = s2
    Orders = {o1, o2}
    Shops = {s1, s2}
    Corridors = {c1, c2}
    Vehicles = {v1}
    Manifests = {m1}
    ShopOf <- TwoShops
    Age <- AgeInOrder
    Weight <- EachAGram
    MaxWeight = 1
    Unweighed = {}
    Capacities = {2}
    Governed = {c1, c2}
    Losable = {o1}
    Timezone = FALSE
    Editable = {}
    MaxGeometry = 1
    MaxLocation = 1
    MaxDay = 1
SPECIFICATION FairSpec
PROPERTIES LostInvoicesFlagged
