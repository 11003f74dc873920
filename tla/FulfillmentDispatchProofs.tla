---------------------- MODULE FulfillmentDispatchProofs ----------------------
(***************************************************************************)
(* Theorems of FulfillmentDispatch for every number of orders, manifests,  *)
(* vehicles and corridors and every choice of weights and capacities.      *)
(***************************************************************************)
EXTENDS FulfillmentDispatch, FiniteSetTheorems, TLAPS

----------------------------------------------------------------------------
(* Loads.                                                                  *)

\* The grams of a set of orders form a finite set, so its load is a number.
LEMMA LoadIsNat ==
    ASSUME NEW S \in SUBSET Orders
    PROVE  /\ IsFiniteSet({g \in S \X (1..MaxWeight) : g[2] <= Weight[g[1]]})
           /\ Load(S) \in Nat
<1> DEFINE Grams == {g \in S \X (1..MaxWeight) : g[2] <= Weight[g[1]]}
<1>1. IsFiniteSet(S) BY FS_Subset, DomainsAreFinite
<1>2. IsFiniteSet(1..MaxWeight) BY FS_Interval, OrderAttributes
<1>3. IsFiniteSet(S \X (1..MaxWeight)) BY <1>1, <1>2, FS_Product
<1>4. Grams \in SUBSET (S \X (1..MaxWeight)) OBVIOUS
<1>5. IsFiniteSet(Grams) BY <1>3, <1>4, FS_Subset
<1>6. QED BY <1>5, FS_CardinalityType DEF Load

\* Taking an order off never makes a load heavier.
LEMMA LoadIsMonotone ==
    ASSUME NEW T \in SUBSET Orders, NEW S \in SUBSET T
    PROVE  Load(S) <= Load(T)
<1> DEFINE Grams(U) == {g \in U \X (1..MaxWeight) : g[2] <= Weight[g[1]]}
<1>1. IsFiniteSet(Grams(T)) BY LoadIsNat
<1>2. Grams(S) \in SUBSET Grams(T) OBVIOUS
<1>3. Cardinality(Grams(S)) <= Cardinality(Grams(T)) BY <1>1, <1>2, FS_Subset
<1>4. QED BY <1>3 DEF Load

----------------------------------------------------------------------------
(* Type correctness.                                                       *)

LEMMA InitTypeOK == Init => TypeOK
  BY Settings, OrderAttributes DEF Init, TypeOK, OrderState, Resolution, Unassigned,
     ManifestStatus, Header, NoHeader, DeliveryStatus, ReleaseReason, Reservation,
     NoReservation, Day, None

LEMMA PoolStepTypeOK == TypeOK /\ PoolStep => TypeOK'
<1> SUFFICES ASSUME TypeOK, PoolStep PROVE TypeOK'
  OBVIOUS
<1> USE DEF TypeOK, OrderState, poolVars, setupVars, manifestVars, stopVars
<1>1. ASSUME NEW o \in Orders, IntakeOrder(o) PROVE TypeOK'
  BY <1>1 DEF IntakeOrder, SetState, Upserted
<1>2. ASSUME NEW o \in Orders, CancelPooledOrder(o) PROVE TypeOK'
  BY <1>2 DEF CancelPooledOrder, SetState
<1>3. ASSUME NEW o \in Orders, OrphanOrder(o) PROVE TypeOK'
  BY <1>3 DEF OrphanOrder, SetState
<1>4. ASSUME NEW o \in Orders, NEW c \in Corridors, ResolveCorridor(o, c) PROVE TypeOK'
  <2>1. geometry[c] \in 0..MaxGeometry /\ location[ShopOf[o]] \in 0..MaxLocation
    BY OrderAttributes, Settings
  <2>2. [corridor |-> c, version |-> geometry[c], location |-> location[ShopOf[o]]]
           \in Resolution
    BY <2>1 DEF Resolution
  <2>3. resolution' \in [Orders -> Resolution]
    BY <1>4, <2>2 DEF ResolveCorridor, RecordResolution
  <2>4. orderState' \in [Orders -> OrderState]
    BY <1>4 DEF ResolveCorridor, RecordResolution
  <2>5. QED BY <1>4, <2>3, <2>4 DEF ResolveCorridor, RecordResolution
<1>5. ASSUME NEW m \in Manifests, NEW o \in Orders, CancelAllocatedOrder(m, o) PROVE TypeOK'
  <2>1. Load(Aboard(m) \ {o}) \in Nat BY LoadIsNat DEF Aboard
  <2>2. QED BY <1>5, <2>1 DEF CancelAllocatedOrder, Unload, ReleaseStop, ReleaseReason
<1>6. QED BY <1>1, <1>2, <1>3, <1>4, <1>5 DEF PoolStep

LEMMA SetupStepTypeOK == TypeOK /\ SetupStep => TypeOK'
<1> SUFFICES ASSUME TypeOK, SetupStep PROVE TypeOK'
  OBVIOUS
<1> USE DEF TypeOK, poolVars, manifestVars, stopVars
<1>1. ASSUME NEW c \in Corridors, UpdateGeometry(c) PROVE TypeOK'
  <2>1. geometry' \in [Corridors -> 1..MaxGeometry]
    BY <1>1, Settings DEF UpdateGeometry, SetGeometry
  <2>2. QED BY <1>1, <2>1 DEF UpdateGeometry, SetGeometry
<1>2. ASSUME NEW c \in Corridors, NEW b \in BOOLEAN, UpdateCorridor(c, b) PROVE TypeOK'
  <2>1. active' \subseteq Corridors \cup Vehicles BY <1>2 DEF UpdateCorridor
  <2>2. QED BY <1>2, <2>1 DEF UpdateCorridor
<1>3. ASSUME NEW s \in Shops, CaptureLocation(s) PROVE TypeOK'
  <2>1. location' \in [Shops -> 0..MaxLocation]
    BY <1>3, Settings DEF CaptureLocation
  <2>2. QED BY <1>3, <2>1 DEF CaptureLocation
<1>4. ASSUME NEW v \in Vehicles, NEW b \in BOOLEAN, NEW g \in Capacities,
             UpdateVehicle(v, b, g)
      PROVE  TypeOK'
  <2>1. active' \subseteq Corridors \cup Vehicles BY <1>4 DEF UpdateVehicle
  <2>2. capacity' \in [Vehicles -> Capacities] BY <1>4 DEF UpdateVehicle
  <2>3. QED BY <1>4, <2>1, <2>2 DEF UpdateVehicle
<1>5. QED BY <1>1, <1>2, <1>3, <1>4 DEF SetupStep

LEMMA ReserveType ==
    ASSUME TypeOK, NEW m \in Manifests, NEW v \in Vehicles \cup {None}, NEW d \in 0..MaxDay,
           Reserve(m, v, d)
    PROVE  reservation' \in [Manifests -> Reservation] /\ reserved' \subseteq Manifests
<1>1. [vehicle |-> v, day |-> d] \in Reservation BY DEF Reservation
<1>2. CASE reservation[m] # NoReservation BY <1>2 DEF Reserve, TypeOK
<1>3. CASE reservation[m] = NoReservation BY <1>1, <1>3 DEF Reserve, TypeOK
<1>4. QED BY <1>2, <1>3

LEMMA OpenManifestTypeOK ==
    ASSUME TypeOK, NEW m \in Manifests, NEW c \in Corridors, NEW v \in Vehicles,
           NEW planned \in 0..MaxDay, NEW S \in SUBSET Orders,
           OpenManifest(m, c, v, S, planned)
    PROVE  TypeOK'
<1>0. geometry[c] \in 0..MaxGeometry /\ capacity[v] \in Nat
  <2>1. geometry[c] \in 0..MaxGeometry BY Settings DEF TypeOK
  <2>2. capacity[v] \in Capacities BY DEF TypeOK
  <2>3. QED BY <2>1, <2>2, Settings
<1> USE DEF TypeOK, OpenManifest, Open, HeaderOf, setupVars
<1>1. total' \in [Manifests -> Nat] BY LoadIsNat
<1>2. reservation' \in [Manifests -> Reservation] /\ reserved' \subseteq Manifests
  <2>1. CASE planned = 0 BY <2>1
  <2>2. CASE planned # 0 BY <2>2, ReserveType
  <2>3. QED BY <2>1, <2>2
<1>3. manifest' \in [Manifests -> Header]
  <2>1. [corridor |-> c, version |-> geometry[c], vehicle |-> v,
         capacity |-> capacity[v], planned |-> planned] \in Header
    BY <1>0 DEF Header
  <2>2. QED BY <2>1
<1>4. status' \in [Manifests -> ManifestStatus] BY DEF ManifestStatus
<1>5. orderState' \in [Orders -> OrderState] BY DEF OrderState
<1>6. allocated' \subseteq Manifests \X Orders /\ delivery' \in [Manifests \X Orders -> DeliveryStatus]
  BY DEF DeliveryStatus
<1>7. outbox' \subseteq Event BY DEF Event
<1>8. QED BY <1>1, <1>2, <1>3, <1>4, <1>5, <1>6, <1>7

LEMMA ManifestStepTypeOK == TypeOK /\ ManifestStep => TypeOK'
<1> SUFFICES ASSUME TypeOK, NEW m \in Manifests,
       \/ \E c \in Corridors, v \in Vehicles, planned \in 0..MaxDay :
             \/ CreateAutomatically(m, c, v, planned)
             \/ \E S \in SUBSET Orders : CreateExplicitly(m, c, v, S, planned)
       \/ \E o \in Orders : RemoveOrder(m, o)
       \/ CloseManifest(m) \/ DepartManifest(m) \/ CancelManifest(m)
     PROVE TypeOK'
  BY DEF ManifestStep
<1> USE DEF poolVars, setupVars, manifestVars, stopVars
<1>1. ASSUME NEW c \in Corridors, NEW v \in Vehicles, NEW planned \in 0..MaxDay,
             CreateAutomatically(m, c, v, planned)
      PROVE  TypeOK'
  BY <1>1, OpenManifestTypeOK DEF CreateAutomatically
<1>2. ASSUME NEW c \in Corridors, NEW v \in Vehicles, NEW planned \in 0..MaxDay,
             NEW S \in SUBSET Orders, CreateExplicitly(m, c, v, S, planned)
      PROVE  TypeOK'
  BY <1>2, OpenManifestTypeOK DEF CreateExplicitly
<1>3. ASSUME NEW o \in Orders, RemoveOrder(m, o) PROVE TypeOK'
  <2>1. Load(Aboard(m) \ {o}) \in Nat BY LoadIsNat DEF Aboard
  <2>2. QED BY <1>3, <2>1 DEF RemoveOrder, Unload, ReleaseStop, ReleaseReason, OrderState, TypeOK
<1>4. CASE CloseManifest(m)
  BY <1>4 DEF CloseManifest, Close, ManifestStatus, Event, TypeOK
<1>5. CASE DepartManifest(m)
  <2> DEFINE d == ServiceDay(m)
  <2>1. today \in 0..MaxDay BY Settings DEF TypeOK, Day
  <2>2. manifest[m].vehicle \in Vehicles \cup {None} /\ d \in 0..MaxDay
    BY <2>1 DEF TypeOK, Header, ServiceDay
  <2>3. Reserve(m, manifest[m].vehicle, d) BY <1>5 DEF DepartManifest, Depart
  <2>4. reservation' \in [Manifests -> Reservation] /\ reserved' \subseteq Manifests
    <3> HIDE DEF d
    <3>1. QED BY <2>2, <2>3, ReserveType
  <2>5. status' \in [Manifests -> ManifestStatus]
    BY <1>5 DEF DepartManifest, Depart, ManifestStatus, TypeOK
  <2>6. departedOn' \in [Manifests -> 0..MaxDay] BY <1>5, <2>1 DEF DepartManifest, Depart, TypeOK
  <2>7. outbox' \subseteq Event BY <1>5 DEF DepartManifest, Depart, Event, TypeOK
  <2>8. QED BY <1>5, <2>4, <2>5, <2>6, <2>7 DEF DepartManifest, Depart, TypeOK
<1>6. CASE CancelManifest(m)
  <2>1. reserved' \subseteq Manifests
    BY <1>6 DEF CancelManifest, Cancel, TypeOK
  <2>2. QED
    BY <1>6, <2>1 DEF CancelManifest, Cancel, OrderState, ReleaseReason, ManifestStatus, Event, TypeOK
<1>7. QED BY <1>1, <1>2, <1>3, <1>4, <1>5, <1>6

LEMMA DeliveryStepTypeOK == TypeOK /\ DeliveryStep => TypeOK'
<1> SUFFICES ASSUME TypeOK, NEW m \in Manifests, NEW o \in Orders,
                    NEW outcome \in DeliveryOutcome, Record(m, o, outcome)
     PROVE TypeOK'
  BY DEF DeliveryStep, RecordDelivery
<1> USE DEF TypeOK, Record
<1>1. status' \in [Manifests -> ManifestStatus] BY DEF CompleteIfDone, ManifestStatus
<1>2. EventOf(m, o, outcome) \subseteq Event BY DEF EventOf, Event
<1>3. outbox' \subseteq Event BY <1>2 DEF CompleteIfDone, Event
<1>4. delivery' \in [Manifests \X Orders -> DeliveryStatus] BY DEF DeliveryStatus
<1>5. orderState' \in [Orders -> OrderState]
  <2>1. StateAfter(orderState[o], outcome) \in OrderState BY DEF StateAfter, OrderState
  <2>2. QED BY <2>1
<1>6. allocated' \subseteq Manifests \X Orders /\ released' \in [Manifests \X Orders -> ReleaseReason]
  BY DEF ReleaseStop, ReasonFor, ReleaseReason
<1>7. QED BY <1>1, <1>3, <1>4, <1>5, <1>6 DEF setupVars

LEMMA EnvironmentStepTypeOK == TypeOK /\ EnvironmentStep => TypeOK'
  BY Settings DEF EnvironmentStep, NextDay, LoseInvoice, TypeOK, poolVars, setupVars,
     manifestVars, stopVars, Day

LEMMA NextTypeOK == TypeOK /\ [Next]_vars => TypeOK'
<1> SUFFICES ASSUME TypeOK, [Next]_vars PROVE TypeOK'
  OBVIOUS
<1>1. CASE UNCHANGED vars
  BY <1>1 DEF TypeOK, vars, poolVars, setupVars, manifestVars, stopVars
<1>2. QED
  BY <1>1, PoolStepTypeOK, SetupStepTypeOK, ManifestStepTypeOK, DeliveryStepTypeOK,
     EnvironmentStepTypeOK DEF Next

\* Every column keeps a value of its type through every transaction.
THEOREM TypeCorrectness == Spec => []TypeOK
  BY InitTypeOK, NextTypeOK, PTL DEF Spec

----------------------------------------------------------------------------
(* Allocation: the order rows, the stop rows and the manifest rows agree.  *)

AllocationInv == StopRows /\ AllocationCoherent /\ DeliveredOnce /\ NoStrandedTrip

LEMMA InitAllocationInv == Init => AllocationInv
  BY DEF Init, AllocationInv, StopRows, AllocationCoherent, DeliveredOnce, NoStrandedTrip,
     OpenStops, Aboard

\* A step that touches no order state, stop or manifest status changes nothing.
LEMMA AllocationInvStutter ==
    ASSUME AllocationInv, UNCHANGED <<orderState, allocated, delivery, status>>
    PROVE  AllocationInv'
<1>1. StopRows' BY DEF AllocationInv, StopRows
<1>2. AllocationCoherent' BY DEF AllocationInv, AllocationCoherent, OpenStops, Aboard
<1>3. DeliveredOnce' BY DEF AllocationInv, DeliveredOnce
<1>4. NoStrandedTrip' BY DEF AllocationInv, NoStrandedTrip, OpenStops, Aboard
<1>5. QED BY <1>1, <1>2, <1>3, <1>4 DEF AllocationInv

\* A step that moves one order between states that are neither ALLOCATED nor
\* DELIVERED, and no stop.
LEMMA AllocationInvPool ==
    ASSUME TypeOK, AllocationInv, UNCHANGED <<allocated, delivery, status>>,
           orderState' \in [Orders -> OrderState],
           \A p \in Orders : orderState'[p] # orderState[p] =>
                 /\ orderState[p] \notin {"ALLOCATED", "DELIVERED"}
                 /\ orderState'[p] \notin {"ALLOCATED", "DELIVERED"}
    PROVE  AllocationInv'
<1>1. StopRows' BY DEF AllocationInv, StopRows
<1>2. AllocationCoherent' BY DEF AllocationInv, AllocationCoherent, OpenStops, Aboard
<1>3. DeliveredOnce' BY DEF AllocationInv, DeliveredOnce
<1>4. NoStrandedTrip' BY DEF AllocationInv, NoStrandedTrip, OpenStops, Aboard
<1>5. QED BY <1>1, <1>2, <1>3, <1>4 DEF AllocationInv

\* A waiting order is on no manifest.
LEMMA PooledIsAshore ==
    ASSUME AllocationInv, NEW o \in Orders, orderState[o] = "POOLED", NEW m \in Manifests
    PROVE  <<m, o>> \notin allocated /\ delivery[<<m, o>>] # "DELIVERED"
<1>1. delivery[<<m, o>>] # "DELIVERED" BY DEF AllocationInv, DeliveredOnce
<1>2. o \notin OpenStops(m) BY DEF AllocationInv, AllocationCoherent
<1>3. QED BY <1>1, <1>2 DEF AllocationInv, StopRows, OpenStops, Aboard

\* Taking one pending stop off an open manifest.
LEMMA AllocationInvUnload ==
    ASSUME TypeOK, AllocationInv, NEW m \in Manifests, NEW o \in Orders,
           <<m, o>> \in allocated, status[m] = "OPEN", UNCHANGED <<status, delivery>>,
           allocated' = allocated \ {<<m, o>>}, NEW new \in {"POOLED", "CANCELLED"},
           orderState' = [orderState EXCEPT ![o] = new]
    PROVE  AllocationInv'
<1>1. \A n \in Manifests, p \in Orders :
         <<n, p>> \in allocated' <=> <<n, p>> \in allocated /\ ~(n = m /\ p = o)
  OBVIOUS
<1>2. \A p \in Orders : orderState'[p] = IF p = o THEN new ELSE orderState[p]
  BY DEF TypeOK
<1>3. o \in OpenStops(m) BY DEF AllocationInv, StopRows, OpenStops, Aboard
<1>4. \A n \in Manifests : <<n, o>> \notin allocated'
  BY <1>1 DEF AllocationInv, AllocationCoherent, Aboard
<1>5. \A n \in Manifests : delivery[<<n, o>>] # "DELIVERED"
  BY <1>3 DEF AllocationInv, AllocationCoherent, DeliveredOnce
<1>6. StopRows' BY <1>1 DEF AllocationInv, StopRows
<1>7. AllocationCoherent'
  <2>1. \A p \in Orders \ {o}, n \in Manifests : p \in OpenStops(n)' <=> p \in OpenStops(n)
    BY <1>1 DEF OpenStops, Aboard
  <2>2. \A n \in Manifests : o \notin OpenStops(n)' BY <1>4 DEF OpenStops, Aboard
  <2>3. \A p \in Orders :
           orderState'[p] = "ALLOCATED" <=> \E n \in Manifests : p \in OpenStops(n)'
    BY <1>2, <2>1, <2>2 DEF AllocationInv, AllocationCoherent
  <2>4. \A p \in Orders, n, k \in Manifests : p \in Aboard(n)' /\ p \in Aboard(k)' => n = k
    BY <1>1 DEF AllocationInv, AllocationCoherent, Aboard
  <2>5. QED BY <2>3, <2>4 DEF AllocationCoherent
<1>8. DeliveredOnce'
  <2>1. orderState[o] # "DELIVERED" BY <1>5 DEF AllocationInv, DeliveredOnce
  <2>2. \A p \in Orders : orderState'[p] = "DELIVERED" <=> orderState[p] = "DELIVERED"
    BY <1>2, <2>1
  <2>3. QED BY <2>2 DEF AllocationInv, DeliveredOnce
<1>9. NoStrandedTrip' BY <1>1 DEF AllocationInv, NoStrandedTrip, OpenStops, Aboard
<1>10. QED BY <1>6, <1>7, <1>8, <1>9 DEF AllocationInv

LEMMA AllocationInvOpen ==
    ASSUME TypeOK, AllocationInv, NEW m \in Manifests, NEW c \in Corridors, NEW v \in Vehicles,
           NEW planned \in 0..MaxDay, NEW S \in SUBSET Orders,
           \A o \in S : orderState[o] = "POOLED", OpenManifest(m, c, v, S, planned)
    PROVE  AllocationInv'
<1>1. \A n \in Manifests, p \in Orders :
         <<n, p>> \in allocated' <=> <<n, p>> \in allocated \/ (n = m /\ p \in S)
  BY DEF OpenManifest, Open, TypeOK
<1>0. \A n \in Manifests, p \in Orders :
         delivery'[<<n, p>>] = IF n = m /\ p \in S THEN "PENDING" ELSE delivery[<<n, p>>]
  BY DEF OpenManifest, Open, TypeOK
<1>2. \A p \in Orders : orderState'[p] = IF p \in S THEN "ALLOCATED" ELSE orderState[p]
  BY DEF OpenManifest, Open
<1>3. /\ status[m] = "NONE"
      /\ \A n \in Manifests : status'[n] = IF n = m THEN "OPEN" ELSE status[n]
  BY DEF OpenManifest, Open, TypeOK
<1>4. /\ \A p \in S, n \in Manifests : <<n, p>> \notin allocated
      /\ \A p \in S, n \in Manifests : delivery[<<n, p>>] # "DELIVERED"
  BY PooledIsAshore
<1>5. /\ \A p \in Orders : delivery[<<m, p>>] = "NONE"
      /\ \A p \in Orders : <<m, p>> \notin allocated
  BY <1>3 DEF AllocationInv, StopRows
<1>6. StopRows' BY <1>0, <1>1, <1>3, <1>5 DEF AllocationInv, StopRows
<1>7. AllocationCoherent'
  <2>1. \A p \in Orders \ S, n \in Manifests : p \in OpenStops(n)' <=> p \in OpenStops(n)
    BY <1>0, <1>1 DEF OpenStops, Aboard
  <2>2. \A p \in S : p \in OpenStops(m)' BY <1>0, <1>1 DEF OpenStops, Aboard
  <2>3. \A p \in Orders :
           orderState'[p] = "ALLOCATED" <=> \E n \in Manifests : p \in OpenStops(n)'
    BY <1>2, <2>1, <2>2 DEF AllocationInv, AllocationCoherent
  <2>4. \A p \in Orders, n, k \in Manifests : p \in Aboard(n)' /\ p \in Aboard(k)' => n = k
    BY <1>1, <1>4 DEF AllocationInv, AllocationCoherent, Aboard
  <2>5. QED BY <2>3, <2>4 DEF AllocationCoherent
<1>8. DeliveredOnce' BY <1>0, <1>1, <1>2, <1>4 DEF AllocationInv, DeliveredOnce
<1>9. NoStrandedTrip' BY <1>0, <1>1, <1>3 DEF AllocationInv, NoStrandedTrip, OpenStops, Aboard
<1>10. QED BY <1>6, <1>7, <1>8, <1>9 DEF AllocationInv

\* Closing a manifest that carries a stop, or sending a closed one off.
LEMMA AllocationInvMove ==
    ASSUME TypeOK, AllocationInv, NEW m \in Manifests, NEW to \in {"CLOSED", "DEPARTED"},
           status[m] \in {"OPEN", "CLOSED"}, status[m] = "OPEN" => Aboard(m) # {},
           UNCHANGED <<orderState, allocated, delivery>>, status' = [status EXCEPT ![m] = to]
    PROVE  AllocationInv'
<1>1. \A n \in Manifests : status'[n] = IF n = m THEN to ELSE status[n]
  BY DEF TypeOK
<1>2. StopRows' BY <1>1 DEF AllocationInv, StopRows
<1>3. AllocationCoherent' BY DEF AllocationInv, AllocationCoherent, OpenStops, Aboard
<1>4. DeliveredOnce' BY DEF AllocationInv, DeliveredOnce
<1>5. NoStrandedTrip'
  <2>1. \A n \in Manifests : OpenStops(n)' = OpenStops(n) BY DEF OpenStops, Aboard
  <2>2. OpenStops(m) # {}
    <3>1. CASE status[m] = "OPEN"
      BY <3>1 DEF AllocationInv, StopRows, OpenStops, Aboard
    <3>2. CASE status[m] = "CLOSED" BY <3>2 DEF AllocationInv, NoStrandedTrip
    <3>3. QED BY <3>1, <3>2
  <2>3. QED BY <1>1, <2>1, <2>2 DEF AllocationInv, NoStrandedTrip
<1>6. QED BY <1>2, <1>3, <1>4, <1>5 DEF AllocationInv

LEMMA AllocationInvCancel ==
    ASSUME TypeOK, AllocationInv, NEW m \in Manifests, CancelManifest(m)
    PROVE  AllocationInv'
<1>1. \A n \in Manifests, p \in Orders :
         <<n, p>> \in allocated' <=> <<n, p>> \in allocated /\ n # m
  BY DEF CancelManifest, Cancel
<1>0. delivery' = delivery BY DEF CancelManifest, Cancel
<1>2. \A p \in Orders :
         orderState'[p] = IF <<m, p>> \in allocated /\ orderState[p] = "ALLOCATED"
                          THEN "POOLED" ELSE orderState[p]
  BY DEF CancelManifest, Cancel, Returned, Aboard
<1>3. \A n \in Manifests : status'[n] = IF n = m THEN "CANCELLED" ELSE status[n]
  BY DEF CancelManifest, Cancel, TypeOK
<1>4. StopRows' BY <1>0, <1>1, <1>3 DEF AllocationInv, StopRows
<1>5. AllocationCoherent'
  BY <1>0, <1>1, <1>2 DEF AllocationInv, AllocationCoherent, OpenStops, Aboard
<1>6. DeliveredOnce' BY <1>0, <1>1, <1>2 DEF AllocationInv, DeliveredOnce
<1>7. NoStrandedTrip' BY <1>0, <1>1, <1>3 DEF AllocationInv, NoStrandedTrip, OpenStops, Aboard
<1>8. QED BY <1>4, <1>5, <1>6, <1>7 DEF AllocationInv

LEMMA AllocationInvDelivery ==
    ASSUME TypeOK, AllocationInv, NEW m \in Manifests, NEW o \in Orders,
           NEW outcome \in DeliveryOutcome, RecordDelivery(m, o, outcome)
    PROVE  AllocationInv'
<1>1. \A n \in Manifests, p \in Orders :
         delivery'[<<n, p>>] = IF n = m /\ p = o THEN outcome ELSE delivery[<<n, p>>]
  BY DEF RecordDelivery, Record, TypeOK
<1>2. \A n \in Manifests, p \in Orders :
         <<n, p>> \in allocated' <=>
            <<n, p>> \in allocated /\ ~(n = m /\ p = o /\ outcome \in {"FAILED", "SKIPPED"})
  BY DEF RecordDelivery, Record, ReleaseStop
<1>3. \A p \in Orders :
         orderState'[p] = IF p # o \/ outcome = "ARRIVED" THEN orderState[p]
                          ELSE IF outcome = "DELIVERED" THEN "DELIVERED" ELSE "POOLED"
  BY DEF RecordDelivery, Record, StateAfter, TypeOK
<1>4. /\ <<m, o>> \in allocated
      /\ delivery[<<m, o>>] \in {"PENDING", "ARRIVED"}
      /\ status[m] \in {"CLOSED", "DEPARTED"}
  BY DEF RecordDelivery, Recordable, OpenStops, Aboard
<1>5. orderState[o] = "ALLOCATED"
  BY <1>4 DEF AllocationInv, AllocationCoherent, OpenStops, Aboard
<1>6. \A n \in Manifests :
         status'[n] = IF n = m /\ OpenStops(m)' = {} THEN "COMPLETED" ELSE status[n]
  BY DEF RecordDelivery, Record, CompleteIfDone, TypeOK
<1>7. \A n \in Manifests : <<n, o>> \in allocated => n = m
  BY <1>4 DEF AllocationInv, AllocationCoherent, Aboard
<1>8. StopRows'
  BY <1>1, <1>2, <1>4, <1>6 DEF AllocationInv, StopRows, DeliveryOutcome
<1>9. AllocationCoherent'
  <2>1. \A p \in Orders \ {o}, n \in Manifests : p \in OpenStops(n)' <=> p \in OpenStops(n)
    BY <1>1, <1>2 DEF OpenStops, Aboard
  <2>2. \A n \in Manifests : o \in OpenStops(n)' <=> n = m /\ outcome = "ARRIVED"
    BY <1>1, <1>2, <1>4, <1>7 DEF OpenStops, Aboard, DeliveryOutcome
  <2>3. \A p \in Orders :
           orderState'[p] = "ALLOCATED" <=> \E n \in Manifests : p \in OpenStops(n)'
    BY <1>3, <1>5, <2>1, <2>2 DEF AllocationInv, AllocationCoherent
  <2>4. \A p \in Orders, n, k \in Manifests : p \in Aboard(n)' /\ p \in Aboard(k)' => n = k
    BY <1>2 DEF AllocationInv, AllocationCoherent, Aboard
  <2>5. QED BY <2>3, <2>4 DEF AllocationCoherent
<1>10. DeliveredOnce'
  <2>1. \A n \in Manifests : delivery[<<n, o>>] # "DELIVERED"
    BY <1>5 DEF AllocationInv, DeliveredOnce
  <2>2. \A p \in Orders \ {o}, n \in Manifests : delivery'[<<n, p>>] = delivery[<<n, p>>]
    BY <1>1
  <2>3. \A n \in Manifests : delivery'[<<n, o>>] = "DELIVERED" <=> n = m /\ outcome = "DELIVERED"
    BY <1>1, <2>1
  <2>4. \A p \in Orders :
           orderState'[p] = "DELIVERED" <=> \E n \in Manifests : delivery'[<<n, p>>] = "DELIVERED"
    <3>1. ASSUME NEW p \in Orders \ {o}
          PROVE  orderState'[p] = "DELIVERED"
                    <=> \E n \in Manifests : delivery'[<<n, p>>] = "DELIVERED"
      <4>1. orderState'[p] = orderState[p] BY <1>3
      <4>2. \A n \in Manifests : delivery'[<<n, p>>] = delivery[<<n, p>>] BY <2>2
      <4>3. orderState[p] = "DELIVERED" <=> \E n \in Manifests : delivery[<<n, p>>] = "DELIVERED"
        BY DEF AllocationInv, DeliveredOnce
      <4>4. QED BY <4>1, <4>2, <4>3
    <3>2. orderState'[o] = "DELIVERED" <=> outcome = "DELIVERED" BY <1>3, <1>5
    <3>3. QED BY <2>3, <3>1, <3>2
  <2>5. \A p \in Orders, n, k \in Manifests :
           delivery'[<<n, p>>] = "DELIVERED" /\ delivery'[<<k, p>>] = "DELIVERED" => n = k
    BY <2>2, <2>3 DEF AllocationInv, DeliveredOnce
  <2>6. QED BY <2>4, <2>5 DEF DeliveredOnce
<1>11. NoStrandedTrip'
  <2>1. \A n \in Manifests \ {m} : OpenStops(n)' = OpenStops(n)
    BY <1>1, <1>2 DEF OpenStops, Aboard
  <2>2. QED BY <1>4, <1>6, <2>1 DEF AllocationInv, NoStrandedTrip
<1>12. QED BY <1>8, <1>9, <1>10, <1>11 DEF AllocationInv

LEMMA NextAllocationInv == TypeOK /\ TypeOK' /\ AllocationInv /\ [Next]_vars => AllocationInv'
<1> SUFFICES ASSUME TypeOK, TypeOK', AllocationInv, [Next]_vars PROVE AllocationInv'
  OBVIOUS
<1>1. CASE UNCHANGED vars
  BY <1>1, AllocationInvStutter DEF vars, poolVars, manifestVars, stopVars
<1>2. CASE PoolStep
  <2>1. ASSUME NEW o \in Orders,
               IntakeOrder(o) \/ CancelPooledOrder(o) \/ OrphanOrder(o)
                  \/ \E c \in Corridors : ResolveCorridor(o, c)
        PROVE  AllocationInv'
    <3>1. UNCHANGED <<allocated, delivery, status>>
      BY <2>1 DEF IntakeOrder, CancelPooledOrder, OrphanOrder, SetState, ResolveCorridor,
         RecordResolution, stopVars, manifestVars
    <3>2. \A p \in Orders : orderState'[p] # orderState[p] =>
             /\ orderState[p] \notin {"ALLOCATED", "DELIVERED"}
             /\ orderState'[p] \notin {"ALLOCATED", "DELIVERED"}
      BY <2>1 DEF IntakeOrder, CancelPooledOrder, OrphanOrder, SetState, ResolveCorridor,
         RecordResolution, Upserted, TypeOK
    <3>3. orderState' \in [Orders -> OrderState] BY DEF TypeOK
    <3>4. QED BY <3>1, <3>2, <3>3, AllocationInvPool
  <2>2. ASSUME NEW m \in Manifests, NEW o \in Orders, CancelAllocatedOrder(m, o)
        PROVE  AllocationInv'
    BY <2>2, AllocationInvUnload DEF CancelAllocatedOrder, Unload, Loadable, ReleaseStop
  <2>3. QED BY <1>2, <2>1, <2>2 DEF PoolStep
<1>3. CASE SetupStep
  BY <1>3, AllocationInvStutter DEF SetupStep, UpdateGeometry, SetGeometry, UpdateCorridor, CaptureLocation,
     UpdateVehicle, poolVars, manifestVars, stopVars
<1>4. CASE ManifestStep
  <2>1. ASSUME NEW m \in Manifests, NEW c \in Corridors, NEW v \in Vehicles,
               NEW planned \in 0..MaxDay, CreateAutomatically(m, c, v, planned)
        PROVE  AllocationInv'
    <3>1. PICK S \in SUBSET {o \in Orders : Eligible(o, c)} : OpenManifest(m, c, v, S, planned)
      BY <2>1 DEF CreateAutomatically
    <3>2. S \in SUBSET Orders /\ \A o \in S : orderState[o] = "POOLED"
      BY DEF Eligible
    <3>3. QED BY <3>1, <3>2, AllocationInvOpen
  <2>2. ASSUME NEW m \in Manifests, NEW c \in Corridors, NEW v \in Vehicles,
               NEW planned \in 0..MaxDay, NEW S \in SUBSET Orders,
               CreateExplicitly(m, c, v, S, planned)
        PROVE  AllocationInv'
    BY <2>2, AllocationInvOpen DEF CreateExplicitly, Eligible
  <2>3. ASSUME NEW m \in Manifests, NEW o \in Orders, RemoveOrder(m, o) PROVE AllocationInv'
    BY <2>3, AllocationInvUnload DEF RemoveOrder, Unload, Loadable, ReleaseStop
  <2>4. ASSUME NEW m \in Manifests, CloseManifest(m) PROVE AllocationInv'
    BY <2>4, AllocationInvMove DEF CloseManifest, Closable, Close, poolVars, stopVars, TypeOK
  <2>5. ASSUME NEW m \in Manifests, DepartManifest(m) PROVE AllocationInv'
    BY <2>5, AllocationInvMove DEF DepartManifest, Departable, Depart, CanTransition, poolVars,
       stopVars, TypeOK
  <2>6. ASSUME NEW m \in Manifests, CancelManifest(m) PROVE AllocationInv'
    BY <2>6, AllocationInvCancel
  <2>7. QED BY <1>4, <2>1, <2>2, <2>3, <2>4, <2>5, <2>6 DEF ManifestStep
<1>5. CASE DeliveryStep
  BY <1>5, AllocationInvDelivery DEF DeliveryStep
<1>6. CASE EnvironmentStep
  BY <1>6, AllocationInvStutter DEF EnvironmentStep, NextDay, LoseInvoice, poolVars,
     manifestVars, stopVars
<1>7. QED BY <1>1, <1>2, <1>3, <1>4, <1>5, <1>6 DEF Next

\* An order is on at most one trip and its state says which, it is handed over
\* at most once, and no closed or departed trip is left without a stop to deliver,
\* for every interleaving of the transactions.
THEOREM AllocationSafety == Spec => [](AllocationCoherent /\ DeliveredOnce /\ NoStrandedTrip)
<1>1. Init => TypeOK /\ AllocationInv BY InitTypeOK, InitAllocationInv
<1>2. TypeOK /\ AllocationInv /\ [Next]_vars => (TypeOK /\ AllocationInv)'
  BY NextTypeOK, NextAllocationInv
<1>3. AllocationInv => AllocationCoherent /\ DeliveredOnce /\ NoStrandedTrip
  BY DEF AllocationInv
<1>4. QED BY <1>1, <1>2, <1>3, PTL DEF Spec
=============================================================================
