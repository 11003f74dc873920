------------------------- MODULE FulfillmentDispatch -------------------------
(***************************************************************************)
(* The committed state of corridor fulfillment for one business, and one   *)
(* action per transaction of services/api/src/cp2/domains/fulfillment.     *)
(* Each transaction holds the row locks it needs until it commits, so here *)
(* it is one atomic step; FulfillmentLocking opens the steps up again and  *)
(* shows that the interleaved protocol implements this module.             *)
(*                                                                         *)
(* A stop is the pair <<m, o>> of its manifest and its order: an order     *)
(* that comes back to the pool can only be loaded on a new manifest, so a  *)
(* manifest never holds two stops of one order.  Road sequence, notes and  *)
(* timestamps other than the departure day are left out.                   *)
(***************************************************************************)
EXTENDS Integers, FiniteSets

CONSTANTS
    Orders,        \* confirmed invoices with a delivery record
    Shops,         \* the customers they are delivered to
    Corridors,
    Vehicles,
    Manifests,     \* identifiers createManifest may draw
    ShopOf,        \* [Orders -> Shops]
    Age,           \* [Orders -> Nat], injective: rank in (confirmed_at, id) order
    Weight,        \* [Orders -> 0..MaxWeight], grams snapshotted at confirmation
    MaxWeight,
    Unweighed,     \* orders whose canonical weight is UNRESOLVED
    Capacities,    \* capacities a vehicle may be given
    Governed,      \* corridors with an effective dispatch policy
    Losable,       \* invoices whose confirmation a crash may lose
    Timezone,      \* whether the business has a timezone
    Editable,      \* corridors and vehicles the owner edits (bound)
    MaxGeometry,   \* bound on geometry versions
    MaxLocation,   \* bound on captures of one shop's location
    MaxDay         \* bound on business-local days

None == "none"

ASSUME DomainsAreFinite == IsFiniteSet(Orders) /\ None \notin Corridors \cup Vehicles
ASSUME OrderAttributes ==
    /\ ShopOf \in [Orders -> Shops]
    /\ Age \in [Orders -> Nat]
    /\ \A a, b \in Orders : Age[a] = Age[b] => a = b
    /\ MaxWeight \in Nat
    /\ Weight \in [Orders -> 0..MaxWeight]
    /\ Unweighed \subseteq Orders
    /\ Losable \subseteq Orders
ASSUME Settings ==
    /\ Capacities \subseteq Nat \ {0}
    /\ Governed \subseteq Corridors
    /\ Timezone \in BOOLEAN
    /\ MaxGeometry \in Nat \ {0}
    /\ MaxLocation \in Nat
    /\ MaxDay \in Nat \ {0}

VARIABLES
    invoices,      \* confirmed invoices present in the in-memory store
    orderState,    \* [Orders -> OrderState], fulfillment_orders.state
    resolution,    \* [Orders -> Resolution], the current corridor resolution
    active,        \* the corridors and vehicles with active set
    geometry,      \* [Corridors -> Nat], geometry_version
    location,      \* [Shops -> Nat], version of the current location, 0: none
    capacity,      \* [Vehicles -> Nat], capacity_grams
    status,        \* [Manifests -> ManifestStatus]
    manifest,      \* [Manifests -> Header], columns fixed at creation
    total,         \* [Manifests -> Nat], total_weight_grams
    departedOn,    \* [Manifests -> 0..MaxDay], day of departed_at, 0: not departed
    allocated,     \* the stops with allocation_active
    delivery,      \* [Manifests \X Orders -> delivery_status], NONE: no such stop
    released,      \* [Manifests \X Orders -> release_reason]
    reservation,   \* [Manifests -> Reservation], the vehicle_reservations row
    reserved,      \* the manifests whose reservation is active
    outbox,        \* fulfillment_outbox_events, by event key
    today          \* business-local day

poolVars == <<invoices, orderState, resolution>>
setupVars == <<active, geometry, location, capacity>>
manifestVars == <<status, manifest, total, departedOn, reservation, reserved>>
stopVars == <<allocated, delivery, released>>
vars == <<poolVars, setupVars, manifestVars, stopVars, outbox, today>>

----------------------------------------------------------------------------
OrderState == {"NONE", "POOLED", "ALLOCATED", "DELIVERED", "CANCELLED", "ORPHANED"}
ManifestStatus == {"NONE", "OPEN", "CLOSED", "DEPARTED", "COMPLETED", "CANCELLED"}
DeliveryOutcome == {"ARRIVED", "DELIVERED", "FAILED", "SKIPPED"}
DeliveryStatus == {"NONE", "PENDING"} \cup DeliveryOutcome
ReleaseReason == {"NONE", "REMOVED_BY_DISPATCHER", "ORDER_CANCELLED",
                  "DELIVERY_FAILED", "DELIVERY_SKIPPED"}

Day == 1..MaxDay
Resolution == [corridor : Corridors \cup {None}, version : 0..MaxGeometry,
               location : 0..MaxLocation]
Unassigned == [corridor |-> None, version |-> 0, location |-> 0]
Header == [corridor : Corridors \cup {None}, version : 0..MaxGeometry,
           vehicle : Vehicles \cup {None}, capacity : Nat, planned : 0..MaxDay]
NoHeader == [corridor |-> None, version |-> 0, vehicle |-> None,
             capacity |-> 0, planned |-> 0]
Reservation == [vehicle : Vehicles \cup {None}, day : 0..MaxDay]
NoReservation == [vehicle |-> None, day |-> 0]
Event == ({"manifest.created", "manifest.closed", "manifest.departed",
           "manifest.cancelled", "manifest.completed"} \X Manifests)
         \cup ({"delivery.delivered", "delivery.failed"} \X Manifests \X Orders)

\* The weight of a set of orders: one element for each gram of each of them.
Load(S) == Cardinality({g \in S \X (1..MaxWeight) : g[2] <= Weight[g[1]]})

Aboard(m) == {o \in Orders : <<m, o>> \in allocated}
OpenStops(m) == {o \in Aboard(m) : delivery[<<m, o>>] \in {"PENDING", "ARRIVED"}}

\* Mutant: the removal guard also lets a closed manifest through.
LoadableUntilDeparture(m) == status[m] \in {"OPEN", "CLOSED"}

\* Stops are taken off by the dispatcher or a cancellation only before closing.
Loadable(m) == status[m] = "OPEN"

\* manifestSummary reads the invoice of every stop the manifest ever had and
\* throws, rolling the transaction back, when one of them is gone.
Readable(m) == \A o \in Orders : delivery[<<m, o>>] # "NONE" => o \in invoices

\* Mutant: staleness that forgets the geometry version.
StaleByLocation(o) ==
    /\ resolution[o] # Unassigned
    /\ resolution[o].location # location[ShopOf[o]]

\* staleReasons: the resolution predates the current geometry or location.
Stale(o) ==
    /\ resolution[o] # Unassigned
    /\ \/ resolution[o].version # geometry[resolution[o].corridor]
       \/ resolution[o].location # location[ShopOf[o]]

\* Mutant: eligibility that never looks at the order's state.
EligibleInAnyState(o, c) ==
    /\ o \notin Unweighed
    /\ resolution[o].corridor = c
    /\ ~Stale(o)

Eligible(o, c) ==
    /\ orderState[o] = "POOLED"
    /\ o \notin Unweighed
    /\ resolution[o].corridor = c
    /\ ~Stale(o)

\* Mutant: a walk that weighs each order on its own.
IsWalkOfSingles(S, C, limit) == S = {o \in C : Load({o}) <= limit}

\* The result of the oldest-first, skip-and-continue walk over C: an order is
\* taken exactly when it fits beside the older orders already taken.
IsWalk(S, C, limit) ==
    /\ S \subseteq C
    /\ \A o \in C :
          o \in S <=> Load({p \in S : Age[p] < Age[o]} \cup {o}) <= limit

CanTransition(from, to) ==
    \/ from = "OPEN" /\ to \in {"CLOSED", "CANCELLED"}
    \/ from = "CLOSED" /\ to \in {"DEPARTED", "CANCELLED"}
    \/ from = "DEPARTED" /\ to = "COMPLETED"

\* Mutant: only a departed trip blocks its vehicle's day.
DayFreeUntilDeparture(v, d) ==
    \A m \in reserved :
        status[m] = "DEPARTED" => reservation[m] # [vehicle |-> v, day |-> d]

\* Partial unique index on (vehicle_id, service_date) where active.
DayFree(v, d) ==
    \A m \in reserved : reservation[m] # [vehicle |-> v, day |-> d]

\* insert ... on conflict (manifest_id) do nothing, under that index.
Reserve(m, v, d) ==
    IF reservation[m] # NoReservation
    THEN UNCHANGED <<reservation, reserved>>
    ELSE /\ DayFree(v, d)
         /\ reservation' = [reservation EXCEPT ![m] = [vehicle |-> v, day |-> d]]
         /\ reserved' = reserved \cup {m}

ReleaseStop(m, o, reason) ==
    /\ allocated' = allocated \ {<<m, o>>}
    /\ released' = [released EXCEPT ![<<m, o>>] = reason]

----------------------------------------------------------------------------
Init ==
    /\ invoices = Orders
    /\ orderState = [o \in Orders |-> "NONE"]
    /\ resolution = [o \in Orders |-> Unassigned]
    /\ active = Corridors \cup Vehicles
    /\ geometry = [c \in Corridors |-> 1]
    /\ location \in [Shops -> 0..MaxLocation]
    /\ capacity \in [Vehicles -> Capacities]
    /\ status = [m \in Manifests |-> "NONE"]
    /\ manifest = [m \in Manifests |-> NoHeader]
    /\ total = [m \in Manifests |-> 0]
    /\ departedOn = [m \in Manifests |-> 0]
    /\ allocated = {}
    /\ delivery = [s \in Manifests \X Orders |-> "NONE"]
    /\ released = [s \in Manifests \X Orders |-> "NONE"]
    /\ reservation = [m \in Manifests |-> NoReservation]
    /\ reserved = {}
    /\ outbox = {}
    /\ today = 1

----------------------------------------------------------------------------
(* The pool: intake, corridor resolution, cancellation, orphans.           *)

\* Mutant: an upsert that resets the state of the row it finds.
UpsertedAfresh(o) == "POOLED"

\* upsertFulfillmentOrder: creates the row, never changes an existing state.
Upserted(o) == IF orderState[o] = "NONE" THEN "POOLED" ELSE orderState[o]

SetState(o, state) ==
    /\ orderState' = [orderState EXCEPT ![o] = state]
    /\ UNCHANGED <<invoices, resolution, setupVars, manifestVars, stopVars, outbox, today>>

\* Intake's own transaction; also an automatic resolution that finds no
\* qualifying corridor, which commits the row and nothing else.
IntakeOrder(o) == o \in invoices /\ SetState(o, Upserted(o))

Qualifies(c) == c \in active \cap Governed

RecordResolution(o, found) ==
    /\ orderState' = [orderState EXCEPT ![o] = "POOLED"]
    /\ resolution' = [resolution EXCEPT ![o] = found]
    /\ UNCHANGED <<invoices, setupVars, manifestVars, stopVars, outbox, today>>

\* writeResolution, automatic or manual.  Which corridor qualifies for the
\* shop's position is left open: any active corridor with a tolerance may.
ResolveCorridor(o, c) ==
    /\ o \in invoices
    /\ location[ShopOf[o]] # 0
    /\ Qualifies(c)
    /\ Upserted(o) = "POOLED"
    /\ RecordResolution(o, [corridor |-> c, version |-> geometry[c],
                            location |-> location[ShopOf[o]]])

\* cancelOrderFulfillment of a pooled order.
CancelPooledOrder(o) ==
    /\ o \in invoices
    /\ orderState[o] = "POOLED"
    /\ SetState(o, "CANCELLED")

\* Taking an order off an open manifest.
Unload(m, o, state, reason) ==
    /\ ReleaseStop(m, o, reason)
    /\ orderState' = [orderState EXCEPT ![o] = state]
    /\ total' = [total EXCEPT ![m] = Load(Aboard(m) \ {o})]
    /\ UNCHANGED <<invoices, resolution, setupVars, status, manifest, departedOn,
                   reservation, reserved, delivery, outbox, today>>

\* cancelOrderFulfillment of an allocated order: only from an open manifest.
CancelAllocatedOrder(m, o) ==
    /\ o \in invoices
    /\ orderState[o] = "ALLOCATED"
    /\ <<m, o>> \in allocated
    /\ Loadable(m)
    /\ Unload(m, o, "CANCELLED", "ORDER_CANCELLED")

\* The reconciler marks a pooled row whose invoice is gone; it leaves an
\* allocated one as it is.
OrphanOrder(o) ==
    /\ o \notin invoices
    /\ orderState[o] = "POOLED"
    /\ SetState(o, "ORPHANED")

----------------------------------------------------------------------------
(* Setup: geometry, activation, shop locations, vehicles.                  *)

SetGeometry(c, version) ==
    /\ geometry' = [geometry EXCEPT ![c] = version]
    /\ UNCHANGED <<poolVars, active, location, capacity, manifestVars, stopVars, outbox, today>>

UpdateGeometry(c) == geometry[c] < MaxGeometry /\ SetGeometry(c, geometry[c] + 1)

UpdateCorridor(c, on) ==
    /\ c \in Editable
    /\ active' = IF on THEN active \cup {c} ELSE active \ {c}
    /\ UNCHANGED <<poolVars, geometry, location, capacity, manifestVars, stopVars, outbox, today>>

CaptureLocation(s) ==
    /\ location[s] < MaxLocation
    /\ location' = [location EXCEPT ![s] = @ + 1]
    /\ UNCHANGED <<poolVars, active, geometry, capacity, manifestVars, stopVars, outbox, today>>

UpdateVehicle(v, on, grams) ==
    /\ v \in Editable
    /\ active' = IF on THEN active \cup {v} ELSE active \ {v}
    /\ capacity' = [capacity EXCEPT ![v] = grams]
    /\ UNCHANGED <<poolVars, geometry, location, manifestVars, stopVars, outbox, today>>

----------------------------------------------------------------------------
(* Manifests.                                                              *)

HeaderOf(c, v, planned) ==
    [corridor |-> c, version |-> geometry[c], vehicle |-> v, capacity |-> capacity[v],
     planned |-> planned]

\* The writes of createManifest: m carries the orders S.
Open(m, header, S) ==
    /\ status' = [status EXCEPT ![m] = "OPEN"]
    /\ manifest' = [manifest EXCEPT ![m] = header]
    /\ total' = [total EXCEPT ![m] = Load(S)]
    /\ IF header.planned = 0 THEN UNCHANGED <<reservation, reserved>>
       ELSE Reserve(m, header.vehicle, header.planned)
    /\ allocated' = allocated \cup ({m} \X S)
    /\ delivery' = [s \in DOMAIN delivery |->
                       IF s \in {m} \X S THEN "PENDING" ELSE delivery[s]]
    /\ orderState' = [o \in Orders |-> IF o \in S THEN "ALLOCATED" ELSE orderState[o]]
    /\ outbox' = outbox \cup {<<"manifest.created", m>>}
    /\ UNCHANGED <<invoices, resolution, setupVars, departedOn, released, today>>

Openable(c, v, planned) ==
    /\ Qualifies(c)
    /\ v \in active
    /\ planned # 0 => Timezone

OpenManifest(m, c, v, S, planned) ==
    /\ status[m] = "NONE"
    /\ Openable(c, v, planned)
    /\ S # {}
    /\ S \subseteq invoices
    /\ Open(m, HeaderOf(c, v, planned), S)

CreateAutomatically(m, c, v, planned) ==
    \E S \in SUBSET {o \in Orders : Eligible(o, c)} :
        /\ IsWalk(S, {o \in Orders : Eligible(o, c)}, capacity[v])
        /\ OpenManifest(m, c, v, S, planned)

CreateExplicitly(m, c, v, S, planned) ==
    /\ \A o \in S : Eligible(o, c)
    /\ Load(S) <= capacity[v]
    /\ OpenManifest(m, c, v, S, planned)

RemoveOrder(m, o) ==
    /\ Loadable(m)
    /\ <<m, o>> \in allocated
    /\ Readable(m)
    /\ Unload(m, o, "POOLED", "REMOVED_BY_DISPATCHER")

Closable(m) ==
    /\ status[m] = "OPEN"
    /\ Aboard(m) # {}
    /\ Readable(m)

Close(m) ==
    /\ status' = [status EXCEPT ![m] = "CLOSED"]
    /\ outbox' = outbox \cup {<<"manifest.closed", m>>}
    /\ UNCHANGED <<poolVars, setupVars, manifest, total, departedOn, reservation, reserved,
                   stopVars, today>>

CloseManifest(m) == Closable(m) /\ Close(m)

ServiceDay(m) == IF manifest[m].planned # 0 THEN manifest[m].planned ELSE today

\* By a dispatcher or the assigned driver.
Departable(m) ==
    /\ CanTransition(status[m], "DEPARTED")
    /\ Timezone
    /\ Readable(m)

Depart(m, day) ==
    /\ Reserve(m, manifest[m].vehicle, day)
    /\ status' = [status EXCEPT ![m] = "DEPARTED"]
    /\ departedOn' = [departedOn EXCEPT ![m] = today]
    /\ outbox' = outbox \cup {<<"manifest.departed", m>>}
    /\ UNCHANGED <<poolVars, setupVars, manifest, total, stopVars, today>>

DepartManifest(m) == Departable(m) /\ Depart(m, ServiceDay(m))

\* Mutant: the cancelled trip returns every order it carries.
ReturnedWithDelivered(m) == Aboard(m)

\* The orders a cancelled trip returns to the pool.
Returned(m) == {o \in Aboard(m) : orderState[o] = "ALLOCATED"}

Cancellable(m) == CanTransition(status[m], "CANCELLED") /\ Readable(m)

Cancel(m) ==
    /\ orderState' = [o \in Orders |->
                         IF o \in Returned(m) THEN "POOLED" ELSE orderState[o]]
    /\ allocated' = allocated \ ({m} \X Orders)
    /\ released' = [s \in DOMAIN released |->
                       IF s[1] = m /\ s \in allocated
                       THEN "REMOVED_BY_DISPATCHER" ELSE released[s]]
    /\ reserved' = reserved \ {m}
    /\ status' = [status EXCEPT ![m] = "CANCELLED"]
    /\ outbox' = outbox \cup {<<"manifest.cancelled", m>>}
    /\ UNCHANGED <<invoices, resolution, setupVars, manifest, total, departedOn,
                   reservation, delivery, today>>

CancelManifest(m) == Cancellable(m) /\ Cancel(m)

----------------------------------------------------------------------------
(* Recording a stop's outcome, by a dispatcher or the assigned driver.     *)

\* Mutant: only a departed manifest is completed.
CompleteIfDeparted(m, event) ==
    IF OpenStops(m)' = {} /\ status[m] = "DEPARTED"
    THEN /\ status' = [status EXCEPT ![m] = "COMPLETED"]
         /\ outbox' = outbox \cup event \cup {<<"manifest.completed", m>>}
    ELSE /\ UNCHANGED status
         /\ outbox' = outbox \cup event

\* Mutant: the completion event takes the place of the delivery event.
CompleteSilently(m, event) ==
    IF OpenStops(m)' = {}
    THEN /\ status' = [status EXCEPT ![m] = "COMPLETED"]
         /\ outbox' = outbox \cup {<<"manifest.completed", m>>}
    ELSE /\ UNCHANGED status
         /\ outbox' = outbox \cup event

\* The last conjuncts of recordDelivery: the manifest whose last open stop
\* was just recorded is completed, whatever state it was in.
CompleteIfDone(m, event) ==
    IF OpenStops(m)' = {}
    THEN /\ status' = [status EXCEPT ![m] = "COMPLETED"]
         /\ outbox' = outbox \cup event \cup {<<"manifest.completed", m>>}
    ELSE /\ UNCHANGED status
         /\ outbox' = outbox \cup event

\* Mutant: the outcome itself is stored as the release reason.
ReasonIsOutcome(outcome) == outcome

ReasonFor(outcome) == IF outcome = "FAILED" THEN "DELIVERY_FAILED" ELSE "DELIVERY_SKIPPED"

StateAfter(state, outcome) ==
    IF outcome = "DELIVERED" THEN "DELIVERED" ELSE IF outcome = "ARRIVED" THEN state ELSE "POOLED"

EventOf(m, o, outcome) ==
    IF outcome = "DELIVERED" THEN {<<"delivery.delivered", m, o>>}
    ELSE IF outcome = "FAILED" THEN {<<"delivery.failed", m, o>>} ELSE {}

Recordable(m, o, outcome) ==
    /\ status[m] \in {"CLOSED", "DEPARTED"}
    /\ o \in OpenStops(m)
    /\ delivery[<<m, o>>] # outcome
    /\ Readable(m)

Record(m, o, outcome) ==
    /\ delivery' = [delivery EXCEPT ![<<m, o>>] = outcome]
    /\ orderState' = [orderState EXCEPT ![o] = StateAfter(@, outcome)]
    /\ IF outcome \in {"FAILED", "SKIPPED"} THEN ReleaseStop(m, o, ReasonFor(outcome))
       ELSE UNCHANGED <<allocated, released>>
    /\ CompleteIfDone(m, EventOf(m, o, outcome))
    /\ UNCHANGED <<invoices, resolution, setupVars, manifest, total, departedOn,
                   reservation, reserved, today>>

RecordDelivery(m, o, outcome) == Recordable(m, o, outcome) /\ Record(m, o, outcome)

----------------------------------------------------------------------------
(* The environment.                                                        *)

\* The API restarts from a snapshot older than the confirmation.
LoseInvoice(o) ==
    /\ o \in invoices \cap Losable
    /\ invoices' = invoices \ {o}
    /\ UNCHANGED <<orderState, resolution, setupVars, manifestVars, stopVars, outbox, today>>

NextDay ==
    /\ today < MaxDay
    /\ today' = today + 1
    /\ UNCHANGED <<poolVars, setupVars, manifestVars, stopVars, outbox>>

----------------------------------------------------------------------------
PoolStep ==
    \/ \E o \in Orders : IntakeOrder(o) \/ CancelPooledOrder(o) \/ OrphanOrder(o)
    \/ \E o \in Orders, c \in Corridors : ResolveCorridor(o, c)
    \/ \E m \in Manifests, o \in Orders : CancelAllocatedOrder(m, o)

SetupStep ==
    \/ \E c \in Corridors : UpdateGeometry(c) \/ \E b \in BOOLEAN : UpdateCorridor(c, b)
    \/ \E s \in Shops : CaptureLocation(s)
    \/ \E v \in Vehicles, b \in BOOLEAN, g \in Capacities : UpdateVehicle(v, b, g)

ManifestStep ==
    \E m \in Manifests :
        \/ \E c \in Corridors, v \in Vehicles, planned \in 0..MaxDay :
              \/ CreateAutomatically(m, c, v, planned)
              \/ \E S \in SUBSET Orders : CreateExplicitly(m, c, v, S, planned)
        \/ \E o \in Orders : RemoveOrder(m, o)
        \/ CloseManifest(m) \/ DepartManifest(m) \/ CancelManifest(m)

DeliveryStep ==
    \E m \in Manifests, o \in Orders, outcome \in DeliveryOutcome :
        RecordDelivery(m, o, outcome)

EnvironmentStep == NextDay \/ \E o \in Orders : LoseInvoice(o)

Next == PoolStep \/ SetupStep \/ ManifestStep \/ DeliveryStep \/ EnvironmentStep

Spec == Init /\ [][Next]_vars

\* The intake reconciler runs for ever on its interval; nothing else has to happen.
FairSpec == Spec /\ \A o \in Orders : WF_vars(OrphanOrder(o))

----------------------------------------------------------------------------
(* Properties.                                                             *)

\* Every column holds a value its CHECK constraint and type allow.
TypeOK ==
    /\ invoices \subseteq Orders
    /\ orderState \in [Orders -> OrderState]
    /\ resolution \in [Orders -> Resolution]
    /\ active \subseteq Corridors \cup Vehicles
    /\ geometry \in [Corridors -> 1..MaxGeometry]
    /\ location \in [Shops -> 0..MaxLocation]
    /\ capacity \in [Vehicles -> Capacities]
    /\ status \in [Manifests -> ManifestStatus]
    /\ manifest \in [Manifests -> Header]
    /\ total \in [Manifests -> Nat]
    /\ departedOn \in [Manifests -> 0..MaxDay]
    /\ allocated \subseteq Manifests \X Orders
    /\ delivery \in [Manifests \X Orders -> DeliveryStatus]
    /\ released \in [Manifests \X Orders -> ReleaseReason]
    /\ reservation \in [Manifests -> Reservation]
    /\ reserved \subseteq Manifests
    /\ outbox \subseteq Event
    /\ today \in Day

\* The order row and the stop rows never disagree: an order is ALLOCATED
\* exactly while one stop carries it and is still to be delivered, and no two
\* stops are active for one order, however removals, failures, cancellations
\* and new manifests follow each other.
AllocationCoherent ==
    \A o \in Orders :
        /\ orderState[o] = "ALLOCATED" <=> \E m \in Manifests : o \in OpenStops(m)
        /\ \A m, n \in Manifests : o \in Aboard(m) /\ o \in Aboard(n) => m = n

\* A load the dispatcher relies on: an open manifest's total is what its active
\* stops weigh, a closed one's was when it closed, and none exceeds the capacity
\* snapshot, so the CHECK on fulfillment_manifests never has to fire.
NeverOverloaded ==
    \A m \in Manifests :
        /\ status[m] = "OPEN" => total[m] = Load(Aboard(m))
        /\ Load(Aboard(m)) <= total[m]
        /\ total[m] <= manifest[m].capacity

\* recordDelivery, cancelManifest and cancelOrderFulfillment together never
\* strand a trip: a closed or departed manifest still has a stop to deliver, and
\* a finished one has none.
NoStrandedTrip ==
    \A m \in Manifests :
        /\ status[m] \in {"CLOSED", "DEPARTED"} => OpenStops(m) # {}
        /\ status[m] \in {"NONE", "COMPLETED", "CANCELLED"} => OpenStops(m) = {}

\* An order is handed over once: it is DELIVERED exactly when one stop says so,
\* whatever earlier attempts on other manifests failed.
DeliveredOnce ==
    \A o \in Orders :
        /\ orderState[o] = "DELIVERED"
              <=> \E m \in Manifests : delivery[<<m, o>>] = "DELIVERED"
        /\ \A m, n \in Manifests :
              delivery[<<m, o>>] = "DELIVERED" /\ delivery[<<n, o>>] = "DELIVERED" => m = n

\* What a stop row and its manifest's row say of each other; with AllocationCoherent,
\* DeliveredOnce and NoStrandedTrip it is preserved by every transaction.
StopRows ==
    /\ \A m \in Manifests, o \in Orders :
          <<m, o>> \in allocated => delivery[<<m, o>>] \in {"PENDING", "ARRIVED", "DELIVERED"}
    /\ \A m \in Manifests, o \in Orders :
          <<m, o>> \in allocated /\ status[m] = "OPEN" => delivery[<<m, o>>] = "PENDING"
    /\ \A m \in Manifests, o \in Orders :
          status[m] = "NONE" => delivery[<<m, o>>] = "NONE"

\* A stop still to be delivered belongs to the corridor and geometry version its
\* manifest was built for: re-resolution never moves a loaded order (A16).
RouteIsCurrent ==
    \A m \in Manifests : \A o \in OpenStops(m) :
        /\ resolution[o].corridor = manifest[m].corridor
        /\ resolution[o].version = manifest[m].version

\* A departed trip owns its vehicle's service day, a cancelled one owns none,
\* and no two manifests own the same vehicle's day.
VehicleDayOwned ==
    \A m \in Manifests :
        /\ status[m] = "DEPARTED" =>
              m \in reserved /\ reservation[m].vehicle = manifest[m].vehicle
        /\ status[m] = "CANCELLED" => m \notin reserved
        /\ \A n \in Manifests :
              m \in reserved /\ n \in reserved /\ reservation[m] = reservation[n] => m = n

\* The outbox tells consumers neither more nor less than what was committed.
OutboxMirrorsTrips ==
    /\ \A m \in Manifests :
          /\ <<"manifest.created", m>> \in outbox <=> status[m] # "NONE"
          /\ <<"manifest.departed", m>> \in outbox <=> departedOn[m] # 0
          /\ <<"manifest.cancelled", m>> \in outbox <=> status[m] = "CANCELLED"
          /\ <<"manifest.completed", m>> \in outbox <=> status[m] = "COMPLETED"
          /\ status[m] \in {"CLOSED", "DEPARTED", "COMPLETED"}
                => <<"manifest.closed", m>> \in outbox
    /\ \A m \in Manifests, o \in Orders :
          /\ <<"delivery.delivered", m, o>> \in outbox <=> delivery[<<m, o>>] = "DELIVERED"
          /\ <<"delivery.failed", m, o>> \in outbox <=> delivery[<<m, o>>] = "FAILED"

\* What left the yard is what was closed: once a manifest is not open, nothing
\* is loaded on it, its total stays, and a stop leaves it only with a recorded
\* failure or the cancellation of the whole trip.
ClosedLoadFrozen ==
    [][\A m \in Manifests : status[m] \notin {"NONE", "OPEN"} =>
          /\ Aboard(m)' \subseteq Aboard(m)
          /\ total'[m] = total[m]
          /\ \A o \in Aboard(m) \ Aboard(m)' :
                status'[m] = "CANCELLED" \/ delivery'[<<m, o>>] \in {"FAILED", "SKIPPED"}]_vars

\* No sequence of calls brings a delivered, cancelled or orphaned order back into
\* the pool: not a repeated intake, not a resolution, not a cancelled trip.
FinishedOrdersStayFinished ==
    [][\A o \in Orders : orderState[o] \in {"DELIVERED", "CANCELLED", "ORPHANED"}
          => orderState'[o] = orderState[o]]_vars

\* How far the trip is that is to deliver an order.
Carries(m, o) == <<m, o>> \in allocated /\ delivery[<<m, o>>] \in {"PENDING", "ARRIVED"}
TripOf(o) ==
    IF \E m \in Manifests : Carries(m, o)
    THEN status[CHOOSE m \in Manifests : Carries(m, o)] ELSE "NONE"

\* Every transaction moves its orders as OrderLifecycle allows: a trip takes orders
\* from the pool while it is open, carries them along from then on, and what ends it
\* for one of them (a hand-over, a failure, a cancellation) fits how far it is.
Lifecycle == INSTANCE OrderLifecycle
             WITH state <- orderState, trip <- [o \in Orders |-> TripOf(o)]
FollowsLifecycle == Lifecycle!Spec

\* What the comment on canTransitionManifest claims of the whole program ("The
\* single authoritative Phase 2 manifest state-machine transition check"): no
\* manifest changes status but along that table.
TransitionsAuthoritative ==
    [][\A m \in Manifests :
          status[m] # "NONE" /\ status'[m] # status[m]
             => CanTransition(status[m], status'[m])]_vars

\* What the plan asks of the reconciler (corridor-fulfillment.md 5.3): a row whose
\* invoice no longer exists is flagged ORPHANED, also when it is on a manifest.
LostInvoicesFlagged ==
    \A o \in Orders :
        o \notin invoices /\ orderState[o] \in {"POOLED", "ALLOCATED"}
           ~> orderState[o] = "ORPHANED"
=============================================================================
