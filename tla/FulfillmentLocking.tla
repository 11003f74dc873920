-------------------------- MODULE FulfillmentLocking --------------------------
(***************************************************************************)
(* The transactions of FulfillmentDispatch as they run: several calls at   *)
(* once, each in withFulfillmentTransaction, reading without locks, taking *)
(* row locks (FOR UPDATE) one by one, deciding on fresh reads and          *)
(* committing, with lock waits, time-outs, rechecks and bounded retries.   *)
(* Writes become visible at the commit, which also frees the locks.        *)
(*                                                                         *)
(* A row is named by the corridor, vehicle, manifest or order it stores.   *)
(* Locks on stop rows follow the lock of their order and are left out, as  *)
(* are idempotency records; the day, the invoices and the locations stand  *)
(* still while calls run.                                                  *)
(***************************************************************************)
EXTENDS FulfillmentDispatch, Sequences

CONSTANTS
    Callers,      \* calls in flight
    Requests,     \* what each may ask for
    FreshId,      \* [Callers -> Manifests], the randomUUID a creation draws
    Id,           \* [Corridors \cup Orders -> Nat], the order of the row ids
    MaxAttempts   \* FULFILLMENT_TRANSACTION_MAX_ATTEMPTS

\* The calls as their routes and tools parse them.
Request ==
    [op : {"create"}, corridor : Corridors, vehicle : Vehicles, planned : 0..MaxDay,
     automatic : BOOLEAN, orders : SUBSET Orders]
    \cup [op : {"remove"}, manifest : Manifests, order : Orders]
    \cup [op : {"close", "depart", "cancel"}, manifest : Manifests]
    \cup [op : {"record"}, manifest : Manifests, order : Orders, outcome : DeliveryOutcome]
    \cup [op : {"release"}, order : Orders, state : {"CANCELLED", "ORPHANED"}]
    \cup [op : {"resolve"}, order : Orders, corridor : Corridors, automatic : BOOLEAN]
    \cup [op : {"intake"}, order : Orders]
    \cup [op : {"geometry"}, corridor : Corridors]
    \cup [op : {"corridor"}, corridor : Corridors \cap Editable, on : BOOLEAN]
    \cup [op : {"vehicle"}, vehicle : Vehicles \cap Editable, patch : {"active"}, on : BOOLEAN]
    \cup [op : {"vehicle"}, vehicle : Vehicles \cap Editable, patch : {"capacity"},
          grams : Capacities]

ASSUME CallSettings ==
    /\ Requests \subseteq Request
    /\ FreshId \in [Callers -> Manifests]
    /\ \A p, q \in Callers : FreshId[p] = FreshId[q] => p = q
    /\ Id \in [Corridors \cup Orders -> Nat]
    /\ \A S \in {Corridors, Orders} : \A x, y \in S : Id[x] = Id[y] => x = y
    /\ MaxAttempts \in Nat \ {0}

\* A row belongs to one table.
ASSUME RowsAreApart ==
    /\ None \notin Manifests
    /\ Corridors \cap (Vehicles \cup Manifests \cup Orders) = {}
    /\ Vehicles \cap (Manifests \cup Orders) = {}
    /\ Manifests \cap Orders = {}

VARIABLE call     \* [Callers -> Call]

lockingVars == <<vars, call>>

Rows == Corridors \cup Vehicles \cup Manifests \cup Orders

NoRequest == [op |-> "none"]
NoReads == [state |-> "NONE", corridor |-> None, carrier |-> None, version |-> 0]
NoWrites == [orders |-> {}, header |-> NoHeader, value |-> 0, on |-> FALSE]
NoCall == [request |-> NoRequest, step |-> "idle", attempt |-> 1, stage |-> 1, held |-> {},
           wanted |-> <<>>, reads |-> NoReads, writes |-> NoWrites]

----------------------------------------------------------------------------
(* What each operation reads before it locks.                              *)

\* The manifest an order is aboard.
CarrierOf(o) ==
    IF \E m \in Manifests : o \in Aboard(m) THEN CHOOSE m \in Manifests : o \in Aboard(m) ELSE None

\* computeMatch: the version the match is computed from, 0 when r.corridor does
\* not qualify for the shop.
MatchedVersion(r) ==
    IF Qualifies(r.corridor) /\ location[ShopOf[r.order]] # 0 THEN geometry[r.corridor] ELSE 0

\* The unlocked reads of writeResolution and releasePooledOrder.
ReadsOf(r) ==
    IF r.op = "resolve"
    THEN [NoReads EXCEPT !.corridor = resolution[r.order].corridor, !.version = MatchedVersion(r)]
    ELSE IF r.op = "release"
    THEN [NoReads EXCEPT !.state = orderState[r.order], !.carrier = CarrierOf(r.order),
                         !.corridor = resolution[r.order].corridor]
    ELSE NoReads

----------------------------------------------------------------------------
(* The rows each operation locks, in order.                                *)

InOrder(S, rank) ==
    {s \in [1..Cardinality(S) -> S] : \A i, j \in DOMAIN s : i < j => rank[s[i]] < rank[s[j]]}

\* A statement without "order by" locks its rows in the order its plan meets them.
InAnyOrder(S) == {s \in [1..Cardinality(S) -> S] : \A i, j \in DOMAIN s : s[i] = s[j] => i = j}

\* The pool createManifest locks; it looks at staleness only afterwards.
Candidates(c) ==
    {o \in Orders \ Unweighed : orderState[o] = "POOLED" /\ resolution[o].corridor = c}
Existing(S) == {o \in S : orderState[o] # "NONE"}

\* The order rows of createManifest: the pool, oldest first, or the orders named.
SelectionPlan(r) ==
    IF r.automatic THEN InOrder(Candidates(r.corridor), Age) ELSE InOrder(Existing(r.orders), Id)

Present(x) == IF x = None THEN <<>> ELSE <<x>>
CorridorsOf(reads) ==
    {reads.corridor, IF reads.carrier = None THEN None ELSE manifest[reads.carrier].corridor} \ {None}

\* Mutant: the manifest is locked before the corridors.
ReleasePlanManifestFirst(r, reads) ==
    {Present(reads.carrier) \o s \o <<r.order>> : s \in InOrder(CorridorsOf(reads), Id)}

\* lockCorridorsAscending, lockManifest, lockOrderByInvoice.
ReleasePlan(r, reads) ==
    {s \o Present(reads.carrier) \o <<r.order>> : s \in InOrder(CorridorsOf(reads), Id)}

ResolvePlan(r, reads) ==
    IF reads.version = 0 THEN {<<>>}
    ELSE {s \o <<r.order>> : s \in InOrder({reads.corridor, r.corridor} \ {None}, Id)}

Stages(r) ==
    IF r.op = "create" THEN 3 ELSE IF r.op \in {"remove", "depart", "cancel", "record"} THEN 2 ELSE 1

\* The row sequences the statement of a stage may lock.
PlansAt(r, stage, reads) ==
    CASE r.op = "create" -> (CASE stage = 1 -> {<<r.corridor>>}
                               [] stage = 2 -> {<<r.vehicle>>}
                               [] stage = 3 -> SelectionPlan(r))
      [] r.op = "remove" -> IF stage = 1 THEN {<<manifest[r.manifest].corridor, r.manifest>>}
                            ELSE {<<r.order>>}
      [] r.op = "depart" -> IF stage = 1 THEN {<<r.manifest>>}
                            ELSE {<<manifest[r.manifest].vehicle>>}
      [] r.op = "cancel" -> IF stage = 1 THEN {<<r.manifest>>}
                            ELSE InAnyOrder(Returned(r.manifest))
      [] r.op = "record" -> IF stage = 1 THEN {<<r.manifest>>} ELSE {<<r.order>>}
      [] r.op = "close" -> {<<r.manifest>>}
      [] r.op = "release" -> ReleasePlan(r, reads)
      [] r.op = "resolve" -> ResolvePlan(r, reads)
      [] r.op = "intake" -> {<<>>}
      [] r.op \in {"geometry", "corridor"} -> {<<r.corridor>>}
      [] r.op = "vehicle" -> {<<r.vehicle>>}

----------------------------------------------------------------------------
(* What each operation checks and writes.                                  *)

\* What a call checks between two of its locking statements.
Continues(r, stage) ==
    CASE r.op = "create" -> IF stage = 1 THEN Qualifies(r.corridor) ELSE r.vehicle \in active
      [] r.op = "remove" -> Loadable(r.manifest) /\ orderState[r.order] # "NONE"
      [] r.op = "depart" -> CanTransition(status[r.manifest], "DEPARTED")
      [] r.op = "cancel" -> CanTransition(status[r.manifest], "CANCELLED")
      [] r.op = "record" -> /\ status[r.manifest] \in {"CLOSED", "DEPARTED"}
                            /\ delivery[<<r.manifest, r.order>>] # "NONE"

\* Mutant: the resolution does not compare the geometry version again.
MovedUnlessRedrawn(r, reads, held) ==
    \/ r.op = "release" /\ ReadsOf(r) # reads
    \/ /\ r.op = "resolve" /\ reads.version # 0 /\ Upserted(r.order) = "POOLED"
       /\ \/ r.corridor \notin active
          \/ resolution[r.order].corridor \notin held \cup {None}

\* FulfillmentRecheckConflict: what was read before the locks no longer holds.
\* writeResolution has refused an order that left the pool before it looks.
Moved(r, reads, held) ==
    \/ r.op = "release" /\ ReadsOf(r) # reads
    \/ /\ r.op = "resolve" /\ reads.version # 0 /\ Upserted(r.order) = "POOLED"
       /\ \/ r.corridor \notin active
          \/ geometry[r.corridor] # reads.version
          \/ resolution[r.order].corridor \notin held \cup {None}

\* The guard under which a call commits instead of answering with an error.
Allowed(r, reads) ==
    CASE r.op = "create" -> Openable(r.corridor, r.vehicle, r.planned)
      [] r.op = "remove" -> <<r.manifest, r.order>> \in allocated /\ Readable(r.manifest)
      [] r.op = "depart" -> Departable(r.manifest)
      [] r.op = "cancel" -> Cancellable(r.manifest)
      [] r.op = "record" -> Recordable(r.manifest, r.order, r.outcome)
      [] r.op = "close" -> Closable(r.manifest)
      [] r.op = "release" -> \/ reads.state = "POOLED"
                             \/ /\ reads.state = "ALLOCATED"
                                /\ r.state = "ORPHANED" \/ Loadable(reads.carrier)
      [] r.op = "resolve" -> IF reads.version = 0 THEN r.automatic
                             ELSE Upserted(r.order) = "POOLED"
      [] r.op = "geometry" -> geometry[r.corridor] < MaxGeometry
      [] r.op \in {"intake", "corridor", "vehicle"} -> TRUE

\* The order sets a creation may load: the walk over the candidates it locked,
\* or exactly the orders named.
Selections(r, held) ==
    LET locked == {o \in held \cap Orders : Eligible(o, r.corridor)}
    IN  IF r.automatic THEN {S \in SUBSET locked : IsWalk(S, locked, capacity[r.vehicle])}
        ELSE {S \in {r.orders} : S \subseteq locked /\ Load(S) <= capacity[r.vehicle]}

\* The values the program computes from its reads and sends with its writes.
Decisions(r, held) ==
    CASE r.op = "create" ->
            {[NoWrites EXCEPT !.orders = S, !.header = HeaderOf(r.corridor, r.vehicle, r.planned)] :
                S \in {T \in Selections(r, held) : T # {} /\ T \subseteq invoices}}
      [] r.op = "depart" -> {[NoWrites EXCEPT !.value = ServiceDay(r.manifest)]}
      [] r.op = "geometry" -> {[NoWrites EXCEPT !.value = geometry[r.corridor] + 1]}
      [] r.op = "vehicle" ->
            {IF r.patch = "active" THEN [NoWrites EXCEPT !.on = r.on, !.value = capacity[r.vehicle]]
             ELSE [NoWrites EXCEPT !.on = (r.vehicle \in active), !.value = r.grams]}
      [] OTHER -> {NoWrites}

Release(r, reads) ==
    IF reads.state = "POOLED" THEN SetState(r.order, r.state)
    ELSE IF r.state = "ORPHANED" THEN UNCHANGED vars
    ELSE Unload(reads.carrier, r.order, r.state, "ORDER_CANCELLED")

Resolve(r, reads) ==
    IF reads.version = 0 THEN SetState(r.order, Upserted(r.order))
    ELSE RecordResolution(r.order, [corridor |-> r.corridor, version |-> reads.version,
                                    location |-> location[ShopOf[r.order]]])

\* The committed writes of call k, whose creation draws the identifier m.
WritesOf(k, m) ==
    LET r == k.request w == k.writes
    IN  CASE r.op = "create" -> Open(m, w.header, w.orders)
          [] r.op = "remove" -> Unload(r.manifest, r.order, "POOLED", "REMOVED_BY_DISPATCHER")
          [] r.op = "depart" -> Depart(r.manifest, w.value)
          [] r.op = "cancel" -> Cancel(r.manifest)
          [] r.op = "record" -> Record(r.manifest, r.order, r.outcome)
          [] r.op = "close" -> Close(r.manifest)
          [] r.op = "release" -> Release(r, k.reads)
          [] r.op = "resolve" -> Resolve(r, k.reads)
          [] r.op = "intake" -> SetState(r.order, Upserted(r.order))
          [] r.op = "geometry" -> SetGeometry(r.corridor, w.value)
          [] r.op = "corridor" -> UpdateCorridor(r.corridor, r.on)
          [] r.op = "vehicle" -> UpdateVehicle(r.vehicle, w.on, w.value)

\* reserveVehicle hits the unique index: another manifest has the vehicle's day.
DayTaken(k) ==
    LET r == k.request
    IN  \/ r.op = "create" /\ r.planned # 0 /\ ~DayFree(r.vehicle, r.planned)
        \/ /\ r.op = "depart" /\ reservation[r.manifest] = NoReservation
           /\ ~DayFree(manifest[r.manifest].vehicle, k.writes.value)

----------------------------------------------------------------------------
(* The steps of a call.                                                    *)

LockedByOther(p, row) == \E q \in Callers \ {p} : row \in call[q].held

\* What a call looks up before it opens its transaction.
Admitted(r) ==
    CASE r.op \in {"intake", "resolve"} -> r.order \in invoices
      [] r.op = "release" /\ r.state = "CANCELLED" -> r.order \in invoices /\ orderState[r.order] # "NONE"
      [] r.op = "release" /\ r.state = "ORPHANED" -> r.order \notin invoices /\ orderState[r.order] = "POOLED"
      [] r.op \in {"remove", "close", "depart", "cancel", "record"} -> status[r.manifest] # "NONE"
      [] OTHER -> TRUE

Begin(p, r) ==
    /\ call[p].step = "idle"
    /\ Admitted(r)
    /\ call' = [call EXCEPT ![p].request = r, ![p].step = "reading"]
    /\ UNCHANGED vars

\* Whether the call's upsert inserts the order's row, waiting for a twin's insert.
Inserts(r) == r.op \in {"intake", "resolve"} /\ orderState[r.order] = "NONE"
UpsertWaits(p) == Inserts(call[p].request) /\ LockedByOther(p, call[p].request.order)

\* BEGIN, the upsert and the unlocked reads.
Read(p) ==
    LET r == call[p].request
    IN  /\ call[p].step = "reading"
        /\ ~UpsertWaits(p)
        /\ \E s \in PlansAt(r, 1, ReadsOf(r)) :
              call' = [call EXCEPT ![p].step = "locking", ![p].stage = 1, ![p].wanted = s,
                                   ![p].reads = ReadsOf(r),
                                   ![p].held = IF Inserts(r) THEN {r.order} ELSE {}]
        /\ UNCHANGED vars

Locking(p) == call[p].step = "locking"
Acquire(p) ==
    /\ Locking(p) /\ call[p].wanted # <<>>
    /\ ~LockedByOther(p, Head(call[p].wanted))
    /\ call' = [call EXCEPT ![p].held = @ \cup {Head(call[p].wanted)}, ![p].wanted = Tail(@)]
    /\ UNCHANGED vars

Ends == {"committed", "refused"}

\* Mutant: an ended call keeps its row locks.
EndKeepingLocks(p, end) == call' = [call EXCEPT ![p].step = end, ![p].wanted = <<>>]

\* COMMIT, or ROLLBACK with the answer an error.
End(p, end) == call' = [call EXCEPT ![p].step = end, ![p].wanted = <<>>, ![p].held = {}]

\* Mutant: attempts are not counted.
RetryForEver(p) == call' = [call EXCEPT ![p].step = "reading", ![p].wanted = <<>>, ![p].held = {}]

\* ROLLBACK and start again, or give up with fulfillment_contention.
Retry(p) ==
    IF call[p].attempt < MaxAttempts
    THEN call' = [call EXCEPT ![p].step = "reading", ![p].attempt = @ + 1,
                              ![p].wanted = <<>>, ![p].held = {}]
    ELSE End(p, "refused")

\* The next locking statement, or the error that replaces it.
Advance(p) ==
    LET r == call[p].request
    IN  /\ Locking(p) /\ call[p].wanted = <<>> /\ call[p].stage < Stages(r)
        /\ IF Continues(r, call[p].stage)
           THEN \E s \in PlansAt(r, call[p].stage + 1, call[p].reads) :
                   call' = [call EXCEPT ![p].stage = @ + 1, ![p].wanted = s]
           ELSE End(p, "refused")
        /\ UNCHANGED vars

\* The fresh reads under the locks.
Decide(p) ==
    LET r == call[p].request
    IN  /\ Locking(p) /\ call[p].wanted = <<>> /\ call[p].stage = Stages(r)
        /\ IF Moved(r, call[p].reads, call[p].held) THEN Retry(p)
           ELSE IF Allowed(r, call[p].reads) /\ Decisions(r, call[p].held) # {}
           THEN \E w \in Decisions(r, call[p].held) :
                   call' = [call EXCEPT ![p].step = "committing", ![p].writes = w]
           ELSE End(p, "refused")
        /\ UNCHANGED vars

Commit(p) ==
    /\ call[p].step = "committing"
    /\ IF DayTaken(call[p]) THEN End(p, "refused") /\ UNCHANGED vars
       ELSE End(p, "committed") /\ WritesOf(call[p], FreshId[p])

\* lock_timeout, or deadlock_timeout with the call as the victim.
TimeOut(p) ==
    /\ \/ Locking(p) /\ call[p].wanted # <<>> /\ LockedByOther(p, Head(call[p].wanted))
       \/ call[p].step = "reading" /\ UpsertWaits(p)
    /\ Retry(p)
    /\ UNCHANGED vars

\* The connection or the process dies; Postgres rolls back.
Disconnect(p) ==
    /\ call[p].step \in {"reading", "locking", "committing"}
    /\ End(p, "refused")
    /\ UNCHANGED vars

Progress(p) == Read(p) \/ Acquire(p) \/ Advance(p) \/ Decide(p) \/ Commit(p) \/ TimeOut(p)

LockingNext ==
    \E p \in Callers : Progress(p) \/ Disconnect(p) \/ \E r \in Requests : Begin(p, r)

LockingSpec == Init /\ call = [p \in Callers |-> NoCall] /\ [][LockingNext]_lockingVars

\* Node and Postgres serve every call they accepted.
Fairness == \A p \in Callers : WF_lockingVars(Progress(p))

----------------------------------------------------------------------------
(* Properties.                                                             *)

\* What the core says of a request: its transaction in one step.  An automatic
\* creation may miss an order that came back to the pool after its candidates
\* were read, so it is held to the explicit one.
Transaction(k, m) ==
    LET r == k.request
    IN  CASE r.op = "create" -> CreateExplicitly(m, r.corridor, r.vehicle, k.writes.orders, r.planned)
          [] r.op = "remove" -> RemoveOrder(r.manifest, r.order)
          [] r.op = "depart" -> DepartManifest(r.manifest)
          [] r.op = "cancel" -> CancelManifest(r.manifest)
          [] r.op = "record" -> RecordDelivery(r.manifest, r.order, r.outcome)
          [] r.op = "close" -> CloseManifest(r.manifest)
          [] r.op = "release" /\ r.state = "CANCELLED" ->
                \/ CancelPooledOrder(r.order)
                \/ \E n \in Manifests : CancelAllocatedOrder(n, r.order)
          [] r.op = "release" /\ r.state = "ORPHANED" ->
                \/ OrphanOrder(r.order)
                \/ orderState[r.order] = "ALLOCATED" /\ UNCHANGED vars
          [] r.op = "resolve" -> ResolveCorridor(r.order, r.corridor) \/ IntakeOrder(r.order)
          [] r.op = "intake" -> IntakeOrder(r.order)
          [] r.op = "geometry" -> UpdateGeometry(r.corridor)
          [] r.op = "corridor" -> UpdateCorridor(r.corridor, r.on)
          [] r.op = "vehicle" -> IF r.patch = "active"
                                 THEN UpdateVehicle(r.vehicle, r.on, capacity[r.vehicle])
                                 ELSE UpdateVehicle(r.vehicle, r.vehicle \in active, r.grams)

\* A call holds its own rows only, and none before it begins or after it ends.
CallsOK ==
    /\ \A p \in Callers :
          /\ call[p].request \in Requests \cup {NoRequest}
          /\ call[p].step \in {"idle", "reading", "locking", "committing"} \cup Ends
          /\ call[p].attempt \in 1..MaxAttempts
          /\ call[p].held \subseteq Rows
          /\ call[p].step \in {"idle", "reading"} \cup Ends => call[p].held = {}
    /\ \A p, q \in Callers : p # q => call[p].held \cap call[q].held = {}

\* The protocol implements the core: whatever calls interleave with it, time out or
\* die, a call that commits does at that instant what its transaction says of the
\* state it commits to, although it decided before on what it had read.
CommitsAreTransactions ==
    [][\A p \in Callers :
          call[p].step = "committing" /\ call'[p].step = "committed"
             => Transaction(call[p], FreshId[p])]_lockingVars

Waits(p, q) ==
    /\ p # q /\ Locking(p) /\ call[p].wanted # <<>>
    /\ Head(call[p].wanted) \in call[q].held

\* Corridors, vehicles and manifests are never part of a wait cycle: the only calls
\* that can deadlock are those that lock several orders in one statement.
OnlyOrdersDeadlock ==
    \A D \in SUBSET Callers :
        (\A p \in D : (\E q \in D : Waits(p, q)) /\ (\E q \in D : Waits(q, p)))
           => \A p \in D : Head(call[p].wanted) \in Orders

\* Retries end: every call gets an answer, however often it conflicts.
EveryCallEnds == \A p \in Callers : call[p].step # "idle" ~> call[p].step \in Ends
=============================================================================
