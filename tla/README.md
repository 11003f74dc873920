# Verification of soko.market

TLA+ models of soko.market's own core logic, checked with TLC, with theorems
proved by TLAPS. The program is a TypeScript monorepo: one API process
(`services/api`) that keeps most of its state in memory (`Cp2Store`, written to
Postgres asynchronously) and one subsystem, corridor fulfillment, whose
state lives in Postgres and is changed by row-locking transactions. Fulfillment
and its two borders, the store it takes orders from and the staff it gives trips
to, are where concurrency, failure and long-lived state meet; they are modelled.

## Inventory

| Component | State | Operations | Hard behaviour |
| --- | --- | --- | --- |
| Fulfillment orders (`fulfillment_orders`) | one row per confirmed delivery invoice: POOLED, ALLOCATED, DELIVERED, CANCELLED, ORPHANED | intake, cancel, orphan marking, and every manifest operation | repeated intake, order coming back after a failed stop |
| Corridor resolutions | current and superseded resolution of an order to a corridor, with geometry and location version | automatic and manual resolution | computed without locks, rechecked under them; stale when geometry or location moves |
| Corridors, vehicles, shop locations | active, geometry version, capacity, current location | create, update, geometry update, capture | edited while trips are being built |
| Manifests and stops | OPEN, CLOSED, DEPARTED, COMPLETED, CANCELLED; a stop's delivery status and whether it is active | create (automatic, explicit), remove, close, depart, cancel, record delivery | several dispatchers and drivers at once |
| Vehicle reservations | one active row per vehicle and service day | reserve when planned or departing, release when cancelled | planned day and actual day differ |
| Outbox | events in the transaction that causes them | append, deliver in order | a failing event holds back the rest |
| Row locks and retries | corridors, vehicles, manifests, orders | lock, recheck, bounded retry | deadlock, lock timeout, changed between read and lock |
| Dispatch policies | versioned lineages, one default | create, revise, set default | a corridor follows a lineage, a manifest keeps a version |
| Evaluation and approvals | one evaluation per corridor and day, one open approval | manual and scheduled evaluation, decision | manual run before the cutoff; decision then re-evaluation |
| Driver assignment | driver of a manifest, with membership | assign, release on membership change | leave and rejoin while a release is pending |
| Idempotency records | stored response per key | run once, replay, purge | concurrent twins, purge during lookup |
| Intake | in-memory confirmation, microtask listener, reconciler | notify, intake, resolve, reconcile | crash between any two of them |
| Logistics projection | in-memory delivery status | project after each commit | lost, late or reordered projections |
| Offline runtime and sync | leases, queued operations on a device | acquire, replay, resolve conflict | duplicated and reordered replay |
| Runtime handoff | handoff session with steps and expiry | offer, accept, transfer, complete | expiry racing acceptance |
| Resource control | bulkhead queue, circuit breaker, retry | run, reject, trip, probe | cancellation while queued, half-open probes |
| Staff | invitations and memberships | invite, accept, revoke, leave | accept racing revoke |
| Cp2Store persistence | in-memory maps, snapshot writer | mutate, flush, restore | crash before the flush |
| Sales, commerce | products, stock, invoices, payments, public orders | confirm, pay, cancel, accept | stock and payment conservation |
| Others | see `components` in `PROJECT.json` | | mostly I/O, presentation or record keeping |

How they interact: sales and commerce confirm an invoice in memory and notify
fulfillment's intake in a microtask; fulfillment transactions commit in Postgres
and afterwards project a delivery status back into memory; staff changes notify
the release of driver assignments; interval runners drive the reconciler, the
scheduled evaluation and the outbox worker.

What makes each correct: an order is on at most one trip and is handed over at
most once; a load never exceeds the capacity it was planned for and does not
change after closing; a loaded order keeps its route; a vehicle day belongs to
one trip; events mirror what was committed; every confirmed delivery order
eventually reaches the pool; every projection is eventually right; a key
runs its mutation once; locks are acquired without a cycle.

## Modules

| Module | What it is |
| --- | --- |
| `OrderLifecycle` | abstract: what fulfillment promises about one order's state and the status of its trip |
| `FulfillmentDispatch` | the committed state of fulfillment, one action per transaction; implements `OrderLifecycle` |
| `FulfillmentLocking` | the same transactions lock by lock, several calls at once; extends and implements `FulfillmentDispatch` |
| `FulfillmentIntake` | the store's orders, the intake and its reconciler, the projection back, restarts; implements `OrderLifecycle` |
| `WriteBehind` | abstract: what asynchronous persistence promises |
| `SnapshotPersistence` | save queue, changed-only writes, uncertain commits, shutdown; implements `WriteBehind` twice |
| `StaffMembership` | memberships and invitations of a business |
| `DriverAssignment` | a trip's driver against membership changes; extends `StaffMembership` |
| `PolicyBook` | abstract: calls on policies that act at one instant, under keys |
| `DispatchPolicies` | versioned policies and idempotency keys, lock by lock; implements `PolicyBook` |
| `DispatchEvaluation` | daily evaluations, approvals and the outbox worker; extends `DispatchPolicies` |
| `MC*` | instances for TLC |
| `*Proofs` | TLAPS proofs, see [Proofs](#proofs) |

### FulfillmentDispatch

A variable is a column, or a set of keys for a boolean one: `orderState`,
`resolution` (the current row; superseded rows are never read by an
operation), `active`, `geometry`, `location`, `capacity`, `status`, `manifest` (the
columns written once by createManifest), `total`, `departedOn`, `allocated` (stops
with `allocation_active`), `delivery`, `released`, `reservation` and `reserved`,
`outbox` (event keys) and `invoices` (the ones present in memory). `today` is the
business-local day. A stop is named by its manifest and order.

Each action is a whole transaction, with its guard and the rollbacks it can
suffer as a disabled action. `IntakeOrder`, `ResolveCorridor`, `CancelPooledOrder`,
`CancelAllocatedOrder`, `OrphanOrder` work on the pool; `UpdateGeometry`,
`UpdateCorridor`, `CaptureLocation`, `UpdateVehicle` on the setup;
`CreateAutomatically`, `CreateExplicitly`, `RemoveOrder`, `CloseManifest`,
`DepartManifest`, `CancelManifest` on manifests; `RecordDelivery`, with any of
its four outcomes, on stops. `LoseInvoice` is a restart that
loses a confirmation that had not been written, `NextDay` is the clock.

Abstractions: weights and capacities are small numbers of grams; `Load` counts
grams, so that no recursion is needed; the walk of automatic allocation is stated by what
it selects (`IsWalk`), which determines the selection. Which corridor qualifies
for a shop's position is any active governed one. Policies are reduced to whether
a corridor has one. Roles, parsing, road order, notes and timestamps are left out.
`Readable` is in every operation that returns a manifest summary, because the
summary reads each stop's invoice inside the transaction and throws when it is gone.

### FulfillmentLocking

Each caller runs one request in `withFulfillmentTransaction`: `Begin` (what is looked up
before the transaction), `Read` (BEGIN, the upsert, the reads without locks), `Acquire` (one
row lock), `Advance` (the check between two locking statements), `Decide` (recheck and
fresh reads), `Commit`; `TimeOut` is a lock or deadlock time-out, `Disconnect` a lost
connection. `PlansAt` gives the rows every operation locks and in which order: by id, by
age, or in any order where the statement does not say. A recheck that fails and a time-out
roll back and retry up to `MaxAttempts`; an order that left the pool is refused before the recheck of a
resolution, as in `writeResolution`.

`Decide` stores the values the program has computed by then (the selected orders, the
capacity and geometry version of the header, the next version, the columns an update
writes back); `Commit` applies them to whatever the state is at that moment, with the effect operators of
`FulfillmentDispatch` (`Open`, `Close`, `Depart`, `Record`, ...), while what SQL computes is
computed from the current state. So a missing lock or recheck shows as a commit the core
does not allow. The unique index on active stops and the CHECK on capacity are left out on
purpose: the protocol never needs them. The unique index on vehicle days is kept, since
`reserveVehicle` answers from it.

Consecutive reads before the first lock are one step. Locks taken by foreign keys
(KEY SHARE), on stop rows, shop locations and idempotency records are not modelled; the
day, the invoices and the locations do not change while calls run.

### FulfillmentIntake

Two sides that commit separately. `memory` is the invoice and the logistics record of an order in
`Cp2Store`, `saved` the snapshot a restart loads, `row` the order's row and the state of the trip it is
on. `tasks` are `intakeOrder` calls in flight, with their two transactions (`IntakeUpsert`,
`IntakeResolve`); `sweep` is `reconcileIntake` with its phases: take in at most `BatchSize` orders that
have no weighed row, read the pooled rows, ask the store which of their invoices exist, flag the others
one by one. `projections` are statuses that committed operations have yet to write to a logistics
record: `Project` applies one in any order, or skips it, as `validateLogisticsStatusTransition`
says. `Restart` goes back to `saved` and drops whatever was in flight. The trips are reduced to
the steps an order can see; `FulfillmentDispatch` has the rest.

An order resolved before weights were stored (`Legacy`) has a row without one; the reconciler takes
it in again. A merchant may write a status by hand (`Manual`), and `ProjectionTrue` says nothing of what was
written so.

### SnapshotPersistence

`memory`, `database`, `baseline` (`lastPersistedSnapshot`), `attempted` (the clone the active save
works on) and `forced` (`forcedRemovalChecks`) are functions or sets over records; the other variables are the flags
of `postgres-store.ts`. A record is absent or has one of a few contents, and a collection stands for each
way the code writes: row by row, as a whole, the sync journal in its own transaction, passkey ceremonies
by operations of their own. A save is `StartSave`, `CommitRecords`, `CommitJournal`, or one of the two
failures; a failing transaction may have committed (a lost acknowledgement). `Write` joins the change and
`enqueueSave`; for a method that returns a promise the proxy enqueues when the promise resolves, before the
caller is answered, so "idle" in `IdleMeansStored` also means that no such method is under way. `Restart` and
the start load what is stored, without the repairs of `hydrateSnapshot`: in the code these are in memory
only until the first save, which writes them like any change. `Close`, `FinishClose` and
`Retry` are the shutdown with its final attempts and the retry timer.

`WriteBehind` is the promise: memory changes, the next copy is taken, the copy is stored as a whole, a
restart goes on from what is stored. The refinement maps `attempted` to the copy, once for the
collections and once for the journal.

### StaffMembership and DriverAssignment

`memberships` and `invitations` are maps of the process, changed in one step per call: invite, revoke,
decline, accept, expire, change a role, remove, leave. `sales_agent`, `cashier` and
`view_only` are one role, since they have one rank and neither invite nor deliver; a phone or an email belongs to
one person throughout.

A trip is a row with a driver. A request takes its time and its caller's permissions at the
start (`Ask`), locks and checks (`LockTrip`), and commits (`CommitAssign`, `CommitMove`). A membership change decides
in its own step whether a release is needed (`Notify`) and the release clears trips in a
later one (`ReleaseTrips`), or is lost (`LoseRelease`). Trip statuses are merged into unfinished and finished.
`grant`, `movedAt`, `joinedAt` and `told` are history variables; `MCRejoin` adds the time a trip was given (`givenAt`).

### DispatchPolicies and DispatchEvaluation

A call goes from `Ask` through `ClaimKey` (or `LookAgain` and `Replay` when the key has a record),
`LockLineage` and `LockSettings` to `Commit`; the locks it holds follow from how far it is. `Purge` deletes
a record after its retention. What a policy says is abstracted; only its
lineage, version and who is active or the default remain. An answer is
the lineage and version it shows; whether it calls them the default is left out, for that is read without the lock.
`PolicyBook` has the same calls without locks: a request, then at one instant its change, its recorded answer or its failure.

An evaluation reads the policy and the pool (`Evaluate`) and stores what it found in a later statement
(`StoreEvaluation`), or is given up (`Abandon`); the scheduled sweep keeps the day it began on. The pool
is reduced to the outcome, FALLBACK is treated as WAIT because it leaves the same trace, and the cutoff
is nondeterministic. `Deliver` and `FailToDeliver` are the single outbox worker, oldest event first.

### Properties

| Property | Says |
| --- | --- |
| `AllocationCoherent` | ALLOCATED exactly when one stop still carries the order; never two active stops |
| `DeliveredOnce` | DELIVERED exactly when one stop says so |
| `NeverOverloaded` | totals are what is aboard and never exceed the capacity snapshot |
| `NoStrandedTrip` | a closed or departed trip has a stop left to deliver, a finished one none |
| `ClosedLoadFrozen` | after closing, nothing is loaded, the total stays, and a stop leaves only by failure or cancellation |
| `FinishedOrdersStayFinished` | no call revives a delivered, cancelled or orphaned order |
| `FollowsLifecycle` | an order and its trip move together as `OrderLifecycle` allows (loaded only while open, handed over or failed only once closed, cancelled only before), in `FulfillmentDispatch` and in `FulfillmentIntake` |
| `RouteIsCurrent` | a loaded order's resolution is of its manifest's corridor and geometry version |
| `VehicleDayOwned` | one trip per vehicle and service day; departed trips own theirs, cancelled ones none |
| `OutboxMirrorsTrips` | the outbox says exactly what was committed |
| `CallsOK` | no row is held by two calls, and none outside a call |
| `CommitsAreTransactions` | every commit is the core's transaction at that instant: the protocol implements `FulfillmentDispatch` |
| `OnlyOrdersDeadlock` | corridors, vehicles and manifests are never part of a wait cycle |
| `EveryCallEnds` | every call is answered |
| `OrphanIsGone` | an order is written off only when no memory and no snapshot has its invoice |
| `ProjectionTrue` | the status shown is never ahead of what fulfillment has done |
| `EveryOrderTakenIn`, `EveryOrphanFlagged` | the reconciler makes up for lost intakes and lost invoices |
| `IdleMeansStored` | with nothing queued and no error, memory is in the database |
| `CleanCloseLosesNothing` | `close()` ends without error only over saved data |
| `CoreIsACopy`, `JournalIsACopy` | the database only ever takes whole snapshots, in order (`WriteBehind`) |
| `EventuallyStored` | an open store becomes durable without a further call |
| `OneMembership` | two invitations to one person never make two memberships |
| `InvitationsBacked` | a waiting invitation has an inviter who may still grant its role, one per destination |
| `DriverIsMember` | an unfinished trip is with a member who may deliver, or its release is under way or was lost |
| `RejoinedClean` | who rejoins finds no trip of the earlier membership but those a change dated at or after the join has touched: the one exception to what the document promises, which is `NeverGetsStaleTrips` and false |
| `DriversWorkTheirOwn` | a driver who does not dispatch moves only the trip that is theirs at that moment |
| `DriverEventsChain` | each `manifest.driver_assigned` event starts from the driver of the one before |
| `KeyedOnce` | a key changes something once until its record is purged, and its answers agree |
| `RevisionsChain` | versions of a policy have no gaps, and the newest is the active one |
| `CallsAreAtomic` | a call acts at one instant, over the version and default its caller expected and under a key without a record, or not at all (`PolicyBook`) |
| `ApprovalsCoherent` | approvals keep the version of their evaluation, one open per corridor, and are announced |
| `DecisionsStand` | no evaluation takes back a decision |
| `EveryEventHeard` | every outbox event is heard in the end |

## Runs

| Run | Bounds | Shows |
| --- | --- | --- |
| `dispatch_allocation` | 3 orders of 2, 2 and 1 grams, 2 manifests, a vehicle of 3 grams that is edited | the walk has to skip; an order can fail on one trip and leave on the other |
| `dispatch_fleet` | 2 orders, 1 corridor redrawn and switched off, 2 manifests, 1 vehicle, 2 days, 1 losable invoice | planned and unplanned departures compete for two days while resolutions go stale |
| `locking` | every pair of 20 requests with 2 attempts, and every three of 6 over one trip in their last attempt, from 8 states of one loaded trip and waiting orders | the locks and rechecks suffice: `CommitsAreTransactions`; wait cycles of two and three calls; retries end |
| `persistence` | 4 records (one row by row, one whole, two of the journal) and a ceremony, 3 writes, 2 faults, 2 final attempts | a save, its failure and its repair overlap with new writes, and with `close()` |
| `intake` | a new order and a legacy one, batches of 1, 1 failure, 1 restart | everything that can be missed between memory and rows is made up for |
| `drivers` | 3 people, 3 destinations, 2 invitations, 1 trip, 1 call, 2 instants, 1 lost release | leave, rejoin, promotion and demotion around an assignment and a late release |
| `evaluation` | 2 callers, 3 keys, 2 lineages of 3 versions, 1 purge, 1 corridor, 2 days | calls race for keys, versions and the default while a corridor is evaluated |
| `departure_skipped` | as `dispatch_fleet` | violation: CLOSED to COMPLETED without departing |
| `lost_invoice_allocated` | 2 orders, 1 manifest, no edits | violation: an allocated order whose invoice is lost is never flagged |
| `persistence_ceremony` | 1 record, 1 ceremony, 1 fault | violation: a successful save leaves a taken ceremony in its table |
| `lost_confirmation` | 1 order, 1 restart | violation: an order whose confirmation is lost stays in the pool |
| `stale_on_rejoin` | as `drivers`, with the dispatcher closing the trip | violation: a returning driver keeps a trip of the earlier membership |

### Bounds

Two manifests are enough for an order to be on one while another is built, and
for two trips to compete for a day; three orders for a walk that takes, skips and
takes. `MaxGeometry`, `MaxLocation`, `MaxDay`, `MaxClock`, `MaxVersion` and `MaxLineages` bound counters,
`MaxWrites`, `MaxFaults`, `MaxFailures`, `MaxCrashes`, `MaxLost`, `MaxPurges` and `MaxInvitations` what may happen
how often; each appears in the guard of an action.

A retry of a transaction repeats the same steps, so two attempts show everything a third one would; conflicts between
calls are pairwise, and three calls are the least that could form a longer wait cycle. The starting
states of `locking` are reachable: a trip of two orders of one corridor, open or closed, with
orders waiting, one of them possibly without its invoice.

Two faults are what `persistence` needs: a failed save whose commit landed, and one more while it is
repaired. Two journal records let a delete pass be owed for one while the other changes. In `intake` one
restart may come at any point between a call and the save that covers it; with batches of one, the
second order always waits for the next sweep. In `drivers` two invitations let a person come
back once, which is when an old release or an old request is dangerous; two instants order a change
before or after a join. Only `depart` moves the trip on in that run: it changes `updated_at` and leaves the trip
unfinished, while one that is finished is out of every property there. The limit on waiting invitations (`MaxPending`) equals `MaxInvitations` there, since one
person needs two at once, so the run cannot exceed it: that part of `InvitationsBacked` is shown by the theorem
`InvitationsStayBacked` only. The two requests of a pair in `locking` have begun, since a call may take its
first step at any time, and three calls are given their last attempt, since a retry repeats the same steps. In `evaluation` two callers contend, and a third key is one that nobody contends
for; one purge separates two lives of a record; two days give an evaluation an earlier one to find open.

### Deadlock and fairness

Deadlock of the model is checked where the system goes on for ever (the dispatch runs, `drivers`,
`evaluation`). `locking` ends when every call is answered, and wait cycles are a property there;
`persistence` and `intake` end when their bounds are used up.

Fairness, and why the code gives it:

- `lost_invoice_allocated`: the reconciler runs on an interval timer for as long as the process lives.
- `locking`: a call that can take a step takes one. Node and Postgres serve accepted calls, and a
  call that waits for a lock is ended by `lock_timeout`.
- `persistence`: the event loop runs queued operations and timers, and Postgres answers or a time-out does.
- `intake` and `lost_confirmation`: sweeps follow each other, and a task in flight ends. Dispatchers, drivers and customers owe
  nothing. A failing intake is not retried by its own task; only the next sweep helps.
- `evaluation`: strong fairness of a delivery. The worker runs every interval, and the property assumes
  that no event fails for ever. Without that it is false: a poisonous event holds back
  the later ones, because a batch ends at its first failure.

## Findings

- `recordDelivery` completes a CLOSED manifest, which the transition table called
  "the single authoritative Phase 2 manifest state-machine transition check" does not allow. Such a trip has no departure,
  no reservation for its day and no `manifest.departed` event.
- An order whose invoice is lost while it is on a manifest is not marked
  ORPHANED, and its manifest accepts no further operation, since each of them reads
  the lost invoice and rolls back. The plan asks for every such row to be flagged.
- A passkey ceremony is written by an operation of its own. If it is reported as failed
  although it committed, nothing makes a later snapshot save look at the table, so a
  ceremony taken meanwhile stays there, although a comment says that a snapshot save
  "writes everything (passkey ceremonies included)".
- A restart that loses only the confirmation of an order turns it back into a draft. The
  reconciler looks for invoices that no longer exist, so the row stays in the pool, though its
  comment names "an unpersisted confirmation lost in a crash".
- A driver whose leave was not released (the release failed) comes back, and the trip is closed or departed
  between the join and the release of the join, or by a request in flight then. That release takes only trips
  whose `updated_at` is before the join (`dispatch.ts:1659`), so the driver keeps the trip. This contradicts
  `docs/architecture/corridor-fulfillment.md:1083-1086`, by which accepting releases "every trip assigned to them before
  the moment they joined, [...] so a returning driver never gets stale trips back", and line 1076, "a
  re-invited former driver starts with no trips". `NeverGetsStaleTrips` states that promise, for trips given at
  an earlier time than the join, and fails; `RejoinedClean`, which holds and is proved, says that a change so
  dated is the only way.
- The header of `dispatch.ts` gives one lock order, "identical in every operation", with vehicles
  before manifests; `departManifest` locks the manifest first. `OnlyOrdersDeadlock` shows that no
  wait cycle follows.

Met while modelling, reachable in the models and left without a run. Two go against the other half of the
same sentence, "while trips given to them after joining are kept"; the trip is left unassigned, which a
dispatcher sees:

- A release caused by leaving has no time limit, so a late one also clears a trip assigned after a rejoin.
- An assignment asked for before a join may commit after it; it is dated before the join, and a later release
  of the join clears it.

Of the others no text of the repository decides whether they are wrong:

- After a lost release, a person whose role is changed back finds the trip still theirs.
- A manual evaluation before the cutoff takes the day, and the scheduled one finds it stored.
- An approval left open from yesterday absorbs the one of today, whose event is sent all the same.
- A sweep that began before midnight may store the earlier day after the later one; whether the
  threshold was crossed is then judged against the later day.

## Proofs

The proofs assume only the named assumptions on constants (finite sets of orders, positive weights and
bounds, disjoint collections, sentinels that are no values). They hold for any number of orders, trips, people,
calls, records and failures. Every invariant, action property and refinement that the passing
runs check is proved; only liveness stays with TLC. Three arguments carry most of it: inductive
invariants of committed state, the row locks that make calls behave as the transactions of that state, and
refinements of abstract specifications.

`FulfillmentDispatchProofs`:

- `TypeCorrectness`: `TypeOK` is invariant. `Load` of a set of orders is a natural
  number because the grams form a finite set (`LoadIsNat`).
- `AllocationSafety`: `AllocationCoherent`, `DeliveredOnce` and `NoStrandedTrip` are
  invariant. None is inductive alone: loading a pooled order is safe only
  because no stop of it is active, which needs `DeliveredOnce` (an active stop may be a
  delivered one) and `StopRows` (an active stop is pending, arrived or delivered;
  a manifest not yet created has no stops). Closing keeps `NoStrandedTrip` because
  the stops of an open manifest are pending. `AllocationInv` is the
  conjunction; one lemma per shape of step shows that it is preserved.

`FulfillmentTripProofs` reduces every step to seven shapes (`StepCases`) and proves

- `LoadsFit` (`NeverOverloaded`). `WalkFits`: the walk's youngest order was weighed with all the
  others, so the whole selection fits; `GreatestExists` gets that order from the
  well-foundedness of strict inclusion, without an induction. A load is monotone, so the
  steps after the creation only make it lighter.
- `WalkIsDetermined`, `NothingToAllocate`, `YoungerDoNotDisplace`: what the walk selects, for any candidates and any
  limit. The first justifies the model's `IsWalk`: exactly one selection satisfies it, so stating what the loop
  selects says as much as running it. It is empty only if no candidate fits alone, and later
  orders never displace earlier ones.
- `LoadsFreeze` (`ClosedLoadFrozen`) and `FinishedIsFinal` (`FinishedOrdersStayFinished`), the action
  properties. The second needs `AllocationInv`: a removal or a recorded outcome is safe
  only because the order of an open stop is ALLOCATED.
- `RoutesStayCurrent` (`RouteIsCurrent`): an order is loaded while its resolution is fresh
  and is not resolved while loaded (`LoadedKeepsRoute`).
- `VehicleDaysOwned` (`VehicleDayOwned`) from `ReservationInv`: a manifest that was ever reserved
  and not cancelled still holds its day, so the departure of a planned trip, which
  inserts nothing, does own one.
- `OutboxTellsTheTrip` (`OutboxMirrorsTrips`), which needs `StopRows`.
- `OnlyDepartureIsSkipped`: a manifest's status moves along the table of `canTransitionManifest`, except that
  recording the last outcome at the depot completes a closed trip. The first finding is that exception, and the
  theorem says that it is the only one. No trip has a departure date before it departs, and every DEPARTED one has its own.
- `OrdersFollowLifecycle` (`FollowsLifecycle`): each transaction is one step of `OrderLifecycle`, on one
  order or on the orders of a manifest, or none. An order's trip is the one whose open stop carries it (`TripOf`);
  that there is at most one is `AllocationCoherent`, and what a step does to the others (`TripStays`) needs it.

`FulfillmentLockingProofs` is about calls that interleave lock by lock, from the empty store on, for any rows, requests and
calls. Assumed are `CallSettings` and `RowsAreApart`: requests are what the routes parse, two calls never draw the
same UUID, no two rows share an id, and a row belongs to one table. `LockingInv` joins the committed state
(`AllocationInv`, and the foreign keys in `Keyed`) with, for each call,

- `Claimed`: the rows its decision and its writes depend on, stage by stage (`StageClaims`), are locked or queued;
- `Admissible`, `Matched`, `Upserting`, `RowsExist`: what it looked up before its locks and nobody can undo;
- `Checked`: what a removal checked at its first stage still holds at the second;
- `Decided`: what it is about to commit is still what its locks let it decide.

`DecisionKept` is the heart: a commit of another call touches only rows that call holds (`CommitKeeps`), hence none of
the rows this one claimed. So the optimistic reads that are not locked (the pool, the vehicle day, a geometry
version) are exactly those that a lock of something else, or the recheck, covers. From `LockingInv` follow

- `CallsStayOK` (`CallsOK`) and `CommitsImplement` (`CommitsAreTransactions`);
- `LockingImplementsDispatch`: `LockingSpec => Spec`. With it `InterleavedTripsAreSafe` carries every
  theorem about the atomic transactions over to calls that interleave.
- `DeadlocksAreAmongOrders` (`OnlyOrdersDeadlock`): a queue ascends through corridors by id, then manifests,
  vehicles, orders (`OrderInv`; the proof finds this order, the header of `dispatch.ts` names another), so the rows
  a wait cycle waits for cannot ascend for ever and are all orders.
- `EveryStepAdvances`: attempts, then phases, then rows still to lock, descend with every step of a call. Each of
  them is bounded, so a call takes finitely many steps. That it does take them is fairness, and `EveryCallEnds` checks it.

The runs start from trips already loaded, to reach the interesting conflicts at once; the theorems start from the
empty store.

`SnapshotPersistenceProofs`: `PersistenceInv` says what the code relies on. `BaselineTrue`: what the baseline claims of a
record is in the database, and where it claims nothing there is nothing, or the
collection is in `forced`. That is why a save may skip what did not change, even after a
failure whose commit may have landed (`AfterFailure`), and gives `RecordsAreStored` and `JournalIsStored`: a
changed-only write stores the whole snapshot. `Asked`: what the last save did not take is queued
or requested. From these `ConfirmedMeansStored`, `CleanCloseIsComplete` and the
refinements `CoreIsWrittenBehind` and `JournalIsWrittenBehind`.

`FulfillmentIntakeProofs`: `IntakeInv`. An invoice that is not in memory is not in the snapshot either
(`LostForGood`), and a sweep only flags such orders (`Drawn`), whatever happens between its steps:
`WrittenOffIsGone`. `Shown` holds what is to be projected, and what is saved, to the same standard as what is shown, and
`OnTrip` gives that a trip's order has not ended: `ShownIsTrue`. Rows move, with the status of their trip, by single legal
moves (`Moves`): `RowsFollowLifecycle`. `IntakeTypeCorrect` is the first conjunct; a restart makes memory what the
snapshot holds, so both need their type.

`DriverAssignmentProofs` begins with the lemmas about `StaffMembership`: the invariant `StaffInv` adds to
`OneMembership` and `InvitationsBacked` that every membership comes from its invitation, now closed.
`DriverInv` ties the locks to the calls that hold them (`LocksMatch`), says that what a call read under a lock is
still so (`LockedReads`), and that a trip's driver is either `Covered` by a membership or by a release that will come
(`TripsGivenWell`); `AssignsWell` says it of the assignment about to commit. Theorems: `DriverSafety`, `DriversAreMembers`,
`ReturnersStartClean`, `DriversWorkOnlyTheirOwn`, `DriverEventsAreChained`, `OneMembershipEach`,
`InvitationsStayBacked`, `DriversTypeCorrect`.

`DispatchPoliciesProofs`: `PoliciesInv`. A key, a lineage and the settings row are held by one call
(`HeldByOne`), a key being claimed has no record (`ClaimedIsNew`), and what a call read under its locks
still holds (`ReadIsCurrent`); so `KeysRunOnce` and `RevisionsFormChains`. `CallsActAtomically` (`CallsAreAtomic`) is the
refinement: taking locks is silent (`LockingIsSilent`), and a commit is one change of `PolicyBook` (`CommitIsChange`), since
what it read under its locks is still so and its key is still new.
`DispatchEvaluationProofs` adds what an evaluation in flight knows of its day (`EvaluationInv`):
`ApprovalsStayCoherent`, `DecisionsAreFinal`, `EvaluationTypeCorrect`.

Model-checked only: liveness (`EveryCallEnds`, `EventuallyStored`, `EveryOrderTakenIn`, `EveryOrphanFlagged`,
`EveryEventHeard`). Under weak or strong fairness it needs ENABLED of the actions, which is out of this prover's
reach. The five findings with a run are counterexamples that TLC shows.

## Plan

1. That a working call can always take a step, time-outs apart (every locking statement has a plan, every
   decision an answer): the safety half of `EveryCallEnds` beside `EveryStepAdvances`.
2. `RuntimeHandoff`: the steps of a handoff against its expiry. `OfflineSync`: leases, replay and
   deduplication of what a device queued.
3. `ResourceControl`: bulkhead queue, circuit breaker, retry.
4. Sales and commerce: stock and payments over the life of an invoice and of a public order.

## Not modelled

`PROJECT.json` lists every part with its reason. In short: presentation (web,
Android), request parsing and authorization, calls to models, mail, SMS and OCR,
and record-keeping domains whose operations are independent inserts and updates.
That is most of the code: the files with concurrency and failure of their own are a small part
of it, so the share of lines mapped is small and stays so.

Left out of what is modelled: the deletion of a business, the dating of identity links and
join links (staff); the boot backfill and health of the store (persistence); geometry and
road order, roles and notes (fulfillment); edits of a draft, and its weight (intake);
that releases which every leaver needs do end (`DriverAssignment` states no liveness: nothing retries a lost one).
