------------------------- MODULE FulfillmentIntake -------------------------
(***************************************************************************)
(* How confirmed orders cross from the in-memory Cp2Store to the rows of   *)
(* corridor fulfillment, and how fulfillment's progress comes back as the  *)
(* status of the order's logistics record.                                 *)
(*                                                                         *)
(* The two sides commit separately.  The store's memory is saved as whole  *)
(* snapshots (SnapshotPersistence) and a restart goes back to the last     *)
(* one; the rows are committed at once.  Between them run the intake tasks *)
(* the listener starts, the reconciler that repeats what they missed, and  *)
(* the projections an operation applies after its transaction committed.   *)
(* FulfillmentDispatch has the trips themselves; here a row only says      *)
(* whether its order is on one, and how far that trip is.                  *)
(***************************************************************************)
EXTENDS Naturals, FiniteSets

CONSTANTS
    Orders,       \* invoice identifiers of one business, drawn at random
    Legacy,       \* orders resolved before rows had a weight
    Manual,       \* <<order, status>>: what the merchant also writes by hand
    Dispatched,   \* orders a dispatcher acts on
    BatchSize,    \* intakes one reconciliation attempts
    MaxFailures,  \* bound on failing intakes and orphan marks
    MaxCrashes    \* bound on restarts

FulfillmentStatus == {"pending", "ready", "out_for_delivery", "completed", "cancelled"}

ASSUME OrderSets ==
    /\ IsFiniteSet(Orders)
    /\ Legacy \subseteq Orders
    /\ Manual \subseteq Orders \X FulfillmentStatus
    /\ Dispatched \subseteq Orders
ASSUME Bounds == BatchSize \in Nat \ {0} /\ MaxFailures \in Nat /\ MaxCrashes \in Nat

VARIABLES
    drawn,        \* identifiers already used
    memory,       \* [Orders -> Order], the store's invoices and logistics records
    saved,        \* [Orders -> Order], the snapshot a restart loads
    row,          \* [Orders -> Row], fulfillment_orders and the trip the order is on
    answered,     \* orders in the stored response of a createManifest
    tasks,        \* intakeOrder calls in flight
    sweep,        \* the reconciliation in flight
    projections,  \* statuses committed operations still have to project
    failures,
    crashes

storeVars == <<drawn, memory>>
rowVars == <<row, answered>>
processVars == <<tasks, sweep, projections>>
vars == <<storeVars, saved, rowVars, processVars, failures, crashes>>

Order == [invoice : {"none", "draft", "confirmed"},
          method : {"none", "delivery", "pickup"},
          status : {"none"} \cup FulfillmentStatus]
Row == [state : {"NONE", "POOLED", "ALLOCATED", "DELIVERED", "CANCELLED", "ORPHANED"},
        weighed : BOOLEAN,     \* weight_status is not null
        resolved : BOOLEAN,    \* has a current corridor resolution
        trip : {"NONE", "OPEN", "CLOSED", "DEPARTED"}]
Task == [order : Orders, by : {"request", "reconciler"},
         step : {"upsert", "resolve"}]
Sweep == [phase : {"idle", "intake", "read", "flag"}, todo : SUBSET Orders, left : 0..BatchSize]

NoOrder == [invoice |-> "none", method |-> "none", status |-> "none"]
NoRow == [state |-> "NONE", weighed |-> FALSE, resolved |-> FALSE, trip |-> "NONE"]
IdleSweep == [phase |-> "idle", todo |-> {}, left |-> 0]

Confirmed(o) == memory[o].invoice = "confirmed"
Candidate(o) == Confirmed(o) /\ memory[o].method = "delivery"

\* validateLogisticsStatusTransition.
CanFollow(status, next, method) ==
    \/ status = next
    \/ status = "pending" /\ next \in {"ready", "cancelled"}
    \/ status = "ready" /\ next \in {"completed", "cancelled"}
    \/ status = "ready" /\ next = "out_for_delivery" /\ method = "delivery"
    \/ status = "out_for_delivery" /\ next \in {"completed", "cancelled"} /\ method = "delivery"

----------------------------------------------------------------------------
(* The store: synchronous calls on memory.                                 *)

CreateInvoice(o) ==
    /\ o \notin drawn
    /\ drawn' = drawn \cup {o}
    /\ memory' = [memory EXCEPT ![o].invoice = "draft"]
    /\ UNCHANGED <<saved, rowVars, processVars, failures, crashes>>

\* notifyFulfillmentIntake: the microtask queued for an order that is confirmed and
\* has a delivery record, whichever of the two came last.
Notified(o) ==
    IF Candidate(o)' THEN tasks \cup {[order |-> o, by |-> "request", step |-> "upsert"]}
    ELSE tasks

ConfirmInvoice(o) ==
    /\ memory[o].invoice = "draft"
    /\ memory' = [memory EXCEPT ![o].invoice = "confirmed"]
    /\ tasks' = Notified(o)
    /\ UNCHANGED <<drawn, saved, rowVars, sweep, projections, failures, crashes>>

CreateLogistics(o, method) ==
    /\ Confirmed(o)
    /\ memory[o].method = "none"
    /\ memory' = [memory EXCEPT ![o].method = method, ![o].status = "pending"]
    /\ tasks' = Notified(o)
    /\ UNCHANGED <<drawn, saved, rowVars, sweep, projections, failures, crashes>>

UpdateLogisticsStatus(o, status) ==
    /\ <<o, status>> \in Manual
    /\ memory[o].method # "none"
    /\ status # memory[o].status
    /\ CanFollow(memory[o].status, status, memory[o].method)
    /\ memory' = [memory EXCEPT ![o].status = status]
    /\ UNCHANGED <<drawn, saved, rowVars, processVars, failures, crashes>>

\* applyFulfillmentLogisticsStatus: a transition the record does not allow is
\* skipped, and so is an order without a record.
Project(o, status) ==
    /\ <<o, status>> \in projections
    /\ projections' = projections \ {<<o, status>>}
    /\ memory' = [memory EXCEPT ![o].status =
                     IF memory[o].method # "none"
                        /\ CanFollow(memory[o].status, status, memory[o].method)
                     THEN status ELSE @]
    /\ UNCHANGED <<drawn, saved, rowVars, tasks, sweep, failures, crashes>>

SaveSnapshot ==
    /\ saved # memory
    /\ saved' = memory
    /\ UNCHANGED <<storeVars, rowVars, processVars, failures, crashes>>

\* The API stops and boots from its snapshot; whatever was in flight is gone.
Restart ==
    /\ crashes < MaxCrashes
    /\ crashes' = crashes + 1
    /\ memory' = saved
    /\ tasks' = {}
    /\ sweep' = IdleSweep
    /\ projections' = {}
    /\ UNCHANGED <<drawn, saved, rowVars, failures>>

----------------------------------------------------------------------------
(* intakeOrder: one transaction for the row, another for its corridor.     *)

\* Mutant: filling in the weight puts the order back in the pool.
UpsertedAfresh(o) ==
    IF row[o].state = "NONE" THEN [NoRow EXCEPT !.state = "POOLED", !.weighed = TRUE]
    ELSE [row[o] EXCEPT !.state = "POOLED", !.weighed = TRUE]

\* upsertFulfillmentOrder: a new row is pooled, an old one only gets its weight.
Upserted(o) ==
    IF row[o].state = "NONE" THEN [NoRow EXCEPT !.state = "POOLED", !.weighed = TRUE]
    ELSE [row[o] EXCEPT !.weighed = TRUE]

SetRow(o, r) == row' = [row EXCEPT ![o] = r]

\* A confirmed invoice does not change while the process lives, so the reference
\* read before the transaction is the one it commits.
IntakeUpsert(t) ==
    /\ t \in tasks
    /\ t.step = "upsert"
    /\ SetRow(t.order, Upserted(t.order))
    /\ tasks' = (tasks \ {t}) \cup
                (IF row'[t.order].state = "POOLED" /\ ~row'[t.order].resolved
                 THEN {[t EXCEPT !.step = "resolve"]} ELSE {})
    /\ UNCHANGED <<storeVars, saved, answered, sweep, projections, failures, crashes>>

\* resolveCorridorAsSystem: without a match the order stays in the pool,
\* unassigned; with one it must still be pooled.
IntakeResolve(t, match) ==
    /\ t \in tasks
    /\ t.step = "resolve"
    /\ SetRow(t.order, [row[t.order] EXCEPT
                           !.resolved = @ \/ (match /\ row[t.order].state = "POOLED")])
    /\ tasks' = tasks \ {t}
    /\ UNCHANGED <<storeVars, saved, answered, sweep, projections, failures, crashes>>

\* A failing transaction ends the call; it is logged and not repeated.
FailIntake(t) ==
    /\ t \in tasks
    /\ failures < MaxFailures
    /\ failures' = failures + 1
    /\ tasks' = tasks \ {t}
    /\ UNCHANGED <<storeVars, saved, rowVars, sweep, projections, crashes>>

IntakeForDispatcher(o) ==
    /\ Candidate(o)
    /\ tasks' = tasks \cup {[order |-> o, by |-> "request", step |-> "upsert"]}
    /\ UNCHANGED <<storeVars, saved, rowVars, sweep, projections, failures, crashes>>

\* writeResolution for a dispatcher: any confirmed invoice, meant for delivery or not.
ResolveCorridor(o, match) ==
    /\ Confirmed(o)
    /\ match => Upserted(o).state = "POOLED"
    /\ SetRow(o, [Upserted(o) EXCEPT !.resolved = @ \/ match])
    /\ UNCHANGED <<storeVars, saved, answered, processVars, failures, crashes>>

----------------------------------------------------------------------------
(* reconcileIntake, one at a time.                                         *)

\* Mutant: an order with any row is taken for taken in.
KnownByRow(o) == row[o].state # "NONE"

\* The rows the reconciler does not take in again.
Known(o) == row[o].weighed

StartSweep ==
    /\ sweep.phase = "idle"
    /\ sweep' = [phase |-> "intake", left |-> BatchSize,
                 todo |-> {o \in Orders : Candidate(o) /\ ~Known(o)}]
    /\ UNCHANGED <<storeVars, saved, rowVars, tasks, projections, failures, crashes>>

Reconciling == \E t \in tasks : t.by = "reconciler"

\* Mutant: the batch size is not looked at.
TakeInWithoutLimit(o) ==
    /\ sweep.phase = "intake"
    /\ o \in sweep.todo
    /\ ~Reconciling
    /\ tasks' = tasks \cup {[order |-> o, by |-> "reconciler", step |-> "upsert"]}
    /\ sweep' = [sweep EXCEPT !.todo = @ \ {o}, !.left = @ - 1]
    /\ UNCHANGED <<storeVars, saved, rowVars, projections, failures, crashes>>

TakeIn(o) ==
    /\ sweep.phase = "intake"
    /\ o \in sweep.todo
    /\ sweep.left > 0
    /\ ~Reconciling
    /\ tasks' = tasks \cup {[order |-> o, by |-> "reconciler", step |-> "upsert"]}
    /\ sweep' = [sweep EXCEPT !.todo = @ \ {o}, !.left = @ - 1]
    /\ UNCHANGED <<storeVars, saved, rowVars, projections, failures, crashes>>

\* Mutant: only orders that wait in a corridor's pool are read.
PooledInCorridor(o) == row[o].state = "POOLED" /\ row[o].resolved

Pooled(o) == row[o].state = "POOLED"

ReadPooled ==
    /\ sweep.phase = "intake"
    /\ sweep.todo = {} \/ sweep.left = 0
    /\ ~Reconciling
    /\ sweep' = [sweep EXCEPT !.phase = "read", !.todo = {o \in Orders : Pooled(o)}]
    /\ UNCHANGED <<storeVars, saved, rowVars, tasks, projections, failures, crashes>>

\* Mutant: a pooled order whose confirmation is gone is an orphan.
Unconfirmed(o) == ~Confirmed(o)

Absent(o) == memory[o].invoice = "none"

\* existingInvoiceIds, read after the rows.
FindOrphans ==
    /\ sweep.phase = "read"
    /\ sweep' = [sweep EXCEPT !.phase = "flag", !.todo = {o \in @ : Absent(o)}]
    /\ UNCHANGED <<storeVars, saved, rowVars, tasks, projections, failures, crashes>>

\* releasePooledOrder: a row that left the pool meanwhile is left alone.
FlagOrphan(o) ==
    /\ sweep.phase = "flag"
    /\ o \in sweep.todo
    /\ sweep' = [sweep EXCEPT !.todo = @ \ {o}]
    /\ SetRow(o, IF Pooled(o) THEN [row[o] EXCEPT !.state = "ORPHANED"] ELSE row[o])
    /\ UNCHANGED <<storeVars, saved, answered, tasks, projections, failures, crashes>>

FailFlag(o) ==
    /\ sweep.phase = "flag"
    /\ o \in sweep.todo
    /\ failures < MaxFailures
    /\ failures' = failures + 1
    /\ sweep' = [sweep EXCEPT !.todo = @ \ {o}]
    /\ UNCHANGED <<storeVars, saved, rowVars, tasks, projections, crashes>>

EndSweep ==
    /\ sweep.phase = "flag"
    /\ sweep.todo = {}
    /\ sweep' = IdleSweep
    /\ UNCHANGED <<storeVars, saved, rowVars, tasks, projections, failures, crashes>>

----------------------------------------------------------------------------
(* Dispatch, with the status each operation projects after its commit.     *)

\* Every operation on a trip reads the invoices of its stops.
Commit(o, r, statuses) ==
    /\ ~Absent(o)
    /\ SetRow(o, r)
    /\ projections' = projections \cup ({o} \X statuses)
    /\ UNCHANGED <<storeVars, saved, tasks, sweep, failures, crashes>>

CreateManifest(o) ==
    /\ Pooled(o)
    /\ row[o].weighed
    /\ row[o].resolved
    /\ Commit(o, [row[o] EXCEPT !.state = "ALLOCATED", !.trip = "OPEN"], {"ready"})
    /\ answered' = answered \cup {o}

\* A retry with the key of a stored response projects again what it says.
ReplayCreateManifest(o) ==
    /\ o \in answered
    /\ projections' = projections \cup {<<o, "ready">>}
    /\ UNCHANGED <<storeVars, saved, rowVars, tasks, sweep, failures, crashes>>

Advance(o, from, to) ==
    /\ row[o].trip = from
    /\ Commit(o, [row[o] EXCEPT !.trip = to], {})
    /\ UNCHANGED answered

CloseManifest(o) == Advance(o, "OPEN", "CLOSED")
DepartManifest(o) == Advance(o, "CLOSED", "DEPARTED")

\* Off its trip and back in the pool.
Return(o, statuses) ==
    /\ Commit(o, [row[o] EXCEPT !.state = "POOLED", !.trip = "NONE"], statuses)
    /\ UNCHANGED answered

RemoveOrder(o) == row[o].trip = "OPEN" /\ Return(o, {})
CancelManifest(o) == row[o].trip \in {"OPEN", "CLOSED"} /\ Return(o, {"ready"})

\* Mutant: any recorded outcome completes the record.
RecordAnyFailure(o) == row[o].trip \in {"CLOSED", "DEPARTED"} /\ Return(o, {"completed"})

RecordFailure(o) == row[o].trip \in {"CLOSED", "DEPARTED"} /\ Return(o, {})

RecordDelivery(o) ==
    /\ row[o].trip \in {"CLOSED", "DEPARTED"}
    /\ Commit(o, [row[o] EXCEPT !.state = "DELIVERED", !.trip = "NONE"], {"completed"})
    /\ UNCHANGED answered

CancelOrderFulfillment(o) ==
    /\ Confirmed(o)
    /\ Pooled(o) \/ row[o].trip = "OPEN"
    /\ Commit(o, [row[o] EXCEPT !.state = "CANCELLED", !.trip = "NONE"], {"cancelled"})
    /\ UNCHANGED answered

----------------------------------------------------------------------------
LegacyOrder == [invoice |-> "confirmed", method |-> "delivery", status |-> "pending"]

Init ==
    /\ drawn = Legacy
    /\ memory = [o \in Orders |-> IF o \in Legacy THEN LegacyOrder ELSE NoOrder]
    /\ saved = memory
    /\ row \in {[o \in Orders |-> IF o \in Legacy
                                  THEN [NoRow EXCEPT !.state = "POOLED", !.resolved = r]
                                  ELSE NoRow] : r \in BOOLEAN}
    /\ answered = {}
    /\ tasks = {}
    /\ sweep = IdleSweep
    /\ projections = {}
    /\ failures = 0
    /\ crashes = 0

StoreStep ==
    \/ \E o \in Orders : CreateInvoice(o) \/ ConfirmInvoice(o)
    \/ \E o \in Orders, method \in {"delivery", "pickup"} : CreateLogistics(o, method)
    \/ \E o \in Orders, s \in FulfillmentStatus : UpdateLogisticsStatus(o, s) \/ Project(o, s)
    \/ SaveSnapshot
    \/ Restart

IntakeStep ==
    \/ \E t \in tasks : IntakeUpsert(t) \/ FailIntake(t)
    \/ \E t \in tasks, match \in BOOLEAN : IntakeResolve(t, match)
    \/ \E o \in Dispatched : IntakeForDispatcher(o)
    \/ \E o \in Dispatched, match \in BOOLEAN : ResolveCorridor(o, match)

SweepStep ==
    \/ StartSweep \/ ReadPooled \/ FindOrphans \/ EndSweep
    \/ \E o \in Orders : TakeIn(o) \/ FlagOrphan(o) \/ FailFlag(o)

DispatchStep ==
    \E o \in Dispatched :
        \/ CreateManifest(o) \/ ReplayCreateManifest(o)
        \/ CloseManifest(o) \/ DepartManifest(o) \/ CancelManifest(o)
        \/ RemoveOrder(o) \/ RecordFailure(o) \/ RecordDelivery(o)
        \/ CancelOrderFulfillment(o)

Next == StoreStep \/ IntakeStep \/ SweepStep \/ DispatchStep

Spec == Init /\ [][Next]_vars

\* The interval runner starts a reconciliation again and again and a call in flight
\* is answered; nobody owes the system an order, a trip or a delivery.
Fairness ==
    /\ WF_vars(SweepStep)
    /\ \A t \in Task :
          WF_vars(IntakeUpsert(t) \/ FailIntake(t) \/ \E match \in BOOLEAN : IntakeResolve(t, match))

FairSpec == Spec /\ Fairness

----------------------------------------------------------------------------
TypeOK ==
    /\ drawn \subseteq Orders
    /\ memory \in [Orders -> Order]
    /\ saved \in [Orders -> Order]
    /\ row \in [Orders -> Row]
    /\ answered \subseteq Orders
    /\ tasks \subseteq Task
    /\ sweep \in Sweep
    /\ projections \subseteq Orders \X FulfillmentStatus
    /\ failures \in 0..MaxFailures
    /\ crashes \in 0..MaxCrashes

\* An order is written off only when its invoice is gone for good: no restart and no
\* late save brings back an invoice whose row reconcileIntake has marked ORPHANED.
OrphanIsGone ==
    \A o \in Orders :
        row[o].state = "ORPHANED" => memory[o].invoice = "none" /\ saved[o].invoice = "none"

\* What the customer is shown is never ahead of fulfillment: unless the merchant wrote
\* it, a completed or cancelled record belongs to an order delivered or cancelled, and a
\* record that left "pending" to one that was on a trip, whatever was lost or replayed.
ProjectionTrue ==
    \A o \in Orders :
        <<o, memory[o].status>> \notin Manual =>
            /\ memory[o].status = "completed" => row[o].state = "DELIVERED"
            /\ memory[o].status = "cancelled" => row[o].state = "CANCELLED"
            /\ memory[o].status = "ready" => o \in answered
            /\ memory[o].status # "out_for_delivery"

\* Intake, its repetitions, manual resolution and the trips, in any order and on either
\* side of a restart, move a row only as the lifecycle of OrderLifecycle allows: nothing
\* pools an order twice or brings a finished one back.
Lifecycle == INSTANCE OrderLifecycle
             WITH state <- [o \in Orders |-> row[o].state], trip <- [o \in Orders |-> row[o].trip]
FollowsLifecycle == Lifecycle!Spec

\* The reconciler covers what the listener misses: a confirmed delivery order gets its
\* weighed row, through failures, restarts and full batches, as long as it stays confirmed.
EveryOrderTakenIn ==
    \A o \in Orders : Candidate(o) ~> (row[o].weighed \/ ~Candidate(o))

\* A pooled row whose invoice a restart lost does not wait in the pool for ever.
EveryOrphanFlagged ==
    \A o \in Orders : (row[o].state = "POOLED" /\ memory[o].invoice = "none") ~> row[o].state = "ORPHANED"

\* What reconcileIntake's comment says of an unpersisted confirmation lost in a crash:
\* its pooled row is flagged (or the order is confirmed again, or leaves the pool).
LostConfirmationFlagged ==
    \A o \in Orders : (Pooled(o) /\ ~Confirmed(o)) ~> (~Pooled(o) \/ Confirmed(o))
=============================================================================
