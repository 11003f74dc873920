----------------------- MODULE FulfillmentIntakeProofs -----------------------
(***************************************************************************)
(* The hand-over between the store and fulfillment, proved for any orders, *)
(* batches, failures and restarts: what is written off is gone, what the   *)
(* customer sees is true, and a row keeps to the lifecycle of orders.      *)
(***************************************************************************)
EXTENDS FulfillmentIntake, TLAPS

----------------------------------------------------------------------------
(* The invariant.                                                          *)

\* An invoice a restart lost is not saved either, and its identifier stays used.
LostForGood(o) ==
    /\ memory[o].invoice = "none" => saved[o].invoice = "none"
    /\ o \notin drawn => memory[o].invoice = "none" /\ row[o].state = "NONE"

\* Whoever looks at an order's row looks at an order that exists or existed.
Drawn ==
    /\ \A t \in tasks : t.order \in drawn
    /\ sweep.todo \subseteq drawn
    /\ sweep.phase = "flag" => \A o \in sweep.todo : memory[o].invoice = "none"

WrittenOff(o) == row[o].state = "ORPHANED" => o \in drawn /\ memory[o].invoice = "none"

\* A row on a trip is allocated, and was answered as such.
OnTrip(o) ==
    /\ row[o].trip # "NONE" => row[o].state = "ALLOCATED"
    /\ row[o].state = "ALLOCATED" => o \in answered

\* What fulfillment may show of an order as it stands now.
Shows(o, status) ==
    /\ status = "completed" => row[o].state = "DELIVERED"
    /\ status = "cancelled" => row[o].state = "CANCELLED"
    /\ status = "ready" => o \in answered
    /\ status # "out_for_delivery"

\* What is shown, what is saved and what is still to be projected.
Shown(o) ==
    /\ <<o, memory[o].status>> \notin Manual => Shows(o, memory[o].status)
    /\ <<o, saved[o].status>> \notin Manual => Shows(o, saved[o].status)
    /\ \A s \in FulfillmentStatus : <<o, s>> \in projections => Shows(o, s)

IntakeInv ==
    /\ TypeOK
    /\ Drawn
    /\ \A o \in Orders : LostForGood(o) /\ WrittenOff(o) /\ OnTrip(o) /\ Shown(o)

LEMMA InvImplies == IntakeInv => OrphanIsGone /\ ProjectionTrue
BY DEF IntakeInv, OrphanIsGone, ProjectionTrue, LostForGood, WrittenOff, Shown, Shows

LEMMA OrderFacts ==
    ASSUME TypeOK, NEW o \in Orders
    PROVE  /\ memory[o] \in Order /\ saved[o] \in Order /\ row[o] \in Row
           /\ memory[o].status \in {"none"} \cup FulfillmentStatus
BY DEF TypeOK, Order

----------------------------------------------------------------------------
(* Steps on the rows.                                                      *)

\* One legal move of an order from row r to row q.
Moves(r, q) ==
    \/ q.state = r.state /\ q.trip = r.trip
    \/ /\ r.state = "NONE" /\ q.state = "POOLED" /\ q.trip = "NONE"
    \/ /\ r.state = "POOLED"
       /\ \/ q.state = "ALLOCATED" /\ q.trip = "OPEN"
          \/ q.state \in {"CANCELLED", "ORPHANED"} /\ q.trip = "NONE"
    \/ /\ r.state = "ALLOCATED"
       /\ \/ r.trip = "OPEN" /\ q.state = "ALLOCATED" /\ q.trip = "CLOSED"
          \/ r.trip = "CLOSED" /\ q.state = "ALLOCATED" /\ q.trip = "DEPARTED"
          \/ r.trip = "OPEN" /\ q.state = "CANCELLED" /\ q.trip = "NONE"
          \/ r.trip # "NONE" /\ q.state = "POOLED" /\ q.trip = "NONE"
          \/ r.trip \in {"CLOSED", "DEPARTED"} /\ q.state = "DELIVERED" /\ q.trip = "NONE"

RowStep(o, r) ==
    /\ SetRow(o, r) /\ r \in Row
    /\ Moves(row[o], r)
    /\ r.state = "ORPHANED" => memory[o].invoice = "none"
    /\ r.trip # "NONE" => r.state = "ALLOCATED"
    /\ r.state = "ALLOCATED" => o \in answered'

\* A step on the row of one order, the store standing still: what may be projected of
\* the others and what was true of this one stays so.
LEMMA RowMoves ==
    ASSUME IntakeInv, NEW o \in drawn, NEW r, RowStep(o, r),
           UNCHANGED storeVars, UNCHANGED saved, answered' \in {answered, answered \cup {o}},
           tasks' \subseteq Task, sweep' \in Sweep, Drawn',
           failures' \in 0..MaxFailures, crashes' \in 0..MaxCrashes,
           NEW S \in SUBSET FulfillmentStatus, projections' = projections \cup ({o} \X S),
           \A s \in S : Shows(o, s)'
    PROVE  IntakeInv'
<1>1. o \in Orders /\ row \in [Orders -> Row] BY DEF IntakeInv, TypeOK
<1>2. /\ row' = [row EXCEPT ![o] = r] /\ row' \in [Orders -> Row] /\ row'[o] = r
      /\ \A p \in Orders \ {o} : row'[p] = row[p]
  BY <1>1 DEF RowStep, SetRow
<1>3. UNCHANGED <<drawn, memory, saved>> BY DEF storeVars
<1>4. TypeOK' BY <1>1, <1>2, <1>3 DEF IntakeInv, TypeOK
<1>5. ASSUME NEW p \in Orders PROVE LostForGood(p)' /\ WrittenOff(p)' /\ OnTrip(p)'
  BY <1>1, <1>2, <1>3 DEF IntakeInv, LostForGood, WrittenOff, OnTrip, RowStep
<1>6. ASSUME NEW p \in Orders, NEW s, Shows(p, s) PROVE Shows(p, s)'
  BY <1>2, <1>6 DEF Shows, RowStep, Moves
<1>7. ASSUME NEW p \in Orders PROVE Shown(p)'
  <2>1. Shown(p) BY DEF IntakeInv
  <2>2. ASSUME NEW s \in FulfillmentStatus, <<p, s>> \in projections' PROVE Shows(p, s)'
    <3>1. CASE <<p, s>> \in projections BY <1>6, <2>1, <3>1 DEF Shown
    <3>2. CASE p = o /\ s \in S BY <3>2
    <3>3. QED BY <2>2, <3>1, <3>2
  <2>3. QED BY <1>3, <1>6, <2>1, <2>2 DEF Shown
<1>8. QED BY <1>4, <1>5, <1>7 DEF IntakeInv

LEMMA RowMovesAlone ==
    ASSUME IntakeInv, NEW o \in drawn, NEW r, RowStep(o, r),
           UNCHANGED <<storeVars, saved, answered, projections>>,
           tasks' \subseteq Task, sweep' \in Sweep, Drawn',
           failures' \in 0..MaxFailures, crashes' \in 0..MaxCrashes
    PROVE  IntakeInv'
<1>1. projections' = projections \cup ({o} \X {}) OBVIOUS
<1>2. {} \in SUBSET FulfillmentStatus /\ \A s \in {} : Shows(o, s)' OBVIOUS
<1>3. UNCHANGED storeVars /\ UNCHANGED saved /\ answered' \in {answered, answered \cup {o}}
  OBVIOUS
<1>4. QED BY <1>1, <1>2, <1>3, RowMoves

LEMMA UpsertedRow ==
    ASSUME IntakeInv, NEW o \in drawn
    PROVE  /\ Upserted(o) \in Row
           /\ Moves(row[o], Upserted(o))
           /\ Upserted(o).trip # "NONE" => Upserted(o).state = "ALLOCATED"
           /\ Upserted(o).state = "ALLOCATED" => o \in answered
           /\ Upserted(o).state = "ORPHANED" => memory[o].invoice = "none"
<1>1. o \in Orders BY DEF IntakeInv, TypeOK
<1>2. row[o] \in Row /\ OnTrip(o) /\ WrittenOff(o)
  BY <1>1, OrderFacts DEF IntakeInv
<1>3. NoRow \in Row BY DEF NoRow, Row
<1>4. CASE row[o].state = "NONE"
  BY <1>3, <1>4 DEF Upserted, Row, NoRow, Moves
<1>5. CASE row[o].state # "NONE"
  BY <1>2, <1>5 DEF Upserted, Row, Moves, OnTrip, WrittenOff
<1>6. QED BY <1>4, <1>5

----------------------------------------------------------------------------
(* Intake.                                                                 *)

LEMMA NextIntake ==
    ASSUME IntakeInv, IntakeStep
    PROVE  /\ IntakeInv'
           /\ UNCHANGED row \/ \E o \in Orders, r \in Row : RowStep(o, r)
<1>1. TypeOK /\ Drawn BY DEF IntakeInv
<1>2. \A t \in tasks : t \in Task /\ t.order \in drawn /\ t.order \in Orders
  BY <1>1 DEF TypeOK, Drawn, Task
<1>3. ASSUME NEW t \in tasks, IntakeUpsert(t)
      PROVE  IntakeInv' /\ \E o \in Orders, r \in Row : RowStep(o, r)
  <2>1. RowStep(t.order, Upserted(t.order))
    BY <1>2, <1>3, UpsertedRow DEF IntakeUpsert, RowStep
  <2>2. /\ tasks' \subseteq tasks \cup {[t EXCEPT !.step = "resolve"]}
        /\ UNCHANGED <<storeVars, saved, answered, sweep, projections, failures, crashes>>
    BY <1>3 DEF IntakeUpsert
  <2>3. [t EXCEPT !.step = "resolve"] \in Task /\ [t EXCEPT !.step = "resolve"].order = t.order
    BY <1>2 DEF Task
  <2>4. tasks' \subseteq Task BY <1>1, <2>2, <2>3 DEF TypeOK
  <2>5. Drawn' BY <1>1, <1>2, <2>2, <2>3 DEF Drawn, storeVars
  <2>6. sweep' \in Sweep /\ failures' \in 0..MaxFailures /\ crashes' \in 0..MaxCrashes
    BY <1>1, <2>2 DEF TypeOK
  <2>7. IntakeInv' BY <1>2, <2>1, <2>2, <2>4, <2>5, <2>6, RowMovesAlone
  <2>8. QED BY <1>2, <2>1, <2>7 DEF RowStep
<1>4. ASSUME NEW t \in tasks, NEW match \in BOOLEAN, IntakeResolve(t, match)
      PROVE  IntakeInv' /\ \E o \in Orders, r \in Row : RowStep(o, r)
  <2> DEFINE r == [row[t.order] EXCEPT !.resolved = @ \/ (match /\ row[t.order].state = "POOLED")]
  <2>1. RowStep(t.order, r)
    <3>1. row[t.order] \in Row /\ OnTrip(t.order) /\ WrittenOff(t.order)
      BY <1>2, OrderFacts DEF IntakeInv
    <3>2. r \in Row /\ r.state = row[t.order].state /\ r.trip = row[t.order].trip
      BY <3>1 DEF Row
    <3>3. QED BY <1>4, <3>1, <3>2 DEF IntakeResolve, RowStep, Moves, OnTrip, WrittenOff
  <2>2. /\ tasks' \subseteq tasks
        /\ UNCHANGED <<storeVars, saved, answered, sweep, projections, failures, crashes>>
    BY <1>4 DEF IntakeResolve
  <2>3. tasks' \subseteq Task /\ Drawn' BY <1>1, <2>2 DEF TypeOK, Drawn, storeVars
  <2>4. sweep' \in Sweep /\ failures' \in 0..MaxFailures /\ crashes' \in 0..MaxCrashes
    BY <1>1, <2>2 DEF TypeOK
  <2>5. IntakeInv' BY <1>2, <2>1, <2>2, <2>3, <2>4, RowMovesAlone
  <2>6. QED BY <1>2, <2>1, <2>5 DEF RowStep
<1>5. ASSUME NEW o \in Dispatched, NEW match \in BOOLEAN, ResolveCorridor(o, match)
      PROVE  IntakeInv' /\ \E p \in Orders, r \in Row : RowStep(p, r)
  <2> DEFINE r == [Upserted(o) EXCEPT !.resolved = @ \/ match]
  <2>1. o \in drawn /\ o \in Orders
    BY <1>5, OrderSets DEF ResolveCorridor, Confirmed, IntakeInv, LostForGood
  <2>2. r \in Row /\ r.state = Upserted(o).state /\ r.trip = Upserted(o).trip
    BY <2>1, UpsertedRow DEF Row
  <2>3. UNCHANGED <<storeVars, saved, answered, processVars, failures, crashes>>
    BY <1>5 DEF ResolveCorridor
  <2>4. RowStep(o, r)
    <3>1. Moves(row[o], r) BY <2>1, <2>2, UpsertedRow DEF Moves
    <3>2. QED BY <1>5, <2>1, <2>2, <2>3, <3>1, UpsertedRow DEF ResolveCorridor, RowStep
  <2>5. tasks' \subseteq Task /\ Drawn' /\ sweep' \in Sweep
    BY <1>1, <2>3 DEF TypeOK, Drawn, storeVars, processVars
  <2>6. failures' \in 0..MaxFailures /\ crashes' \in 0..MaxCrashes BY <1>1, <2>3 DEF TypeOK
  <2>7. UNCHANGED <<storeVars, saved, answered, projections>> BY <2>3 DEF processVars
  <2>8. IntakeInv' BY <2>1, <2>4, <2>5, <2>6, <2>7, RowMovesAlone
  <2>9. QED BY <2>1, <2>2, <2>4, <2>8
<1>6. ASSUME \/ \E t \in tasks : FailIntake(t)
             \/ \E o \in Dispatched : IntakeForDispatcher(o)
      PROVE  IntakeInv' /\ UNCHANGED row
  <2>1. UNCHANGED <<storeVars, saved, rowVars, sweep, projections, crashes>>
    BY <1>6 DEF FailIntake, IntakeForDispatcher
  <2>2. failures' \in 0..MaxFailures
    BY <1>1, <1>6, Bounds DEF TypeOK, FailIntake, IntakeForDispatcher
  <2>3. tasks' \subseteq Task /\ \A t \in tasks' : t.order \in drawn
    <3>1. CASE \E t \in tasks : FailIntake(t) BY <1>1, <1>2, <3>1 DEF FailIntake, TypeOK
    <3>2. ASSUME NEW o \in Dispatched, IntakeForDispatcher(o)
          PROVE  tasks' \subseteq Task /\ \A t \in tasks' : t.order \in drawn
      <4>1. o \in drawn /\ o \in Orders
        BY <3>2, OrderSets DEF IntakeForDispatcher, Candidate, Confirmed, IntakeInv, LostForGood
      <4>2. QED BY <1>1, <1>2, <3>2, <4>1 DEF IntakeForDispatcher, TypeOK, Task
    <3>3. QED BY <1>6, <3>1, <3>2
  <2>4. TypeOK' /\ Drawn'
    BY <1>1, <2>1, <2>2, <2>3 DEF TypeOK, Drawn, storeVars, rowVars
  <2>5. \A o \in Orders : LostForGood(o)' /\ WrittenOff(o)' /\ OnTrip(o)' /\ Shown(o)'
    BY <2>1 DEF IntakeInv, LostForGood, WrittenOff, OnTrip, Shown, Shows, storeVars, rowVars
  <2>6. QED BY <2>1, <2>4, <2>5 DEF IntakeInv, rowVars
<1>7. QED BY <1>3, <1>4, <1>5, <1>6 DEF IntakeStep

----------------------------------------------------------------------------
(* Reconciliation.                                                         *)

LEMMA NextSweep ==
    ASSUME IntakeInv, SweepStep
    PROVE  /\ IntakeInv'
           /\ UNCHANGED row \/ \E o \in Orders, r \in Row : RowStep(o, r)
<1>1. TypeOK /\ Drawn BY DEF IntakeInv
<1>2. ASSUME NEW o \in Orders, FlagOrphan(o)
      PROVE  IntakeInv' /\ \E p \in Orders, r \in Row : RowStep(p, r)
  <2> DEFINE r == IF Pooled(o) THEN [row[o] EXCEPT !.state = "ORPHANED"] ELSE row[o]
  <2>1. o \in drawn /\ memory[o].invoice = "none" BY <1>1, <1>2 DEF FlagOrphan, Drawn
  <2>2. row[o] \in Row /\ OnTrip(o) BY OrderFacts DEF IntakeInv
  <2>3. /\ r \in Row /\ r.trip = row[o].trip
        /\ r.state = IF Pooled(o) THEN "ORPHANED" ELSE row[o].state
    BY <2>2 DEF Row
  <2>4. /\ sweep' = [sweep EXCEPT !.todo = @ \ {o}]
        /\ UNCHANGED <<storeVars, saved, answered, tasks, projections, failures, crashes>>
    BY <1>2 DEF FlagOrphan
  <2>5. RowStep(o, r)
    BY <1>2, <2>1, <2>2, <2>3, <2>4 DEF FlagOrphan, RowStep, Moves, OnTrip, Pooled
  <2>6. /\ sweep' \in Sweep /\ sweep'.todo \subseteq sweep.todo /\ sweep'.phase = sweep.phase
        /\ tasks' \subseteq Task /\ failures' \in 0..MaxFailures /\ crashes' \in 0..MaxCrashes
    BY <1>1, <2>4 DEF TypeOK, Sweep
  <2>7. Drawn' BY <1>1, <2>4, <2>6 DEF Drawn, storeVars
  <2>8. IntakeInv' BY <2>1, <2>4, <2>5, <2>6, <2>7, RowMovesAlone
  <2>9. QED BY <2>3, <2>5, <2>8
<1>3. ASSUME \/ StartSweep \/ ReadPooled \/ FindOrphans \/ EndSweep
             \/ \E o \in Orders : TakeIn(o) \/ FailFlag(o)
      PROVE  IntakeInv' /\ UNCHANGED row
  <2>1. UNCHANGED <<storeVars, saved, rowVars, projections, crashes>>
    BY <1>3 DEF StartSweep, ReadPooled, FindOrphans, EndSweep, TakeIn, FailFlag
  <2>2. failures' \in 0..MaxFailures
    <3>1. CASE UNCHANGED failures BY <1>1, <3>1 DEF TypeOK
    <3>2. CASE \E o \in Orders : FailFlag(o) BY <1>1, <3>2, Bounds DEF TypeOK, FailFlag
    <3>3. QED BY <1>3, <3>1, <3>2 DEF StartSweep, ReadPooled, FindOrphans, EndSweep, TakeIn
  <2>3. sweep' \in Sweep
    <3>1. sweep \in Sweep BY <1>1 DEF TypeOK
    <3>2. CASE StartSweep BY <3>2, Bounds DEF StartSweep, Sweep
    <3>3. CASE ReadPooled BY <3>1, <3>3 DEF ReadPooled, Sweep
    <3>4. CASE FindOrphans BY <3>1, <3>4 DEF FindOrphans, Sweep
    <3>5. CASE EndSweep BY <3>5, Bounds DEF EndSweep, IdleSweep, Sweep
    <3>6. CASE \E o \in Orders : TakeIn(o)
      <4>1. PICK o \in Orders : TakeIn(o) BY <3>6
      <4>2. sweep.left - 1 \in 0..BatchSize BY <3>1, <4>1, Bounds DEF TakeIn, Sweep
      <4>3. sweep' = [sweep EXCEPT !.todo = @ \ {o}, !.left = @ - 1] BY <4>1 DEF TakeIn
      <4>4. QED BY <3>1, <4>2, <4>3 DEF Sweep
    <3>7. CASE \E o \in Orders : FailFlag(o) BY <3>1, <3>7 DEF FailFlag, Sweep
    <3>8. QED BY <1>3, <3>2, <3>3, <3>4, <3>5, <3>6, <3>7
  <2>4. tasks' \subseteq Task /\ \A t \in tasks' : t.order \in drawn
    <3>1. ASSUME NEW o \in Orders, TakeIn(o)
          PROVE  tasks' \subseteq Task /\ \A t \in tasks' : t.order \in drawn
      BY <1>1, <3>1 DEF TakeIn, TypeOK, Drawn, Task
    <3>2. CASE UNCHANGED tasks BY <1>1, <3>2, <2>1 DEF TypeOK, Drawn, storeVars
    <3>3. QED BY <1>3, <3>1, <3>2 DEF StartSweep, ReadPooled, FindOrphans, EndSweep, FailFlag
  <2>5. /\ sweep'.todo \subseteq drawn
        /\ sweep'.phase = "flag" => \A o \in sweep'.todo : memory[o].invoice = "none"
    <3>1. CASE StartSweep
      BY <3>1 DEF StartSweep, Candidate, Confirmed, IntakeInv, LostForGood
    <3>2. CASE ReadPooled
      BY <1>1, <3>2 DEF ReadPooled, Pooled, TypeOK, Sweep, IntakeInv, LostForGood
    <3>3. CASE FindOrphans
      BY <1>1, <3>3 DEF FindOrphans, Absent, TypeOK, Sweep, Drawn
    <3>4. CASE EndSweep BY <3>4 DEF EndSweep, IdleSweep
    <3>5. CASE \E o \in Orders : TakeIn(o) \/ FailFlag(o)
      BY <1>1, <3>5 DEF TakeIn, FailFlag, TypeOK, Sweep, Drawn
    <3>6. QED BY <1>3, <3>1, <3>2, <3>3, <3>4, <3>5
  <2>6. TypeOK' /\ Drawn'
    BY <1>1, <2>1, <2>2, <2>3, <2>4, <2>5 DEF TypeOK, Drawn, storeVars, rowVars
  <2>7. \A o \in Orders : LostForGood(o)' /\ WrittenOff(o)' /\ OnTrip(o)' /\ Shown(o)'
    BY <2>1 DEF IntakeInv, LostForGood, WrittenOff, OnTrip, Shown, Shows, storeVars, rowVars
  <2>8. QED BY <2>1, <2>6, <2>7 DEF IntakeInv, rowVars
<1>4. QED BY <1>2, <1>3 DEF SweepStep

----------------------------------------------------------------------------
(* The store.                                                              *)

\* A step on one order in memory that changes its invoice only forward.
LEMMA StoreMoves ==
    ASSUME IntakeInv, NEW o \in Orders, NEW m \in Order,
           memory' = [memory EXCEPT ![o] = m],
           drawn' \in {drawn, drawn \cup {o}},
           \/ m.invoice = memory[o].invoice
           \/ m.invoice # "none" /\ o \in drawn' /\ (o \notin drawn \/ memory[o].invoice # "none"),
           <<o, m.status>> \notin Manual => Shows(o, m.status),
           UNCHANGED <<saved, rowVars, sweep, failures, crashes>>,
           tasks' \subseteq tasks \cup {[order |-> o, by |-> "request", step |-> "upsert"]},
           tasks' = tasks \/ o \in drawn,
           projections' \subseteq projections
    PROVE  IntakeInv'
<1>1. TypeOK /\ Drawn BY DEF IntakeInv
<1>2. memory'[o] = m /\ \A p \in Orders \ {o} : memory'[p] = memory[p]
  BY <1>1 DEF TypeOK
<1>3. tasks' \subseteq Task BY <1>1 DEF TypeOK, Task
<1>4. TypeOK' BY <1>1, <1>3 DEF TypeOK, rowVars
<1>5. Drawn'
  <2>1. \A t \in tasks' : t.order \in drawn' BY <1>1 DEF Drawn
  <2>2. sweep.phase = "flag" => \A p \in sweep.todo : memory'[p].invoice = "none"
    <3>1. ASSUME sweep.phase = "flag", NEW p \in sweep.todo PROVE memory'[p].invoice = "none"
      <4>1. p \in drawn /\ p \in Orders /\ memory[p].invoice = "none"
        BY <1>1, <3>1 DEF Drawn, TypeOK
      <4>2. QED BY <1>2, <4>1
    <3>2. QED BY <3>1
  <2>3. QED BY <1>1, <2>1, <2>2 DEF Drawn
<1>6. ASSUME NEW p \in Orders
      PROVE  LostForGood(p)' /\ WrittenOff(p)' /\ OnTrip(p)' /\ Shown(p)'
  <2>1. LostForGood(p) /\ WrittenOff(p) /\ OnTrip(p) /\ Shown(p) BY DEF IntakeInv
  <2>2. LostForGood(p)' BY <1>2, <2>1 DEF LostForGood, rowVars
  <2>3. WrittenOff(p)' BY <1>2, <2>1 DEF WrittenOff, LostForGood, rowVars
  <2>4. OnTrip(p)' BY <2>1 DEF OnTrip, rowVars
  <2>5. \A s : Shows(p, s)' <=> Shows(p, s) BY DEF Shows, rowVars
  <2>6. Shown(p)' BY <1>2, <2>1, <2>5 DEF Shown
  <2>7. QED BY <2>2, <2>3, <2>4, <2>6
<1>7. QED BY <1>4, <1>5, <1>6 DEF IntakeInv

LEMMA NextStore ==
    ASSUME IntakeInv, StoreStep
    PROVE  IntakeInv' /\ UNCHANGED row
<1>1. TypeOK /\ Drawn BY DEF IntakeInv
<1>2. \A o \in Orders : /\ memory[o] \in Order
                        /\ <<o, memory[o].status>> \notin Manual => Shows(o, memory[o].status)
                        /\ memory[o].invoice # "none" => o \in drawn
  BY <1>1, OrderFacts DEF IntakeInv, Shown, LostForGood
<1>3. \A o \in Orders : Notified(o) \subseteq tasks \cup {[order |-> o, by |-> "request", step |-> "upsert"]}
  BY DEF Notified
<1>4. ASSUME NEW o \in Orders, CreateInvoice(o) PROVE IntakeInv' /\ UNCHANGED row
  <2> DEFINE m == [memory[o] EXCEPT !.invoice = "draft"]
  <2>1. m \in Order /\ m.status = memory[o].status /\ m.invoice = "draft"
    BY <1>2 DEF Order
  <2>2. memory' = [memory EXCEPT ![o] = m] BY <1>1, <1>4 DEF CreateInvoice, TypeOK
  <2>3. /\ o \notin drawn /\ drawn' = drawn \cup {o}
        /\ UNCHANGED <<saved, rowVars, sweep, failures, crashes, tasks, projections>>
    BY <1>4 DEF CreateInvoice, processVars
  <2>4. QED BY <1>2, <2>1, <2>2, <2>3, StoreMoves DEF rowVars
<1>5. ASSUME NEW o \in Orders, ConfirmInvoice(o) PROVE IntakeInv' /\ UNCHANGED row
  <2> DEFINE m == [memory[o] EXCEPT !.invoice = "confirmed"]
  <2>1. m \in Order /\ m.status = memory[o].status /\ m.invoice = "confirmed"
    BY <1>2 DEF Order
  <2>2. memory' = [memory EXCEPT ![o] = m] BY <1>1, <1>5 DEF ConfirmInvoice, TypeOK
  <2>3. /\ memory[o].invoice # "none" /\ tasks' = Notified(o)
        /\ UNCHANGED <<drawn, saved, rowVars, sweep, failures, crashes, projections>>
    BY <1>5 DEF ConfirmInvoice
  <2>4. o \in drawn BY <1>2, <2>3
  <2>5. QED BY <1>2, <1>3, <2>1, <2>2, <2>3, <2>4, StoreMoves DEF rowVars
<1>6. ASSUME NEW o \in Orders, NEW method \in {"delivery", "pickup"}, CreateLogistics(o, method)
      PROVE  IntakeInv' /\ UNCHANGED row
  <2> DEFINE m == [memory[o] EXCEPT !.method = method, !.status = "pending"]
  <2>1. m \in Order /\ m.status = "pending" /\ m.invoice = memory[o].invoice
    BY <1>2 DEF Order, FulfillmentStatus
  <2>2. memory' = [memory EXCEPT ![o] = m] BY <1>1, <1>6 DEF CreateLogistics, TypeOK
  <2>3. /\ memory[o].invoice # "none" /\ tasks' = Notified(o)
        /\ UNCHANGED <<drawn, saved, rowVars, sweep, failures, crashes, projections>>
    BY <1>6 DEF CreateLogistics, Confirmed
  <2>4. o \in drawn /\ Shows(o, m.status) BY <1>2, <2>1, <2>3 DEF Shows
  <2>5. QED BY <1>3, <2>1, <2>2, <2>3, <2>4, StoreMoves DEF rowVars
<1>7. ASSUME NEW o \in Orders, NEW s \in FulfillmentStatus, UpdateLogisticsStatus(o, s) \/ Project(o, s)
      PROVE  IntakeInv' /\ UNCHANGED row
  <2>1. PICK t \in {memory[o].status, s} :
           /\ memory' = [memory EXCEPT ![o] = [memory[o] EXCEPT !.status = t]]
           /\ <<o, t>> \notin Manual => Shows(o, t)
    <3>1. CASE UpdateLogisticsStatus(o, s)
      BY <1>1, <3>1 DEF UpdateLogisticsStatus, TypeOK
    <3>2. CASE Project(o, s)
      <4>1. <<o, s>> \in projections BY <3>2 DEF Project
      <4>2. Shows(o, s) BY <4>1 DEF IntakeInv, Shown
      <4>3. \E t \in {memory[o].status, s} : memory' = [memory EXCEPT ![o] = [memory[o] EXCEPT !.status = t]]
        BY <1>1, <3>2 DEF Project, TypeOK
      <4>4. QED BY <1>2, <4>2, <4>3
    <3>3. QED BY <1>7, <3>1, <3>2
  <2> DEFINE m == [memory[o] EXCEPT !.status = t]
  <2>2. m \in Order /\ m.status = t /\ m.invoice = memory[o].invoice
    BY <1>2 DEF Order
  <2>3. /\ UNCHANGED <<drawn, saved, rowVars, tasks, sweep, failures, crashes>>
        /\ projections' \subseteq projections
    BY <1>7 DEF UpdateLogisticsStatus, Project, processVars
  <2>4. memory' = [memory EXCEPT ![o] = m] /\ (<<o, m.status>> \notin Manual => Shows(o, m.status))
    BY <2>1, <2>2
  <2>5. QED BY <2>2, <2>3, <2>4, StoreMoves DEF rowVars
<1>8. CASE SaveSnapshot
  <2>1. saved' = memory /\ UNCHANGED <<storeVars, rowVars, processVars, failures, crashes>>
    BY <1>8 DEF SaveSnapshot
  <2>2. TypeOK' /\ Drawn' BY <1>1, <2>1 DEF TypeOK, Drawn, storeVars, rowVars, processVars
  <2>3. \A o \in Orders : LostForGood(o)' /\ WrittenOff(o)' /\ OnTrip(o)' /\ Shown(o)'
    BY <2>1
    DEF IntakeInv, LostForGood, WrittenOff, OnTrip, Shown, Shows, storeVars, rowVars, processVars
  <2>4. QED BY <2>1, <2>2, <2>3 DEF IntakeInv, rowVars
<1>9. CASE Restart
  <2>1. /\ memory' = saved /\ tasks' = {} /\ sweep' = IdleSweep /\ projections' = {}
        /\ crashes' \in 0..MaxCrashes
        /\ UNCHANGED <<drawn, saved, rowVars, failures>>
    BY <1>1, <1>9, Bounds DEF Restart, TypeOK
  <2>2. IdleSweep \in Sweep BY Bounds DEF IdleSweep, Sweep
  <2>3. TypeOK' /\ Drawn'
    BY <1>1, <2>1, <2>2 DEF TypeOK, Drawn, IdleSweep, rowVars
  <2>4. \A o \in Orders : LostForGood(o)' /\ WrittenOff(o)' /\ OnTrip(o)' /\ Shown(o)'
    BY <2>1 DEF IntakeInv, LostForGood, WrittenOff, OnTrip, Shown, Shows, rowVars
  <2>5. QED BY <2>1, <2>3, <2>4 DEF IntakeInv, rowVars
<1>10. QED BY <1>4, <1>5, <1>6, <1>7, <1>8, <1>9 DEF StoreStep

----------------------------------------------------------------------------
(* Dispatch.                                                               *)

\* A committed step of a dispatcher on an order of the pool or of a trip.
LEMMA CommitMoves ==
    ASSUME IntakeInv, NEW o \in Orders, NEW r \in Row, NEW S \in SUBSET FulfillmentStatus,
           Commit(o, r, S), Moves(row[o], r), r.state # "ORPHANED",
           row[o].state # "NONE", answered' \in {answered, answered \cup {o}},
           r.trip # "NONE" => r.state = "ALLOCATED",
           r.state = "ALLOCATED" => o \in answered',
           \A s \in S : \/ s = "completed" /\ r.state = "DELIVERED"
                        \/ s = "cancelled" /\ r.state = "CANCELLED"
                        \/ s = "ready" /\ o \in answered'
    PROVE  IntakeInv' /\ RowStep(o, r)
<1>1. TypeOK /\ Drawn BY DEF IntakeInv
<1>2. o \in drawn BY DEF IntakeInv, LostForGood
<1>3. RowStep(o, r) BY DEF Commit, RowStep
<1>4. /\ UNCHANGED <<storeVars, saved, tasks, sweep, failures, crashes>>
      /\ projections' = projections \cup ({o} \X S)
  BY DEF Commit
<1>5. /\ tasks' \subseteq Task /\ sweep' \in Sweep /\ failures' \in 0..MaxFailures
      /\ crashes' \in 0..MaxCrashes /\ Drawn'
  BY <1>1, <1>4 DEF TypeOK, Drawn, storeVars
<1>6. row'[o] = r BY <1>1, <1>3 DEF RowStep, SetRow, TypeOK
<1>7. \A s \in S : Shows(o, s)' BY <1>6 DEF Shows
<1>8. IntakeInv' BY <1>2, <1>3, <1>4, <1>5, <1>7, RowMoves
<1>9. QED BY <1>3, <1>8

LEMMA NextDispatch ==
    ASSUME IntakeInv, DispatchStep
    PROVE  /\ IntakeInv'
           /\ UNCHANGED row \/ \E o \in Orders, r \in Row : RowStep(o, r)
<1>1. PICK o \in Dispatched :
         \/ CreateManifest(o) \/ ReplayCreateManifest(o)
         \/ CloseManifest(o) \/ DepartManifest(o) \/ CancelManifest(o)
         \/ RemoveOrder(o) \/ RecordFailure(o) \/ RecordDelivery(o)
         \/ CancelOrderFulfillment(o)
  BY DEF DispatchStep
<1>2. o \in Orders BY OrderSets
<1>3. row[o] \in Row /\ OnTrip(o) /\ TypeOK /\ Drawn BY <1>2, OrderFacts DEF IntakeInv
<1> DEFINE Goal == IntakeInv' /\ \E p \in Orders, r \in Row : RowStep(p, r)
<1>4. CASE CreateManifest(o)
  <2> DEFINE r == [row[o] EXCEPT !.state = "ALLOCATED", !.trip = "OPEN"]
  <2>1. /\ row[o].state = "POOLED" /\ Commit(o, r, {"ready"}) /\ answered' = answered \cup {o}
    BY <1>4 DEF CreateManifest, Pooled
  <2>2. r \in Row /\ r.state = "ALLOCATED" /\ r.trip = "OPEN" BY <1>3 DEF Row
  <2>3. {"ready"} \in SUBSET FulfillmentStatus BY DEF FulfillmentStatus
  <2>4. Moves(row[o], r) BY <2>1, <2>2 DEF Moves
  <2>5. IntakeInv' /\ RowStep(o, r) BY <1>2, <2>1, <2>2, <2>3, <2>4, CommitMoves
  <2>6. QED BY <1>2, <2>2, <2>5
<1>5. ASSUME NEW from, NEW to, <<from, to>> \in {<<"OPEN", "CLOSED">>, <<"CLOSED", "DEPARTED">>},
             Advance(o, from, to)
      PROVE  Goal
  <2> DEFINE r == [row[o] EXCEPT !.trip = to]
  <2>1. row[o].trip = from /\ Commit(o, r, {}) /\ UNCHANGED answered BY <1>5 DEF Advance
  <2>2. /\ r \in Row /\ r.trip = to /\ r.state = "ALLOCATED"
        /\ row[o].state = "ALLOCATED" /\ o \in answered
    BY <1>3, <1>5, <2>1 DEF Row, OnTrip
  <2>3. Moves(row[o], r) BY <1>5, <2>1, <2>2 DEF Moves
  <2>4. {} \in SUBSET FulfillmentStatus OBVIOUS
  <2>5. IntakeInv' /\ RowStep(o, r) BY <1>2, <2>1, <2>2, <2>3, <2>4, CommitMoves
  <2>6. QED BY <1>2, <2>2, <2>5
<1>6. ASSUME NEW S \in {{}, {"ready"}}, Return(o, S), row[o].trip # "NONE"
      PROVE  Goal
  <2> DEFINE r == [row[o] EXCEPT !.state = "POOLED", !.trip = "NONE"]
  <2>1. Commit(o, r, S) /\ UNCHANGED answered BY <1>6 DEF Return
  <2>2. /\ r \in Row /\ r.state = "POOLED" /\ r.trip = "NONE"
        /\ row[o].state = "ALLOCATED" /\ o \in answered
    BY <1>3, <1>6 DEF Row, OnTrip
  <2>3. Moves(row[o], r) BY <1>6, <2>2 DEF Moves
  <2>4. S \in SUBSET FulfillmentStatus BY DEF FulfillmentStatus
  <2>5. IntakeInv' /\ RowStep(o, r) BY <1>2, <2>1, <2>2, <2>3, <2>4, CommitMoves
  <2>6. QED BY <1>2, <2>2, <2>5
<1>7. CASE RecordDelivery(o)
  <2> DEFINE r == [row[o] EXCEPT !.state = "DELIVERED", !.trip = "NONE"]
  <2>1. row[o].trip \in {"CLOSED", "DEPARTED"} /\ Commit(o, r, {"completed"}) /\ UNCHANGED answered
    BY <1>7 DEF RecordDelivery
  <2>2. r \in Row /\ r.state = "DELIVERED" /\ r.trip = "NONE" /\ row[o].state = "ALLOCATED"
    BY <1>3, <2>1 DEF Row, OnTrip
  <2>3. Moves(row[o], r) BY <2>1, <2>2 DEF Moves
  <2>4. {"completed"} \in SUBSET FulfillmentStatus BY DEF FulfillmentStatus
  <2>5. IntakeInv' /\ RowStep(o, r) BY <1>2, <2>1, <2>2, <2>3, <2>4, CommitMoves
  <2>6. QED BY <1>2, <2>2, <2>5
<1>8. CASE CancelOrderFulfillment(o)
  <2> DEFINE r == [row[o] EXCEPT !.state = "CANCELLED", !.trip = "NONE"]
  <2>1. /\ row[o].state = "POOLED" \/ row[o].trip = "OPEN"
        /\ Commit(o, r, {"cancelled"}) /\ UNCHANGED answered
    BY <1>8 DEF CancelOrderFulfillment, Pooled
  <2>2. /\ r \in Row /\ r.state = "CANCELLED" /\ r.trip = "NONE"
        /\ row[o].state = "POOLED" \/ (row[o].state = "ALLOCATED" /\ row[o].trip = "OPEN")
    BY <1>3, <2>1 DEF Row, OnTrip
  <2>3. Moves(row[o], r) BY <2>2 DEF Moves
  <2>4. {"cancelled"} \in SUBSET FulfillmentStatus BY DEF FulfillmentStatus
  <2>5. IntakeInv' /\ RowStep(o, r) BY <1>2, <2>1, <2>2, <2>3, <2>4, CommitMoves
  <2>6. QED BY <1>2, <2>2, <2>5
<1>9. CASE ReplayCreateManifest(o)
  <2>1. /\ o \in answered /\ projections' = projections \cup {<<o, "ready">>}
        /\ UNCHANGED <<storeVars, saved, rowVars, tasks, sweep, failures, crashes>>
    BY <1>9 DEF ReplayCreateManifest
  <2>2. TypeOK' /\ Drawn'
    BY <1>2, <1>3, <2>1 DEF TypeOK, Drawn, storeVars, rowVars, FulfillmentStatus
  <2>3. \A p \in Orders : \A s : Shows(p, s)' <=> Shows(p, s) BY <2>1 DEF Shows, rowVars
  <2>4. Shows(o, "ready") BY <2>1 DEF Shows
  <2>5. \A p \in Orders : Shown(p)'
    BY <2>1, <2>3, <2>4 DEF IntakeInv, Shown, storeVars
  <2>6. \A p \in Orders : LostForGood(p)' /\ WrittenOff(p)' /\ OnTrip(p)'
    BY <2>1 DEF IntakeInv, LostForGood, WrittenOff, OnTrip, storeVars, rowVars
  <2>7. QED BY <2>1, <2>2, <2>5, <2>6 DEF IntakeInv, rowVars
<1>10. QED
  BY <1>1, <1>4, <1>5, <1>6, <1>7, <1>8, <1>9
  DEF CloseManifest, DepartManifest, CancelManifest, RemoveOrder, RecordFailure

----------------------------------------------------------------------------
(* The theorems.                                                           *)

LEMMA InitInv ==
    ASSUME Init
    PROVE  IntakeInv /\ Lifecycle!Init
<1>1. \A o \in Orders :
         /\ memory[o] = IF o \in Legacy THEN LegacyOrder ELSE NoOrder
         /\ saved[o] = memory[o]
         /\ row[o] \in Row /\ row[o].trip = "NONE"
         /\ row[o].state = IF o \in Legacy THEN "POOLED" ELSE "NONE"
  <2>1. PICK r \in BOOLEAN :
           row = [o \in Orders |-> IF o \in Legacy
                                   THEN [NoRow EXCEPT !.state = "POOLED", !.resolved = r]
                                   ELSE NoRow]
    BY DEF Init
  <2>2. NoRow \in Row /\ NoRow.trip = "NONE" /\ NoRow.state = "NONE" BY DEF NoRow, Row
  <2>3. [NoRow EXCEPT !.state = "POOLED", !.resolved = r] \in
           {q \in Row : q.trip = "NONE" /\ q.state = "POOLED"}
    BY <2>2 DEF NoRow, Row
  <2>4. QED BY <2>1, <2>2, <2>3 DEF Init
<1>2. LegacyOrder \in Order /\ NoOrder \in Order
  BY DEF LegacyOrder, NoOrder, Order, FulfillmentStatus
<1>3. memory \in [Orders -> Order] /\ saved \in [Orders -> Order] BY <1>2 DEF Init
<1>4. row \in [Orders -> Row]
  <2>1. row = [o \in Orders |-> row[o]] BY DEF Init
  <2>2. QED BY <1>1, <2>1
<1>5. IdleSweep \in Sweep BY Bounds DEF IdleSweep, Sweep
<1>6. TypeOK
  <2>1. drawn \subseteq Orders /\ sweep \in Sweep BY <1>5, OrderSets DEF Init
  <2>2. answered = {} /\ tasks = {} /\ projections = {} /\ failures = 0 /\ crashes = 0
    BY DEF Init
  <2>3. 0 \in 0..MaxFailures /\ 0 \in 0..MaxCrashes BY Bounds
  <2>4. QED BY <1>3, <1>4, <2>1, <2>2, <2>3 DEF TypeOK
<1>7. Drawn BY DEF Init, Drawn, IdleSweep
<1>8. \A o \in Orders : LostForGood(o) /\ WrittenOff(o) /\ OnTrip(o) /\ Shown(o)
  BY <1>1 DEF Init, LostForGood, WrittenOff, OnTrip, Shown, Shows, LegacyOrder, NoOrder
<1>9. Lifecycle!Init BY <1>1 DEF Lifecycle!Init
<1>10. QED BY <1>6, <1>7, <1>8, <1>9 DEF IntakeInv

LEMMA NextInv ==
    ASSUME IntakeInv, [Next]_vars
    PROVE  /\ IntakeInv'
           /\ UNCHANGED row \/ \E o \in Orders, r \in Row : RowStep(o, r)
<1>1. CASE Next BY <1>1, NextStore, NextIntake, NextSweep, NextDispatch DEF Next
<1>2. CASE UNCHANGED vars
  <2>1. TypeOK' /\ Drawn'
    BY <1>2 DEF vars, storeVars, rowVars, processVars, IntakeInv, TypeOK, Drawn
  <2>2. \A o \in Orders : LostForGood(o)' /\ WrittenOff(o)' /\ OnTrip(o)' /\ Shown(o)'
    BY <1>2 DEF vars, storeVars, rowVars, processVars, IntakeInv, LostForGood, WrittenOff,
                OnTrip, Shown, Shows
  <2>3. QED BY <1>2, <2>1, <2>2 DEF IntakeInv, vars, rowVars
<1>3. QED BY <1>1, <1>2

LEMMA StepFollows ==
    ASSUME IntakeInv, [Next]_vars
    PROVE  [Lifecycle!Next]_<<[o \in Orders |-> row[o].state], [o \in Orders |-> row[o].trip]>>
<1> DEFINE Goal == [Lifecycle!Next]_<<[o \in Orders |-> row[o].state], [o \in Orders |-> row[o].trip]>>
<1>1. row \in [Orders -> Row] BY DEF IntakeInv, TypeOK
<1>2. CASE UNCHANGED row BY <1>2
<1>3. ASSUME NEW o \in Orders, NEW q \in Row, RowStep(o, q) PROVE Goal
  <2> DEFINE r == row[o]
  <2>1. row' = [row EXCEPT ![o] = q] /\ Moves(r, q) BY <1>3 DEF RowStep, SetRow
  <2>2. /\ [p \in Orders |-> row'[p].state] =
              [p \in Orders |-> IF p \in {o} THEN q.state ELSE row[p].state]
        /\ [p \in Orders |-> row'[p].trip] =
              [p \in Orders |-> IF p \in {o} THEN q.trip ELSE row[p].trip]
    BY <1>1, <2>1
  <2>3. Lifecycle!Move({o}, q.state, q.trip) BY <2>2 DEF Lifecycle!Move
  <2>4. o \in Lifecycle!In(r.state) /\ o \in Lifecycle!On(r.trip)
    BY DEF Lifecycle!In, Lifecycle!On
  <2>5. {o} \in SUBSET Orders OBVIOUS
  <2>6. CASE q.state = r.state /\ q.trip = r.trip BY <1>1, <2>2, <2>6
  <2>7. CASE r.state = "NONE" /\ q.state = "POOLED" /\ q.trip = "NONE"
    BY <2>3, <2>4, <2>7 DEF Lifecycle!Pool, Lifecycle!Next
  <2>8. CASE r.state = "POOLED" /\ q.state = "ALLOCATED" /\ q.trip = "OPEN"
    BY <2>3, <2>4, <2>5, <2>8 DEF Lifecycle!Load, Lifecycle!Next
  <2>9. CASE r.state = "POOLED" /\ q.state \in {"CANCELLED", "ORPHANED"} /\ q.trip = "NONE"
    BY <2>3, <2>4, <2>9 DEF Lifecycle!Cancel, Lifecycle!Orphan, Lifecycle!Next
  <2>10. CASE r.trip = "OPEN" /\ q.state = "ALLOCATED" /\ q.trip = "CLOSED"
    BY <2>3, <2>4, <2>5, <2>10 DEF Lifecycle!Close, Lifecycle!Next
  <2>11. CASE r.trip = "CLOSED" /\ q.state = "ALLOCATED" /\ q.trip = "DEPARTED"
    BY <2>3, <2>4, <2>5, <2>11 DEF Lifecycle!Depart, Lifecycle!Next
  <2>12. CASE r.trip = "OPEN" /\ q.state = "CANCELLED" /\ q.trip = "NONE"
    BY <2>3, <2>4, <2>12 DEF Lifecycle!Cancel, Lifecycle!Next
  <2>13. CASE r.trip # "NONE" /\ q.state = "POOLED" /\ q.trip = "NONE"
    <3>1. r.trip \in {"OPEN", "CLOSED", "DEPARTED"} BY <1>1, <2>13 DEF Row
    <3>2. CASE r.trip = "DEPARTED"
      BY <2>3, <2>4, <2>13, <3>2 DEF Lifecycle!Fail, Lifecycle!Next
    <3>3. CASE r.trip \in {"OPEN", "CLOSED"}
      BY <2>3, <2>4, <2>5, <2>13, <3>3 DEF Lifecycle!Return, Lifecycle!Next
    <3>4. QED BY <3>1, <3>2, <3>3
  <2>14. CASE r.trip \in {"CLOSED", "DEPARTED"} /\ q.state = "DELIVERED" /\ q.trip = "NONE"
    BY <2>3, <2>4, <2>14 DEF Lifecycle!Deliver, Lifecycle!Next
  <2>15. QED
    BY <2>1, <2>6, <2>7, <2>8, <2>9, <2>10, <2>11, <2>12, <2>13, <2>14 DEF Moves
<1>4. QED BY <1>2, <1>3, NextInv

\* Intake, reconciliation, projection and restarts keep what each side knows of the
\* other true.
THEOREM IntakeSafety == Spec => []IntakeInv
BY InitInv, NextInv, PTL DEF Spec

\* Every row, record, event and task keeps a value of its type.
THEOREM IntakeTypeCorrect == Spec => []TypeOK
<1>1. IntakeInv => TypeOK BY DEF IntakeInv
<1>2. QED BY <1>1, IntakeSafety, PTL

\* An order is written off only when neither memory nor a restart has its invoice.
THEOREM WrittenOffIsGone == Spec => []OrphanIsGone
BY IntakeSafety, InvImplies, PTL

\* The status shown is never ahead of what fulfillment has done.
THEOREM ShownIsTrue == Spec => []ProjectionTrue
BY IntakeSafety, InvImplies, PTL

\* Whatever is repeated, lost or late, each row follows the lifecycle of orders.
THEOREM RowsFollowLifecycle == Spec => FollowsLifecycle
BY InitInv, NextInv, StepFollows, PTL DEF Spec, FollowsLifecycle, Lifecycle!Spec
=============================================================================
