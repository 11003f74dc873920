----------------------- MODULE FulfillmentLockingProofs -----------------------
(***************************************************************************)
(* The locking protocol implements the transactions of FulfillmentDispatch *)
(* for any number of calls, rows and retries, and only order rows can be   *)
(* part of a deadlock.                                                     *)
(***************************************************************************)
EXTENDS FulfillmentLocking, FulfillmentTripProofs, SequenceTheorems

----------------------------------------------------------------------------
(* The invariant.                                                          *)

Steps == {"idle", "reading", "locking", "committing"} \cup Ends
Reads == [state : OrderState, corridor : Corridors \cup {None},
          carrier : Manifests \cup {None}, version : 0..MaxGeometry]
Writes == [orders : SUBSET Orders, header : Header, value : Nat, on : BOOLEAN]
Call == [request : Requests \cup {NoRequest}, step : Steps, attempt : 1..MaxAttempts,
         stage : 1..3, held : SUBSET Rows, wanted : Seq(Rows), reads : Reads, writes : Writes]

Op(p) == call[p].request.op
Working(p) == call[p].step \in {"locking", "committing"}
Calling(p) == call[p].step = "reading" \/ Working(p)

RowsOf(s) == {s[i] : i \in DOMAIN s}
Queued(p) == RowsOf(call[p].wanted)
Covered(p) == call[p].held \cup Queued(p)

\* A call has a request once it begins, and rows only while it works.
Shaped(p) ==
    /\ call[p].step # "idle" => call[p].request \in Requests
    /\ ~Working(p) => call[p].held = {} /\ call[p].wanted = <<>>
    /\ call[p].step = "committing" => call[p].wanted = <<>>
    /\ Working(p) => call[p].stage \in 1..Stages(call[p].request)
    /\ call[p].step = "committing" => call[p].stage = Stages(call[p].request)

\* What the call looked up before its transaction still holds.
Admissible(p) ==
    LET r == call[p].request
    IN  /\ r.op \in {"intake", "resolve"} => r.order \in invoices
        /\ r.op = "release" =>
              orderState[r.order] # "NONE" /\ (r.order \in invoices <=> r.state = "CANCELLED")
        /\ r.op \in {"remove", "close", "depart", "cancel", "record"} => status[r.manifest] # "NONE"

Unused(p) == call[p].step \notin Ends => status[FreshId[p]] = "NONE"

\* The rows that decision and writes depend on and that the statement of a stage locks.
StageClaims(r, stage, reads) ==
    CASE r.op = "create" ->
            IF stage = 1 THEN {r.corridor} ELSE IF stage = 2 THEN {r.vehicle} ELSE {}
      [] r.op \in {"remove", "record"} -> IF stage = 1 THEN {r.manifest} ELSE {r.order}
      [] r.op = "cancel" -> IF stage = 1 THEN {r.manifest} ELSE Returned(r.manifest)
      [] r.op = "depart" -> IF stage = 1 THEN {r.manifest} ELSE {}
      [] r.op = "close" -> {r.manifest}
      [] r.op = "release" -> ({reads.carrier} \ {None}) \cup {r.order}
      [] r.op = "resolve" -> IF reads.version = 0 THEN {} ELSE {r.corridor, r.order}
      [] r.op = "intake" -> {}
      [] r.op \in {"geometry", "corridor"} -> {r.corridor}
      [] r.op = "vehicle" -> {r.vehicle}

Claims(p, stage) == StageClaims(call[p].request, stage, call[p].reads)

\* The call has locked these rows, or is about to.
Claimed(p) ==
    /\ Claims(p, call[p].stage) \subseteq Covered(p)
    /\ \A i \in 1..(call[p].stage - 1) : Claims(p, i) \subseteq call[p].held

\* The row the call's upsert inserts is its own until it commits.
Upserting(p) ==
    LET o == call[p].request.order
    IN  Op(p) \in {"intake", "resolve"} => o \in call[p].held \/ orderState[o] # "NONE"

Matched(p) ==
    LET r == call[p].request
    IN  r.op = "resolve" /\ call[p].reads.version # 0 => r.corridor \in Governed /\ location[ShopOf[r.order]] # 0

\* Locked rows exist, except the order row the call itself inserts.
RowsExist(p) ==
    /\ \A m \in Manifests \cap Covered(p) : status[m] # "NONE"
    /\ \A o \in Orders \cap Queued(p) : orderState[o] # "NONE" \/ o \in call[p].held

\* What a removal checked before it locked the order.
Checked(p) ==
    Op(p) = "remove" /\ call[p].stage = 2 => Loadable(call[p].request.manifest)

\* What a call that is about to commit decided.
Decision(p) ==
    LET r == call[p].request
        k == call[p]
    IN  /\ r.op = "create" =>
              /\ k.writes.orders # {} /\ k.writes.orders \subseteq invoices
              /\ k.writes.header = HeaderOf(r.corridor, r.vehicle, r.planned)
              /\ Openable(r.corridor, r.vehicle, r.planned)
              /\ \A o \in k.writes.orders : Eligible(o, r.corridor)
              /\ Load(k.writes.orders) <= capacity[r.vehicle]
        /\ r.op = "remove" =>
              Loadable(r.manifest) /\ <<r.manifest, r.order>> \in allocated /\ Readable(r.manifest)
        /\ r.op = "depart" => Departable(r.manifest) /\ k.writes.value = ServiceDay(r.manifest)
        /\ r.op = "cancel" => Cancellable(r.manifest)
        /\ r.op = "record" => Recordable(r.manifest, r.order, r.outcome)
        /\ r.op = "close" => Closable(r.manifest)
        /\ r.op = "release" =>
              /\ orderState[r.order] = k.reads.state
              /\ \/ k.reads.state = "POOLED"
                 \/ k.reads.state = "ALLOCATED" /\ r.state = "ORPHANED"
                 \/ /\ k.reads.state = "ALLOCATED"
                    /\ k.reads.carrier \in Manifests /\ Loadable(k.reads.carrier)
                    /\ <<k.reads.carrier, r.order>> \in allocated
        /\ r.op = "resolve" /\ k.reads.version # 0 =>
              /\ r.corridor \in active
              /\ geometry[r.corridor] = k.reads.version
              /\ Upserted(r.order) = "POOLED"
        /\ r.op = "geometry" =>
              geometry[r.corridor] < MaxGeometry /\ k.writes.value = geometry[r.corridor] + 1
        /\ r.op = "vehicle" =>
              IF r.patch = "active"
              THEN k.writes.on = r.on /\ k.writes.value = capacity[r.vehicle]
              ELSE k.writes.on = (r.vehicle \in active) /\ k.writes.value = r.grams

Decided(p) == call[p].writes.orders \subseteq call[p].held /\ Decision(p)

CallInv(p) ==
    /\ Shaped(p)
    /\ Unused(p)
    /\ Calling(p) => Admissible(p)
    /\ Working(p) => Claimed(p) /\ Upserting(p) /\ Matched(p) /\ RowsExist(p) /\ Checked(p)
    /\ call[p].step = "committing" => Decided(p)

\* What foreign keys say: a manifest has its corridor and vehicle, a stop its order.
Keyed ==
    /\ \A m \in Manifests :
          status[m] # "NONE" => manifest[m].corridor \in Corridors /\ manifest[m].vehicle \in Vehicles
    /\ \A m \in Manifests, o \in Orders :
          delivery[<<m, o>>] # "NONE" => orderState[o] # "NONE"

OneHolder == \A p, q \in Callers : p # q => call[p].held \cap call[q].held = {}

LockingInv ==
    /\ TypeOK /\ AllocationInv /\ Keyed
    /\ call \in [Callers -> Call]
    /\ OneHolder
    /\ \A p \in Callers : CallInv(p)

----------------------------------------------------------------------------
(* The order in which rows are locked.                                     *)

Level(x) ==
    IF x \in Corridors THEN 1 ELSE IF x \in Manifests THEN 2 ELSE IF x \in Vehicles THEN 3 ELSE 4

Below(x, y) ==
    \/ Level(x) < Level(y)
    \/ x \in Orders /\ y \in Orders
    \/ x \in Corridors /\ y \in Corridors /\ Id[x] < Id[y]

\* The highest level a statement of this stage locks.
Reach(op, stage) ==
    CASE op = "create" -> IF stage = 1 THEN 1 ELSE IF stage = 2 THEN 3 ELSE 4
      [] op \in {"remove", "cancel", "record"} -> IF stage = 1 THEN 2 ELSE 4
      [] op = "depart" -> IF stage = 1 THEN 2 ELSE 3
      [] OTHER -> 4

Ascends(s) == \A i, j \in DOMAIN s : i < j => Below(s[i], s[j])

Ascending(p) ==
    /\ Ascends(call[p].wanted)
    /\ \A x \in call[p].held :
          (x \in Orders => orderState[x] # "NONE") => \A y \in Queued(p) : Below(x, y)
    /\ \A x \in Covered(p) : Level(x) <= Reach(Op(p), call[p].stage)

OrderInv == LockingInv /\ \A p \in Callers : Locking(p) => Ascending(p)

----------------------------------------------------------------------------
(* Rows and requests.                                                      *)

LEMMA Levels ==
    /\ \A x \in Rows : Level(x) \in 1..4
    /\ \A x \in Corridors : Level(x) = 1
    /\ \A x \in Manifests : Level(x) = 2
    /\ \A x \in Vehicles : Level(x) = 3
    /\ \A x \in Orders : Level(x) = 4
  BY RowsAreApart DEF Level, Rows

Manifested == {"remove", "close", "depart", "cancel", "record"}

LEMMA RequestFields ==
    ASSUME NEW r \in Requests
    PROVE  /\ r.op \in {"create", "remove", "close", "depart", "cancel", "record", "release",
                       "resolve", "intake", "geometry", "corridor", "vehicle"}
           /\ r.op = "create" =>
                 /\ r.corridor \in Corridors /\ r.vehicle \in Vehicles /\ r.planned \in 0..MaxDay
                 /\ r.automatic \in BOOLEAN /\ r.orders \in SUBSET Orders
           /\ r.op \in Manifested => r.manifest \in Manifests
           /\ r.op \in {"remove", "record", "release", "resolve", "intake"} => r.order \in Orders
           /\ r.op = "record" => r.outcome \in DeliveryOutcome
           /\ r.op = "release" => r.state \in {"CANCELLED", "ORPHANED"}
           /\ r.op \in {"resolve", "geometry", "corridor"} => r.corridor \in Corridors
           /\ r.op = "corridor" => r.on \in BOOLEAN
           /\ r.op = "vehicle" => r.vehicle \in Vehicles /\ r.patch \in {"active", "capacity"}
           /\ r.op = "vehicle" /\ r.patch = "active" => r.on \in BOOLEAN
           /\ r.op = "vehicle" /\ r.patch = "capacity" => r.grams \in Capacities
<1>1. r \in Request BY CallSettings
<1>2. QED BY <1>1 DEF Request, Manifested

----------------------------------------------------------------------------
(* Plans.                                                                  *)

\* A sequence as long as a finite set, of its elements and without repetition, has
\* them all.
LEMMA OrderingCovers ==
    ASSUME NEW S, IsFiniteSet(S), NEW s \in [1..Cardinality(S) -> S],
           \A i, j \in DOMAIN s : s[i] = s[j] => i = j
    PROVE  s \in Seq(S) /\ RowsOf(s) = S
<1>1. Cardinality(S) \in Nat BY FS_CardinalityType
<1>2. s \in Injection(1..Cardinality(S), S) BY DEF Injection, IsInjective
<1>3. Cardinality(1..Cardinality(S)) = Cardinality(S) BY <1>1, FS_Interval
<1>4. s \in Surjection(1..Cardinality(S), S) BY <1>2, <1>3, FS_Injection
<1>5. RowsOf(s) = S BY <1>4 DEF Surjection, RowsOf
<1>6. QED BY <1>1, <1>5

LEMMA InOrderCovers ==
    ASSUME NEW S, IsFiniteSet(S), NEW rank, \A x \in S : rank[x] \in Nat,
           NEW s \in InOrder(S, rank)
    PROVE  /\ s \in Seq(S) /\ RowsOf(s) = S
           /\ \A i, j \in DOMAIN s : i < j => rank[s[i]] < rank[s[j]]
<1>1. /\ s \in [1..Cardinality(S) -> S]
      /\ \A i, j \in DOMAIN s : i < j => rank[s[i]] < rank[s[j]]
  BY DEF InOrder
<1>2. Cardinality(S) \in Nat BY FS_CardinalityType
<1>3. ASSUME NEW i \in DOMAIN s, NEW j \in DOMAIN s, s[i] = s[j] PROVE i = j
  <2>1. i \in Int /\ j \in Int /\ rank[s[i]] \in Nat BY <1>1, <1>2
  <2>2. ~(i < j) /\ ~(j < i) BY <1>1, <1>3, <2>1
  <2>3. QED BY <2>1, <2>2
<1>4. QED BY <1>1, <1>3, OrderingCovers

LEMMA InAnyOrderCovers ==
    ASSUME NEW S, IsFiniteSet(S), NEW s \in InAnyOrder(S)
    PROVE  s \in Seq(S) /\ RowsOf(s) = S
  BY OrderingCovers DEF InAnyOrder

LEMMA OneRow ==
    ASSUME NEW x \in Rows
    PROVE  <<x>> \in Seq(Rows) /\ RowsOf(<<x>>) = {x} /\ Ascends(<<x>>)
  BY DEF RowsOf, Ascends

LEMMA NoRow == <<>> \in Seq(Rows) /\ RowsOf(<<>>) = {} /\ Ascends(<<>>)
  BY DEF RowsOf, Ascends

\* Plans that follow each other.
LEMMA PlansJoin ==
    ASSUME NEW s \in Seq(Rows), NEW t \in Seq(Rows)
    PROVE  /\ s \o t \in Seq(Rows) /\ RowsOf(s \o t) = RowsOf(s) \cup RowsOf(t)
           /\ (/\ Ascends(s) /\ Ascends(t)
               /\ \A x \in RowsOf(s), y \in RowsOf(t) : Below(x, y)) => Ascends(s \o t)
<1> DEFINE u == s \o t
           n == Len(s)
<1>1. /\ u \in Seq(Rows) /\ Len(u) = n + Len(t) /\ n \in Nat /\ Len(t) \in Nat
      /\ DOMAIN u = 1..(n + Len(t)) /\ DOMAIN s = 1..n /\ DOMAIN t = 1..Len(t)
  BY ConcatProperties, LenProperties
<1>2. \A i \in DOMAIN u : u[i] = IF i <= n THEN s[i] ELSE t[i - n]
  BY <1>1, ConcatProperties
<1>3. RowsOf(u) \subseteq RowsOf(s) \cup RowsOf(t)
  BY <1>1, <1>2 DEF RowsOf
<1>4. RowsOf(s) \subseteq RowsOf(u)
  BY <1>1, <1>2 DEF RowsOf
<1>5. RowsOf(t) \subseteq RowsOf(u)
  <2>1. ASSUME NEW i \in DOMAIN t PROVE t[i] \in RowsOf(u)
    <3>1. n + i \in DOMAIN u /\ u[n + i] = t[i] BY <1>1, <1>2
    <3>2. QED BY <3>1 DEF RowsOf
  <2>2. QED BY <2>1 DEF RowsOf
<1>6. ASSUME Ascends(s), Ascends(t), \A x \in RowsOf(s), y \in RowsOf(t) : Below(x, y),
             NEW i \in DOMAIN u, NEW j \in DOMAIN u, i < j
      PROVE  Below(u[i], u[j])
  <2>1. CASE j <= n BY <1>1, <1>2, <1>6, <2>1 DEF Ascends
  <2>2. CASE i <= n /\ ~(j <= n)
    <3>1. u[i] \in RowsOf(s) BY <1>1, <1>2, <2>2 DEF RowsOf
    <3>2. u[j] \in RowsOf(t)
      <4>1. j - n \in DOMAIN t /\ u[j] = t[j - n] BY <1>1, <1>2, <2>2
      <4>2. QED BY <4>1 DEF RowsOf
    <3>3. QED BY <1>6, <3>1, <3>2
  <2>3. CASE ~(i <= n)
    <3>1. /\ i - n \in DOMAIN t /\ u[i] = t[i - n] /\ j - n \in DOMAIN t /\ u[j] = t[j - n]
          /\ i - n < j - n
      BY <1>1, <1>2, <1>6, <2>3
    <3>2. QED BY <1>6, <3>1 DEF Ascends
  <2>4. QED BY <1>1, <1>6, <2>1, <2>2, <2>3
<1>7. QED
  <2>1. Ascends(u) <=> \A i, j \in DOMAIN u : i < j => Below(u[i], u[j]) BY DEF Ascends
  <2> HIDE DEF u, n
  <2>2. RowsOf(u) = RowsOf(s) \cup RowsOf(t) BY <1>3, <1>4, <1>5
  <2>3. QED BY <1>1, <1>6, <2>1, <2>2 DEF u

\* What the statement of a stage locks: existing rows, in ascending order and above
\* those of the stages before it, the claimed ones among them.
Conforms(r, stage, reads, s) ==
    /\ s \in Seq(Rows)
    /\ Ascends(s)
    /\ StageClaims(r, stage, reads) \subseteq RowsOf(s)
    /\ \A m \in Manifests \cap RowsOf(s) : status[m] # "NONE"
    /\ \A o \in Orders \cap RowsOf(s) : orderState[o] # "NONE" \/ (r.op = "resolve" /\ o = r.order)
    /\ \A x \in RowsOf(s) :
          Level(x) <= Reach(r.op, stage) /\ (stage > 1 => Reach(r.op, stage - 1) < Level(x))

LEMMA OneRowConforms ==
    ASSUME NEW r, NEW stage, NEW reads, NEW x \in Rows,
           StageClaims(r, stage, reads) \subseteq {x},
           x \in Manifests => status[x] # "NONE", x \in Orders => orderState[x] # "NONE",
           Level(x) <= Reach(r.op, stage), stage > 1 => Reach(r.op, stage - 1) < Level(x)
    PROVE  Conforms(r, stage, reads, <<x>>)
  BY OneRow DEF Conforms

LEMMA OrderRowsConform ==
    ASSUME NEW r, NEW stage, NEW reads, NEW S \in SUBSET Orders, NEW s, s \in Seq(S), RowsOf(s) = S,
           StageClaims(r, stage, reads) \subseteq S, \A o \in S : orderState[o] # "NONE",
           Reach(r.op, stage) = 4, stage > 1 => Reach(r.op, stage - 1) < 4
    PROVE  Conforms(r, stage, reads, s)
<1>1. s \in Seq(Rows) BY SeqMonotonic DEF Rows
<1>2. Ascends(s)
  <2>1. \A i \in DOMAIN s : s[i] \in Orders BY DEF RowsOf
  <2>2. QED BY <2>1 DEF Ascends, Below
<1>3. \A x \in S : x \notin Manifests /\ Level(x) = 4 BY Levels, RowsAreApart
<1>4. QED BY <1>1, <1>2, <1>3 DEF Conforms

LEMMA CorridorRows ==
    ASSUME NEW S \in SUBSET Corridors, IsFiniteSet(S), NEW s \in InOrder(S, Id)
    PROVE  s \in Seq(Rows) /\ Ascends(s) /\ RowsOf(s) = S
<1>1. \A x \in S : Id[x] \in Nat BY CallSettings
<1>2. /\ s \in Seq(S) /\ RowsOf(s) = S
      /\ \A i, j \in DOMAIN s : i < j => Id[s[i]] < Id[s[j]]
  BY <1>1, InOrderCovers
<1>3. s \in Seq(Rows) BY <1>2, SeqMonotonic DEF Rows
<1>4. \A i \in DOMAIN s : s[i] \in Corridors BY <1>2 DEF RowsOf
<1>5. QED BY <1>2, <1>3, <1>4 DEF Ascends, Below

\* A corridor is locked before the manifests and orders that follow it.
LEMMA CorridorsFirst ==
    ASSUME NEW x \in Corridors, NEW y \in Manifests \cup Vehicles \cup Orders
    PROVE  Below(x, y)
  BY Levels DEF Below

LEMMA ReleasePlanConforms ==
    ASSUME TypeOK, NEW r \in Requests, r.op = "release", NEW reads \in Reads,
           orderState[r.order] # "NONE",
           reads.carrier # None => status[reads.carrier] # "NONE",
           NEW s \in ReleasePlan(r, reads)
    PROVE  Conforms(r, 1, reads, s)
<1> DEFINE C == CorridorsOf(reads)
           one == <<r.order>>
           carrier == Present(reads.carrier)
<1>1. r.order \in Orders /\ r.order \in Rows BY RequestFields DEF Rows
<1>2. C \in SUBSET Corridors /\ IsFiniteSet(C)
  <2>1. C \in SUBSET Corridors BY DEF CorridorsOf, TypeOK, Header, Reads
  <2>2. IsFiniteSet(C)
    <3> DEFINE x == reads.corridor
               y == IF reads.carrier = None THEN None ELSE manifest[reads.carrier].corridor
    <3>1. IsFiniteSet({x} \cup {y}) BY FS_Singleton, FS_Union
    <3>2. C \subseteq {x} \cup {y} BY DEF CorridorsOf
    <3>3. QED BY <3>1, <3>2, FS_Subset
  <2>3. QED BY <2>1, <2>2
<1>3. PICK a \in InOrder(C, Id) : s = (a \o carrier) \o one
  BY DEF ReleasePlan
<1>4. a \in Seq(Rows) /\ Ascends(a) /\ RowsOf(a) = C BY <1>2, CorridorRows
<1>5. /\ carrier \in Seq(Rows) /\ Ascends(carrier)
      /\ RowsOf(carrier) = {reads.carrier} \ {None} /\ RowsOf(carrier) \subseteq Manifests
  <2>1. CASE reads.carrier = None BY <2>1, NoRow DEF Present
  <2>2. CASE reads.carrier # None
    <3>1. reads.carrier \in Manifests /\ reads.carrier \in Rows BY <2>2 DEF Reads, Rows
    <3>2. QED BY <2>2, <3>1, OneRow DEF Present
  <2>3. QED BY <2>1, <2>2
<1>6. one \in Seq(Rows) /\ Ascends(one) /\ RowsOf(one) = {r.order} BY <1>1, OneRow
<1>7. /\ a \o carrier \in Seq(Rows) /\ RowsOf(a \o carrier) = C \cup RowsOf(carrier)
      /\ Ascends(a \o carrier)
  <2>1. \A x \in C, y \in RowsOf(carrier) : Below(x, y) BY <1>2, <1>5, CorridorsFirst
  <2> HIDE DEF C, carrier
  <2>2. QED BY <1>4, <1>5, <2>1, PlansJoin
<1>8. /\ s \in Seq(Rows) /\ Ascends(s)
      /\ RowsOf(s) = C \cup RowsOf(carrier) \cup {r.order}
  <2>1. \A x \in C \cup RowsOf(carrier) : Below(x, r.order)
    BY <1>1, <1>2, <1>5, Levels DEF Below
  <2> HIDE DEF C, carrier, one
  <2>2. QED BY <1>3, <1>6, <1>7, <2>1, PlansJoin
<1>9. StageClaims(r, 1, reads) \subseteq RowsOf(s) BY <1>5, <1>8 DEF StageClaims
<1>10. \A x \in RowsOf(s) : Level(x) <= Reach(r.op, 1)
  <2>1. RowsOf(s) \subseteq Rows BY <1>1, <1>2, <1>5, <1>8 DEF Rows
  <2>2. Reach(r.op, 1) = 4 BY DEF Reach
  <2>3. QED BY <2>1, <2>2, Levels
<1>11. \A m \in Manifests \cap RowsOf(s) : status[m] # "NONE"
  BY <1>1, <1>2, <1>5, <1>8, RowsAreApart
<1>12. \A o \in Orders \cap RowsOf(s) : orderState[o] # "NONE"
  BY <1>1, <1>2, <1>5, <1>8, RowsAreApart
<1> HIDE DEF C, carrier, one
<1>13. QED BY <1>8, <1>9, <1>10, <1>11, <1>12 DEF Conforms

LEMMA ResolvePlanConforms ==
    ASSUME NEW r \in Requests, r.op = "resolve", NEW reads \in Reads, NEW s \in ResolvePlan(r, reads)
    PROVE  Conforms(r, 1, reads, s)
<1>0. r.order \in Orders /\ r.corridor \in Corridors /\ r.order \in Rows
  BY RequestFields DEF Rows
<1>1. Reach(r.op, 1) = 4 BY DEF Reach
<1>2. CASE reads.version = 0
  BY <1>1, <1>2, NoRow DEF ResolvePlan, StageClaims, Conforms
<1>3. CASE reads.version # 0
  <2> DEFINE C == {reads.corridor, r.corridor} \ {None}
             one == <<r.order>>
  <2>1. C \in SUBSET Corridors BY <1>0 DEF Reads
  <2>2. IsFiniteSet(C)
    <3>1. IsFiniteSet({reads.corridor} \cup {r.corridor}) BY FS_Singleton, FS_Union
    <3>2. C \subseteq {reads.corridor} \cup {r.corridor} OBVIOUS
    <3>3. QED BY <3>1, <3>2, FS_Subset
  <2>3. PICK a \in InOrder(C, Id) : s = a \o one BY <1>3 DEF ResolvePlan
  <2>4. a \in Seq(Rows) /\ Ascends(a) /\ RowsOf(a) = C BY <2>1, <2>2, CorridorRows
  <2>5. one \in Seq(Rows) /\ Ascends(one) /\ RowsOf(one) = {r.order} BY <1>0, OneRow
  <2>6. r.corridor \in C BY <1>0, DomainsAreFinite
  <2>7. s \in Seq(Rows) /\ Ascends(s) /\ RowsOf(s) = C \cup {r.order}
    <3>1. \A x \in C : Below(x, r.order) BY <1>0, <2>1, CorridorsFirst
    <3> HIDE DEF C, one
    <3>2. QED BY <2>3, <2>4, <2>5, <3>1, PlansJoin
  <2>8. StageClaims(r, 1, reads) \subseteq RowsOf(s) BY <1>3, <2>6, <2>7 DEF StageClaims
  <2>9. \A x \in RowsOf(s) : Level(x) <= 4 BY <1>0, <2>1, <2>7, Levels
  <2>10. \A x \in RowsOf(s) : x \notin Manifests /\ (x \in Orders => x = r.order)
    BY <1>0, <2>1, <2>7, RowsAreApart
  <2> HIDE DEF C, one
  <2>11. QED BY <1>1, <2>7, <2>8, <2>9, <2>10 DEF Conforms
<1>4. QED BY <1>2, <1>3

LEMMA TwoRows ==
    ASSUME NEW x \in Rows, NEW y \in Rows, Below(x, y)
    PROVE  <<x, y>> \in Seq(Rows) /\ RowsOf(<<x, y>>) = {x, y} /\ Ascends(<<x, y>>)
  BY DEF RowsOf, Ascends

\* What a call knows of its rows when it opens a stage.
Ready(r, stage, reads) ==
    /\ r.op \in Manifested => status[r.manifest] # "NONE"
    /\ r.op = "release" =>
          /\ orderState[r.order] # "NONE"
          /\ reads.carrier # None => status[reads.carrier] # "NONE"
    /\ r.op \in {"remove", "record"} /\ stage = 2 => orderState[r.order] # "NONE"

\* Every statement of every operation locks what its stage is expected to.
LEMMA PlanConforms ==
    ASSUME TypeOK, Keyed, NEW r \in Requests, NEW stage \in 1..Stages(r), NEW reads \in Reads,
           Ready(r, stage, reads), NEW s \in PlansAt(r, stage, reads)
    PROVE  Conforms(r, stage, reads, s)
<1> USE DEF Ready, Manifested
<1>1. ASSUME NEW S \in SUBSET Orders PROVE IsFiniteSet(S) BY DomainsAreFinite, FS_Subset
<1>2. CASE r.op = "create"
  <2>1. r.corridor \in Corridors /\ r.vehicle \in Vehicles /\ r.orders \in SUBSET Orders /\ r.automatic \in BOOLEAN
    BY <1>2, RequestFields
  <2>2. r.corridor \in Rows /\ r.vehicle \in Rows BY <2>1 DEF Rows
  <2>3. stage \in 1..3 BY <1>2 DEF Stages
  <2>4. CASE stage = 1
    <3>1. s = <<r.corridor>> BY <1>2, <2>4 DEF PlansAt
    <3>2. Level(r.corridor) = 1 /\ r.corridor \notin Manifests \cup Orders
      BY <2>1, Levels, RowsAreApart
    <3>3. Reach(r.op, stage) = 1 /\ StageClaims(r, stage, reads) = {r.corridor}
      BY <1>2, <2>4 DEF Reach, StageClaims
    <3>4. QED BY <2>2, <2>4, <3>1, <3>2, <3>3, OneRowConforms
  <2>5. CASE stage = 2
    <3>1. s = <<r.vehicle>> BY <1>2, <2>5 DEF PlansAt
    <3>2. Level(r.vehicle) = 3 /\ r.vehicle \notin Manifests \cup Orders
      BY <2>1, Levels, RowsAreApart
    <3>3. /\ Reach(r.op, stage) = 3 /\ Reach(r.op, stage - 1) = 1
          /\ StageClaims(r, stage, reads) = {r.vehicle}
      BY <1>2, <2>5 DEF Reach, StageClaims
    <3>4. QED BY <2>2, <2>5, <3>1, <3>2, <3>3, OneRowConforms
  <2>6. CASE stage = 3
    <3>1. s \in SelectionPlan(r) BY <1>2, <2>6 DEF PlansAt
    <3>2. /\ Reach(r.op, stage) = 4 /\ Reach(r.op, stage - 1) = 3
          /\ StageClaims(r, stage, reads) = {}
      BY <1>2, <2>6 DEF Reach, StageClaims
    <3>3. PICK S \in SUBSET Orders :
             s \in Seq(S) /\ RowsOf(s) = S /\ \A o \in S : orderState[o] # "NONE"
      <4>1. CASE r.automatic
        <5> DEFINE S == Candidates(r.corridor)
        <5>1. S \in SUBSET Orders /\ \A o \in S : orderState[o] # "NONE" BY DEF Candidates
        <5>2. s \in InOrder(S, Age) BY <3>1, <4>1 DEF SelectionPlan
        <5>3. IsFiniteSet(S) /\ \A o \in S : Age[o] \in Nat BY <1>1, <5>1, OrderAttributes
        <5> HIDE DEF S
        <5>4. QED BY <5>1, <5>2, <5>3, InOrderCovers
      <4>2. CASE ~r.automatic
        <5> DEFINE S == Existing(r.orders)
        <5>1. S \in SUBSET Orders /\ \A o \in S : orderState[o] # "NONE" BY <2>1 DEF Existing
        <5>2. s \in InOrder(S, Id) BY <3>1, <4>2 DEF SelectionPlan
        <5>3. IsFiniteSet(S) /\ \A o \in S : Id[o] \in Nat BY <1>1, <5>1, CallSettings
        <5> HIDE DEF S
        <5>4. QED BY <5>1, <5>2, <5>3, InOrderCovers
      <4>3. QED BY <4>1, <4>2
    <3>4. QED BY <2>6, <3>2, <3>3, OrderRowsConform
  <2>7. QED BY <2>3, <2>4, <2>5, <2>6
<1>3. CASE r.op \in {"remove", "record"} /\ stage = 2
  <2>1. r.order \in Orders /\ r.order \in Rows BY <1>3, RequestFields DEF Rows
  <2>2. s = <<r.order>> BY <1>3 DEF PlansAt
  <2>3. Level(r.order) = 4 /\ r.order \notin Manifests BY <2>1, Levels, RowsAreApart
  <2>4. /\ Reach(r.op, stage) = 4 /\ Reach(r.op, stage - 1) = 2
        /\ StageClaims(r, stage, reads) = {r.order}
    BY <1>3 DEF Reach, StageClaims
  <2>5. QED BY <1>3, <2>1, <2>2, <2>3, <2>4, OneRowConforms
<1>4. CASE r.op = "remove" /\ stage = 1
  <2> DEFINE c == manifest[r.manifest].corridor
  <2>1. r.manifest \in Manifests /\ c \in Corridors BY <1>4, RequestFields DEF Keyed
  <2>2. s = <<c, r.manifest>> BY <1>4 DEF PlansAt
  <2>3. c \in Rows /\ r.manifest \in Rows /\ c \notin Manifests /\ {c, r.manifest} \cap Orders = {}
    BY <2>1, RowsAreApart DEF Rows
  <2>4. Level(c) = 1 /\ Level(r.manifest) = 2 BY <2>1, Levels
  <2>5. Below(c, r.manifest) BY <2>4 DEF Below
  <2>6. Reach(r.op, stage) = 2 /\ StageClaims(r, stage, reads) = {r.manifest}
    BY <1>4 DEF Reach, StageClaims
  <2> HIDE DEF c
  <2>7. QED BY <1>4, <2>2, <2>3, <2>4, <2>5, <2>6, TwoRows DEF Conforms
<1>5. CASE r.op \in {"record", "cancel", "depart", "close"} /\ stage = 1
  <2>1. r.manifest \in Manifests /\ r.manifest \in Rows /\ r.manifest \notin Orders
    BY <1>5, RequestFields, RowsAreApart DEF Rows
  <2>2. s = <<r.manifest>> BY <1>5 DEF PlansAt
  <2>3. Level(r.manifest) = 2 BY <2>1, Levels
  <2>4. Reach(r.op, stage) >= 2 /\ StageClaims(r, stage, reads) = {r.manifest}
    BY <1>5 DEF Reach, StageClaims
  <2>5. Reach(r.op, stage) \in 1..4 BY <1>5 DEF Reach
  <2>6. QED BY <1>5, <2>1, <2>2, <2>3, <2>4, <2>5, OneRowConforms
<1>6. CASE r.op = "cancel" /\ stage = 2
  <2> DEFINE S == Returned(r.manifest)
  <2>1. S \in SUBSET Orders /\ \A o \in S : orderState[o] # "NONE" BY DEF Returned, Aboard
  <2>2. s \in InAnyOrder(S) BY <1>6 DEF PlansAt
  <2>3. /\ Reach(r.op, stage) = 4 /\ Reach(r.op, stage - 1) = 2
        /\ StageClaims(r, stage, reads) = S
    BY <1>6 DEF Reach, StageClaims
  <2> HIDE DEF S
  <2>4. s \in Seq(S) /\ RowsOf(s) = S BY <1>1, <2>1, <2>2, InAnyOrderCovers
  <2>5. QED BY <2>1, <2>3, <2>4, OrderRowsConform
<1>7. CASE r.op = "depart" /\ stage = 2
  <2> DEFINE v == manifest[r.manifest].vehicle
  <2>1. v \in Vehicles BY <1>7, RequestFields DEF Keyed
  <2>2. s = <<v>> BY <1>7 DEF PlansAt
  <2>3. v \in Rows /\ Level(v) = 3 /\ v \notin Manifests \cup Orders
    BY <2>1, Levels, RowsAreApart DEF Rows
  <2>4. Reach(r.op, stage) = 3 /\ Reach(r.op, stage - 1) = 2 /\ StageClaims(r, stage, reads) = {}
    BY <1>7 DEF Reach, StageClaims
  <2> HIDE DEF v
  <2>5. QED BY <1>7, <2>2, <2>3, <2>4, OneRowConforms
<1>8. CASE r.op = "release"
  <2>1. stage = 1 BY <1>8 DEF Stages
  <2>2. s \in ReleasePlan(r, reads) BY <1>8 DEF PlansAt
  <2>3. QED BY <1>8, <2>1, <2>2, ReleasePlanConforms
<1>9. CASE r.op = "resolve"
  <2>1. stage = 1 BY <1>9 DEF Stages
  <2>2. s \in ResolvePlan(r, reads) BY <1>9 DEF PlansAt
  <2>3. QED BY <1>9, <2>1, <2>2, ResolvePlanConforms
<1>10. CASE r.op = "intake"
  BY <1>10, NoRow DEF Stages, PlansAt, StageClaims, Conforms
<1>11. CASE r.op \in {"geometry", "corridor"}
  <2>1. /\ r.corridor \in Rows /\ Level(r.corridor) = 1
        /\ r.corridor \notin Manifests \cup Orders
    BY <1>11, RequestFields, Levels, RowsAreApart DEF Rows
  <2>2. stage = 1 /\ s = <<r.corridor>> BY <1>11 DEF Stages, PlansAt
  <2>3. Reach(r.op, stage) = 4 /\ StageClaims(r, stage, reads) = {r.corridor}
    BY <1>11 DEF Reach, StageClaims
  <2>4. QED BY <2>1, <2>2, <2>3, OneRowConforms
<1>12. CASE r.op = "vehicle"
  <2>1. /\ r.vehicle \in Rows /\ Level(r.vehicle) = 3
        /\ r.vehicle \notin Manifests \cup Orders
    BY <1>12, RequestFields, Levels, RowsAreApart DEF Rows
  <2>2. stage = 1 /\ s = <<r.vehicle>> BY <1>12 DEF Stages, PlansAt
  <2>3. Reach(r.op, stage) = 4 /\ StageClaims(r, stage, reads) = {r.vehicle}
    BY <1>12 DEF Reach, StageClaims
  <2>4. QED BY <2>1, <2>2, <2>3, OneRowConforms
<1>13. r.op \in {"remove", "record", "cancel", "depart"} => stage \in {1, 2}
  BY DEF Stages
<1>14. r.op = "close" => stage = 1 BY DEF Stages
<1>15. QED
  BY <1>2, <1>3, <1>4, <1>5, <1>6, <1>7, <1>8, <1>9, <1>10, <1>11, <1>12, <1>13, <1>14, RequestFields

----------------------------------------------------------------------------
(* A commit.                                                               *)

Committing(q) ==
    /\ q \in Callers
    /\ call[q].step = "committing"
    /\ WritesOf(call[q], FreshId[q])

\* What a call about to commit holds.
LEMMA CommitHolds ==
    ASSUME LockingInv, NEW q \in Callers, call[q].step = "committing"
    PROVE  /\ call[q] \in Call /\ call[q].request \in Requests
           /\ FreshId[q] \in Manifests /\ status[FreshId[q]] = "NONE"
           /\ Admissible(q) /\ Upserting(q) /\ Matched(q) /\ Decision(q)
           /\ call[q].writes.orders \subseteq call[q].held
           /\ \A i \in 1..Stages(call[q].request) : Claims(q, i) \subseteq call[q].held
           /\ \A m \in Manifests \cap call[q].held : status[m] # "NONE"
<1>1. CallInv(q) /\ call[q] \in Call BY DEF LockingInv
<1>2. /\ call[q].request \in Requests /\ call[q].wanted = <<>>
      /\ call[q].stage = Stages(call[q].request)
  BY <1>1 DEF CallInv, Shaped
<1>3. Covered(q) = call[q].held BY <1>2, NoRow DEF Covered, Queued
<1>4. Claimed(q) /\ RowsExist(q) BY <1>1 DEF CallInv, Working
<1>5. \A i \in 1..Stages(call[q].request) : Claims(q, i) \subseteq call[q].held
  <2>1. Stages(call[q].request) \in 1..3 BY DEF Stages
  <2>2. \A i \in 1..Stages(call[q].request) :
           i = Stages(call[q].request) \/ i \in 1..(Stages(call[q].request) - 1)
    BY <2>1
  <2>3. QED BY <1>2, <1>3, <1>4, <2>2 DEF Claimed
<1>6. FreshId[q] \in Manifests /\ status[FreshId[q]] = "NONE"
  BY <1>1, CallSettings DEF CallInv, Unused, Ends
<1>7. Admissible(q) /\ Upserting(q) /\ Matched(q) /\ Decided(q)
  BY <1>1 DEF CallInv, Working, Calling
<1>8. QED BY <1>1, <1>2, <1>3, <1>4, <1>5, <1>6, <1>7 DEF Decided, RowsExist

\* What a call decided on is what its transaction asks of the state it commits to.
LEMMA CommitIsTransaction ==
    ASSUME LockingInv, NEW q \in Callers, Committing(q)
    PROVE  Transaction(call[q], FreshId[q])
<1> DEFINE r == call[q].request
           w == call[q].writes
           reads == call[q].reads
<1>1. /\ r \in Requests /\ status[FreshId[q]] = "NONE"
      /\ Admissible(q) /\ Matched(q) /\ Decision(q)
      /\ WritesOf(call[q], FreshId[q])
  BY CommitHolds DEF Committing
<1> USE DEF WritesOf, Transaction, Decision, Admissible
<1>2. CASE r.op = "create"
  BY <1>1, <1>2 DEF CreateExplicitly, OpenManifest
<1>3. CASE r.op = "remove"
  BY <1>1, <1>3 DEF RemoveOrder
<1>4. CASE r.op = "depart"
  BY <1>1, <1>4 DEF DepartManifest
<1>5. CASE r.op = "cancel"
  BY <1>1, <1>5 DEF CancelManifest
<1>6. CASE r.op = "record"
  BY <1>1, <1>6 DEF RecordDelivery
<1>7. CASE r.op = "close"
  BY <1>1, <1>7 DEF CloseManifest
<1>8. CASE r.op = "release"
  <2>1. /\ Release(r, reads) /\ orderState[r.order] = reads.state
        /\ r.order \in invoices <=> r.state = "CANCELLED"
        /\ r.state \in {"CANCELLED", "ORPHANED"}
    BY <1>1, <1>8, RequestFields
  <2>2. CASE reads.state = "POOLED"
    BY <1>8, <2>1, <2>2 DEF Release, CancelPooledOrder, OrphanOrder
  <2>3. CASE reads.state = "ALLOCATED" /\ r.state = "ORPHANED"
    BY <1>8, <2>1, <2>3 DEF Release
  <2>4. CASE reads.state = "ALLOCATED" /\ r.state = "CANCELLED"
    <3>1. /\ reads.carrier \in Manifests /\ Loadable(reads.carrier)
          /\ <<reads.carrier, r.order>> \in allocated
      BY <1>1, <1>8, <2>4
    <3>2. Unload(reads.carrier, r.order, "CANCELLED", "ORDER_CANCELLED")
      BY <2>1, <2>4 DEF Release
    <3>3. CancelAllocatedOrder(reads.carrier, r.order)
      BY <2>1, <2>4, <3>1, <3>2 DEF CancelAllocatedOrder
    <3>4. QED BY <1>8, <2>4, <3>1, <3>3
  <2>5. QED BY <1>1, <1>8, <2>1, <2>2, <2>3, <2>4
<1>9. CASE r.op = "resolve"
  <2>1. Resolve(r, reads) /\ r.order \in invoices BY <1>1, <1>9
  <2>2. CASE reads.version = 0
    BY <1>9, <2>1, <2>2 DEF Resolve, IntakeOrder
  <2>3. CASE reads.version # 0
    <3>1. /\ r.corridor \in active /\ geometry[r.corridor] = reads.version
          /\ Upserted(r.order) = "POOLED"
          /\ r.corridor \in Governed /\ location[ShopOf[r.order]] # 0
      BY <1>1, <1>9, <2>3 DEF Matched
    <3>2. ResolveCorridor(r.order, r.corridor)
      BY <2>1, <2>3, <3>1 DEF Resolve, ResolveCorridor, Qualifies
    <3>3. QED BY <1>9, <3>2
  <2>4. QED BY <2>2, <2>3
<1>10. CASE r.op = "intake"
  BY <1>1, <1>10 DEF IntakeOrder
<1>11. CASE r.op = "geometry"
  BY <1>1, <1>11 DEF UpdateGeometry
<1>12. CASE r.op = "corridor"
  BY <1>1, <1>12
<1>13. CASE r.op = "vehicle"
  BY <1>1, <1>13
<1> HIDE DEF r
<1>14. QED
  BY <1>1, <1>2, <1>3, <1>4, <1>5, <1>6, <1>7, <1>8, <1>9, <1>10, <1>11, <1>12, <1>13, RequestFields

\* Each transaction is a step of the core, or changes nothing.
LEMMA TransactionIsStep ==
    ASSUME TypeOK, NEW q \in Callers, call[q] \in Call, call[q].request \in Requests,
           FreshId[q] \in Manifests, Transaction(call[q], FreshId[q])
    PROVE  [Next]_vars
<1> DEFINE r == call[q].request
           S == call[q].writes.orders
<1>1. r \in Requests /\ S \in SUBSET Orders BY DEF Call, Writes
<1> USE DEF Transaction, Next, Manifested
<1>2. CASE r.op = "create"
  <2>1. r.corridor \in Corridors /\ r.vehicle \in Vehicles /\ r.planned \in 0..MaxDay
    BY <1>1, <1>2, RequestFields
  <2>2. CreateExplicitly(FreshId[q], r.corridor, r.vehicle, S, r.planned) BY <1>2
  <2>3. QED BY <1>1, <2>1, <2>2 DEF ManifestStep
<1>3. CASE r.op \in {"remove", "depart", "cancel", "close"}
  <2>1. r.manifest \in Manifests /\ (r.op = "remove" => r.order \in Orders)
    BY <1>1, <1>3, RequestFields
  <2>2. ManifestStep BY <1>3, <2>1 DEF ManifestStep
  <2>3. QED BY <2>2
<1>4. CASE r.op = "record"
  <2>1. r.manifest \in Manifests /\ r.order \in Orders /\ r.outcome \in DeliveryOutcome
    BY <1>1, <1>4, RequestFields
  <2>2. DeliveryStep BY <1>4, <2>1 DEF DeliveryStep
  <2>3. QED BY <2>2
<1>5. CASE r.op \in {"release", "resolve", "intake"}
  <2>1. /\ r.order \in Orders /\ (r.op = "resolve" => r.corridor \in Corridors)
        /\ r.op = "release" => r.state \in {"CANCELLED", "ORPHANED"}
    BY <1>1, <1>5, RequestFields
  <2>2. PoolStep \/ UNCHANGED vars BY <1>5, <2>1 DEF PoolStep
  <2>3. QED BY <2>2
<1>6. CASE r.op \in {"geometry", "corridor"}
  <2>1. r.corridor \in Corridors /\ (r.op = "corridor" => r.on \in BOOLEAN)
    BY <1>1, <1>6, RequestFields
  <2>2. SetupStep BY <1>6, <2>1 DEF SetupStep
  <2>3. QED BY <2>2
<1>7. CASE r.op = "vehicle"
  <2>1. /\ r.vehicle \in Vehicles /\ r.patch \in {"active", "capacity"}
        /\ r.patch = "active" => r.on \in BOOLEAN
        /\ r.patch = "capacity" => r.grams \in Capacities
        /\ capacity[r.vehicle] \in Capacities /\ (r.vehicle \in active) \in BOOLEAN
    BY <1>1, <1>7, RequestFields DEF TypeOK
  <2>2. SetupStep BY <1>7, <2>1 DEF SetupStep
  <2>3. QED BY <2>2
<1> HIDE DEF r
<1>8. QED BY <1>1, <1>2, <1>3, <1>4, <1>5, <1>6, <1>7, RequestFields

\* The rows of S store what they stored before the step.
Kept(S) ==
    /\ UNCHANGED <<invoices, location, today>>
    /\ \A o \in Orders \cap S : orderState'[o] = orderState[o] /\ resolution'[o] = resolution[o]
    /\ \A c \in Corridors \cap S : geometry'[c] = geometry[c] /\ (c \in active' <=> c \in active)
    /\ \A v \in Vehicles \cap S : capacity'[v] = capacity[v] /\ (v \in active' <=> v \in active)
    /\ \A m \in Manifests \cap S :
          /\ status'[m] = status[m] /\ manifest'[m] = manifest[m]
          /\ \A o \in Orders :
                /\ delivery'[<<m, o>>] = delivery[<<m, o>>]
                /\ <<m, o>> \in allocated' <=> <<m, o>> \in allocated

LEMMA UnloadKeeps ==
    ASSUME TypeOK, NEW S, NEW m, NEW o, NEW state, NEW reason, m \notin S, o \notin S,
           Unload(m, o, state, reason)
    PROVE  Kept(S)
  BY DEF Unload, ReleaseStop, Kept, TypeOK, setupVars

LEMMA SetStateKeeps ==
    ASSUME TypeOK, NEW S, NEW o, NEW state, o \notin S \/ state = orderState[o], SetState(o, state)
    PROVE  Kept(S)
  BY DEF SetState, Kept, TypeOK, setupVars, manifestVars, stopVars

\* A commit leaves the rows alone that the call does not hold.
LEMMA CommitKeeps ==
    ASSUME LockingInv, NEW q \in Callers, Committing(q)
    PROVE  Kept(Rows \ (call[q].held \cup {FreshId[q]}))
<1> DEFINE r == call[q].request
           w == call[q].writes
           reads == call[q].reads
           H == call[q].held
           S == Rows \ (call[q].held \cup {FreshId[q]})
<1> SUFFICES Kept(S)
  OBVIOUS
<1>1. /\ TypeOK /\ r \in Requests /\ FreshId[q] \in Manifests
      /\ w.orders \subseteq H /\ Upserting(q) /\ Decision(q)
      /\ \A i \in 1..Stages(r) : StageClaims(r, i, reads) \subseteq H
      /\ WritesOf(call[q], FreshId[q])
  BY CommitHolds DEF Committing, Claims, LockingInv
<1> USE DEF WritesOf
<1>2. CASE r.op = "create"
  <2>1. Open(FreshId[q], w.header, w.orders) BY <1>1, <1>2
  <2>2. FreshId[q] \notin S /\ w.orders \cap S = {} BY <1>1
  <2> HIDE DEF S, w
  <2>3. QED BY <1>1, <2>1, <2>2 DEF Open, Kept, TypeOK, setupVars
<1>3. CASE r.op = "remove"
  <2>1. 1 \in 1..Stages(r) /\ 2 \in 1..Stages(r) BY <1>3 DEF Stages
  <2>2. r.manifest \in H /\ r.order \in H BY <1>1, <1>3, <2>1 DEF StageClaims
  <2>3. Unload(r.manifest, r.order, "POOLED", "REMOVED_BY_DISPATCHER") BY <1>1, <1>3
  <2> HIDE DEF r
  <2>4. QED BY <1>1, <2>2, <2>3, UnloadKeeps
<1>4. CASE r.op \in {"depart", "close"}
  <2>1. 1 \in 1..Stages(r) BY <1>4 DEF Stages
  <2>2. r.manifest \notin S BY <1>1, <1>4, <2>1 DEF StageClaims
  <2>3. /\ status' = [status EXCEPT ![r.manifest] = IF r.op = "depart" THEN "DEPARTED" ELSE "CLOSED"]
        /\ UNCHANGED <<poolVars, setupVars, manifest, stopVars, today>>
    BY <1>1, <1>4 DEF Depart, Close
  <2> HIDE DEF S, r
  <2>4. QED BY <1>1, <2>2, <2>3 DEF Kept, TypeOK, poolVars, setupVars, stopVars
<1>5. CASE r.op = "cancel"
  <2>1. 1 \in 1..Stages(r) /\ 2 \in 1..Stages(r) BY <1>5 DEF Stages
  <2>2. r.manifest \notin S /\ Returned(r.manifest) \cap S = {}
    BY <1>1, <1>5, <2>1 DEF StageClaims
  <2>3. Cancel(r.manifest) BY <1>1, <1>5
  <2> HIDE DEF S, r
  <2>4. QED BY <1>1, <2>2, <2>3 DEF Cancel, Kept, TypeOK, setupVars
<1>6. CASE r.op = "record"
  <2>1. 1 \in 1..Stages(r) /\ 2 \in 1..Stages(r) BY <1>6 DEF Stages
  <2>2. r.manifest \notin S /\ r.order \notin S BY <1>1, <1>6, <2>1 DEF StageClaims
  <2>3. Record(r.manifest, r.order, r.outcome) BY <1>1, <1>6
  <2> HIDE DEF S, r
  <2>4. \A m \in Manifests \cap S : status'[m] = status[m]
    BY <1>1, <2>2, <2>3 DEF Record, CompleteIfDone, TypeOK
  <2>5. \A m \in Manifests \cap S, o \in Orders :
           /\ delivery'[<<m, o>>] = delivery[<<m, o>>]
           /\ <<m, o>> \in allocated' <=> <<m, o>> \in allocated
    BY <1>1, <2>2, <2>3 DEF Record, ReleaseStop, TypeOK
  <2>6. QED BY <1>1, <2>2, <2>3, <2>4, <2>5 DEF Record, Kept, TypeOK, setupVars
<1>7. CASE r.op = "release"
  <2>1. 1 \in 1..Stages(r) BY <1>7 DEF Stages
  <2>2. r.order \in H /\ (reads.carrier # None => reads.carrier \in H)
    BY <1>1, <1>7, <2>1 DEF StageClaims
  <2>3. Release(r, reads) BY <1>1, <1>7
  <2>4. /\ reads.state \in {"POOLED", "ALLOCATED"}
        /\ reads.state = "ALLOCATED" /\ r.state # "ORPHANED" => reads.carrier \in Manifests
    BY <1>1, <1>7 DEF Decision
  <2>5. CASE reads.state = "POOLED"
    <3>1. SetState(r.order, r.state) BY <2>3, <2>5 DEF Release
    <3>2. QED BY <1>1, <2>2, <3>1, SetStateKeeps
  <2>6. CASE reads.state = "ALLOCATED" /\ r.state = "ORPHANED"
    BY <2>3, <2>6 DEF Release, Kept, vars, poolVars, setupVars, manifestVars, stopVars
  <2>7. CASE reads.state = "ALLOCATED" /\ r.state # "ORPHANED"
    <3>1. Unload(reads.carrier, r.order, r.state, "ORDER_CANCELLED") BY <2>3, <2>7 DEF Release
    <3>2. reads.carrier \in H BY <2>2, <2>4, <2>7, RowsAreApart
    <3>3. QED BY <1>1, <2>2, <3>1, <3>2, UnloadKeeps
  <2>8. QED BY <2>4, <2>5, <2>6, <2>7
<1>8. CASE r.op \in {"resolve", "intake"} /\ (r.op = "resolve" => reads.version = 0)
  <2>1. SetState(r.order, Upserted(r.order)) BY <1>1, <1>8 DEF Resolve
  <2>2. r.order \in H \/ Upserted(r.order) = orderState[r.order]
    BY <1>1, <1>8 DEF Upserting, Upserted, Op
  <2>3. QED BY <1>1, <2>1, <2>2, SetStateKeeps
<1>9. CASE r.op = "resolve" /\ reads.version # 0
  <2>1. 1 \in 1..Stages(r) BY <1>9 DEF Stages
  <2>2. r.order \notin S BY <1>1, <1>9, <2>1 DEF StageClaims
  <2>3. RecordResolution(r.order, [corridor |-> r.corridor, version |-> reads.version,
                                   location |-> location[ShopOf[r.order]]])
    BY <1>1, <1>9 DEF Resolve
  <2> HIDE DEF S, r
  <2>4. QED BY <1>1, <2>2, <2>3 DEF RecordResolution, Kept, TypeOK, setupVars, manifestVars, stopVars
<1>10. CASE r.op \in {"geometry", "corridor"}
  <2>1. 1 \in 1..Stages(r) BY <1>10 DEF Stages
  <2>2. r.corridor \notin S /\ r.corridor \in Corridors
    BY <1>1, <1>10, <2>1, RequestFields DEF StageClaims
  <2>3. SetGeometry(r.corridor, w.value) \/ UpdateCorridor(r.corridor, r.on) BY <1>1, <1>10
  <2> HIDE DEF S, r
  <2>4. QED
    BY <1>1, <2>2, <2>3, RowsAreApart
    DEF SetGeometry, UpdateCorridor, Kept, TypeOK, poolVars, manifestVars, stopVars
<1>11. CASE r.op = "vehicle"
  <2>1. 1 \in 1..Stages(r) BY <1>11 DEF Stages
  <2>2. r.vehicle \notin S /\ r.vehicle \in Vehicles
    BY <1>1, <1>11, <2>1, RequestFields DEF StageClaims
  <2>3. UpdateVehicle(r.vehicle, w.on, w.value) BY <1>1, <1>11
  <2> HIDE DEF S, r
  <2>4. QED
    BY <1>1, <2>2, <2>3, RowsAreApart
    DEF UpdateVehicle, Kept, TypeOK, poolVars, manifestVars, stopVars
<1> HIDE DEF r, S
<1>12. QED
  BY <1>1, <1>2, <1>3, <1>4, <1>5, <1>6, <1>7, <1>8, <1>9, <1>10, <1>11, RequestFields DEF S

----------------------------------------------------------------------------
(* What every transaction leaves in place.                                 *)

LEMMA RowsStay ==
    ASSUME TypeOK, AllocationInv, [Next]_vars
    PROVE  /\ \A o \in Orders : orderState[o] # "NONE" => orderState'[o] # "NONE"
           /\ \A m \in Manifests : status[m] # "NONE" => status'[m] # "NONE"
<1>1. \A o \in Orders : orderState[o] # "NONE" => orderState'[o] # "NONE"
  <2>1. Lifecycle!Next \/ orderState' = orderState BY NextTypeOK, NextLifecycle
  <2>2. QED
    BY <2>1 DEF Lifecycle!Next, Lifecycle!Pool, Lifecycle!Load, Lifecycle!Close, Lifecycle!Depart,
       Lifecycle!Return, Lifecycle!Fail, Lifecycle!Deliver, Lifecycle!Cancel, Lifecycle!Orphan,
       Lifecycle!Move
<1>2. \A m \in Manifests : status[m] # "NONE" => status'[m] # "NONE"
  <2>1. CASE Quiet BY <2>1 DEF Quiet, manifestVars
  <2>2. ASSUME NEW m \in Manifests, NEW to,
               status' = [status EXCEPT ![m] = to] \/ UNCHANGED status, to # "NONE"
        PROVE  \A n \in Manifests : status[n] # "NONE" => status'[n] # "NONE"
    BY <2>2 DEF TypeOK
  <2>3. ASSUME NEW m \in Manifests,
               \/ \E c \in Corridors, v \in Vehicles, planned \in 0..MaxDay,
                     S \in SUBSET Orders : Opened(m, c, v, planned, S)
               \/ \E o \in Orders : TakenOff(m, o)
               \/ CloseManifest(m) \/ DepartManifest(m) \/ CancelManifest(m)
               \/ \E o \in Orders, outcome \in DeliveryOutcome : RecordDelivery(m, o, outcome)
        PROVE  \E to \in ManifestStatus \ {"NONE"} :
                  status' = [status EXCEPT ![m] = to] \/ UNCHANGED status
    <3>1. CASE \E c \in Corridors, v \in Vehicles, planned \in 0..MaxDay,
                  S \in SUBSET Orders : Opened(m, c, v, planned, S)
      BY <3>1 DEF Opened, OpenManifest, Open, ManifestStatus
    <3>2. CASE \E o \in Orders : TakenOff(m, o)
      BY <3>2 DEF TakenOff, CancelAllocatedOrder, RemoveOrder, Unload, ManifestStatus
    <3>3. CASE CloseManifest(m) \/ DepartManifest(m) \/ CancelManifest(m)
      BY <3>3 DEF CloseManifest, Close, DepartManifest, Depart, CancelManifest, Cancel, ManifestStatus
    <3>4. CASE \E o \in Orders, outcome \in DeliveryOutcome : RecordDelivery(m, o, outcome)
      BY <3>4 DEF RecordDelivery, Record, CompleteIfDone, ManifestStatus
    <3>5. QED BY <2>3, <3>1, <3>2, <3>3, <3>4
  <2>4. QED BY <2>1, <2>2, <2>3, StepCases
<1>3. QED BY <1>1, <1>2

LEMMA NextKeyed == TypeOK /\ AllocationInv /\ Keyed /\ [Next]_vars => Keyed'
<1> SUFFICES ASSUME TypeOK, AllocationInv, Keyed, [Next]_vars PROVE Keyed'
  OBVIOUS
<1>1. /\ \A o \in Orders : orderState[o] # "NONE" => orderState'[o] # "NONE"
      /\ \A m \in Manifests : status[m] # "NONE" => status'[m] # "NONE"
  BY RowsStay
<1>2. ASSUME manifest' = manifest, delivery' = delivery,
             \A m \in Manifests : status[m] = "NONE" => status'[m] = "NONE"
      PROVE  Keyed'
  BY <1>1, <1>2 DEF Keyed
<1>3. CASE Quiet BY <1>2, <1>3 DEF Quiet, manifestVars, stopVars
<1>4. ASSUME NEW m \in Manifests PROVE
        /\ (\E o \in Orders : TakenOff(m, o)) => Keyed'
        /\ CloseManifest(m) \/ DepartManifest(m) \/ CancelManifest(m) => Keyed'
  <2>1. CASE \E o \in Orders : TakenOff(m, o)
    BY <1>2, <2>1 DEF TakenOff, CancelAllocatedOrder, RemoveOrder, Unload
  <2>2. CASE CloseManifest(m)
    BY <1>2, <2>2 DEF CloseManifest, Closable, Close, stopVars, TypeOK
  <2>3. CASE DepartManifest(m)
    BY <1>2, <2>3 DEF DepartManifest, Departable, CanTransition, Depart, stopVars, TypeOK
  <2>4. CASE CancelManifest(m)
    BY <1>2, <2>4 DEF CancelManifest, Cancellable, CanTransition, Cancel, TypeOK
  <2>5. QED BY <2>1, <2>2, <2>3, <2>4
<1>5. ASSUME NEW m \in Manifests, NEW c \in Corridors, NEW v \in Vehicles, NEW planned \in 0..MaxDay,
             NEW S \in SUBSET Orders, Opened(m, c, v, planned, S)
      PROVE  Keyed'
  <2>1. Open(m, HeaderOf(c, v, planned), S) BY <1>5 DEF Opened, OpenManifest
  <2>2. \A n \in Manifests :
           /\ status'[n] = IF n = m THEN "OPEN" ELSE status[n]
           /\ manifest'[n] = IF n = m THEN HeaderOf(c, v, planned) ELSE manifest[n]
    BY <2>1 DEF Open, TypeOK
  <2>3. HeaderOf(c, v, planned).corridor = c /\ HeaderOf(c, v, planned).vehicle = v
    BY DEF HeaderOf
  <2>4. \A o \in S : orderState'[o] = "ALLOCATED" BY <2>1 DEF Open
  <2>5. \A n \in Manifests, o \in Orders :
           delivery'[<<n, o>>] # "NONE" => delivery[<<n, o>>] # "NONE" \/ o \in S
    BY <2>1 DEF Open, TypeOK
  <2>6. QED BY <1>1, <2>2, <2>3, <2>4, <2>5 DEF Keyed
<1>6. ASSUME NEW m \in Manifests, NEW o \in Orders, NEW outcome \in DeliveryOutcome,
             RecordDelivery(m, o, outcome)
      PROVE  Keyed'
  <2>1. /\ status[m] # "NONE" /\ delivery[<<m, o>>] # "NONE" /\ manifest' = manifest
        /\ delivery' = [delivery EXCEPT ![<<m, o>>] = outcome]
    BY <1>6 DEF RecordDelivery, Recordable, Record, OpenStops
  <2>2. \A n \in Manifests : status[n] = "NONE" => status'[n] = "NONE"
    BY <1>6, <2>1 DEF RecordDelivery, Record, CompleteIfDone, TypeOK
  <2>3. \A n \in Manifests, p \in Orders :
           delivery'[<<n, p>>] # "NONE" => delivery[<<n, p>>] # "NONE"
    BY <2>1 DEF TypeOK
  <2>4. QED BY <1>1, <2>1, <2>2, <2>3 DEF Keyed
<1>7. QED BY <1>3, <1>4, <1>5, <1>6, StepCases

\* The orders a cancelled trip returns are its stops still to be delivered.
LEMMA ReturnedAreOpen ==
    ASSUME TypeOK, AllocationInv, NEW m \in Manifests
    PROVE  Returned(m) = OpenStops(m)
<1>1. ASSUME NEW o \in Returned(m) PROVE o \in OpenStops(m)
  <2>1. o \in Orders /\ o \in Aboard(m) /\ orderState[o] = "ALLOCATED" BY DEF Returned, Aboard
  <2>2. PICK n \in Manifests : o \in OpenStops(n) BY <2>1 DEF AllocationInv, AllocationCoherent
  <2>3. n = m BY <2>1, <2>2 DEF AllocationInv, AllocationCoherent, OpenStops
  <2>4. QED BY <2>2, <2>3
<1>2. OpenStops(m) \subseteq Returned(m)
  BY DEF AllocationInv, AllocationCoherent, Returned, OpenStops, Aboard
<1>3. QED BY <1>1, <1>2

LEMMA ReturnedKept ==
    ASSUME TypeOK, AllocationInv, TypeOK', AllocationInv', NEW S, Kept(S), NEW m \in Manifests \cap S
    PROVE  Returned(m)' = Returned(m)
<1>1. Returned(m)' = OpenStops(m)'
  <2>1. ASSUME NEW o \in Orders, o \in Aboard(m)', orderState'[o] = "ALLOCATED"
        PROVE  o \in OpenStops(m)'
    <3>1. PICK n \in Manifests : o \in OpenStops(n)'
      BY <2>1 DEF AllocationInv, AllocationCoherent
    <3>2. n = m BY <2>1, <3>1 DEF AllocationInv, AllocationCoherent, OpenStops
    <3>3. QED BY <3>1, <3>2
  <2>2. \A o \in OpenStops(m)' : o \in Aboard(m)' /\ orderState'[o] = "ALLOCATED"
    BY DEF AllocationInv, AllocationCoherent, OpenStops, Aboard
  <2>3. QED BY <2>1, <2>2 DEF Returned, OpenStops, Aboard
<1>2. OpenStops(m)' = OpenStops(m) BY DEF Kept, OpenStops, Aboard
<1>3. QED BY <1>1, <1>2, ReturnedAreOpen

----------------------------------------------------------------------------
(* What a call knows outlives the steps of the others.                     *)

Bystander(p) ==
    /\ call'[p] = call[p]
    /\ Kept(call[p].held)
    /\ call[p].step \notin Ends => status'[FreshId[p]] = status[FreshId[p]]

LEMMA DecisionKept ==
    ASSUME LockingInv, NEW p \in Callers, call[p].step = "committing", Bystander(p)
    PROVE  Decided(p)'
<1> DEFINE r == call[p].request
           w == call[p].writes
           reads == call[p].reads
           H == call[p].held
<1>1. /\ TypeOK /\ r \in Requests /\ w.orders \subseteq H /\ Decision(p)
      /\ w.orders \subseteq Orders
      /\ \A i \in 1..Stages(r) : StageClaims(r, i, reads) \subseteq H
      /\ call'[p] = call[p] /\ Kept(H)
  BY CommitHolds DEF Bystander, Claims, LockingInv, Call, Writes
<1>2. SUFFICES Decision(p)'
  BY <1>1 DEF Decided
<1>3. 1 \in 1..Stages(r) BY DEF Stages
<1>4. ASSUME NEW m \in Manifests \cap H
      PROVE  /\ status'[m] = status[m] /\ manifest'[m] = manifest[m]
             /\ Aboard(m)' = Aboard(m) /\ OpenStops(m)' = OpenStops(m)
             /\ Readable(m)' <=> Readable(m)
             /\ \A o \in Orders : delivery'[<<m, o>>] = delivery[<<m, o>>]
             /\ \A o \in Orders : <<m, o>> \in allocated' <=> <<m, o>> \in allocated
  BY <1>1 DEF Kept, Aboard, OpenStops, Readable
<1>5. \A o \in Orders \cap H : orderState'[o] = orderState[o] /\ resolution'[o] = resolution[o]
  BY <1>1 DEF Kept
<1>6. /\ \A c \in Corridors \cap H : geometry'[c] = geometry[c] /\ (c \in active' <=> c \in active)
      /\ \A v \in Vehicles \cap H : capacity'[v] = capacity[v] /\ (v \in active' <=> v \in active)
      /\ invoices' = invoices /\ location' = location /\ today' = today
  BY <1>1 DEF Kept
<1>7. CASE r.op = "create"
  <2>1. 2 \in 1..Stages(r) BY <1>7 DEF Stages
  <2>2. r.corridor \in Corridors \cap H /\ r.vehicle \in Vehicles \cap H
    BY <1>1, <1>3, <1>7, <2>1, RequestFields DEF StageClaims
  <2>3. /\ w.orders # {} /\ w.orders \subseteq invoices
        /\ w.header = HeaderOf(r.corridor, r.vehicle, r.planned)
        /\ Openable(r.corridor, r.vehicle, r.planned)
        /\ \A o \in w.orders : Eligible(o, r.corridor)
        /\ Load(w.orders) <= capacity[r.vehicle]
    BY <1>1, <1>7 DEF Decision
  <2>4. HeaderOf(r.corridor, r.vehicle, r.planned)' = HeaderOf(r.corridor, r.vehicle, r.planned)
    BY <1>1, <1>6, <2>2 DEF HeaderOf
  <2>5. Openable(r.corridor, r.vehicle, r.planned)'
    BY <1>1, <1>6, <2>2, <2>3 DEF Openable, Qualifies
  <2>6. ASSUME NEW o \in w.orders PROVE Eligible(o, r.corridor)'
    <3>1. o \in Orders \cap H BY <1>1
    <3>2. Eligible(o, r.corridor) BY <2>3
    <3>3. orderState'[o] = orderState[o] /\ resolution'[o] = resolution[o] BY <1>5, <3>1
    <3>4. geometry'[r.corridor] = geometry[r.corridor] /\ location' = location BY <1>6, <2>2
    <3>5. PICK c \in Corridors : c = r.corridor BY <2>2
    <3>6. call'[p].request.corridor = c BY <1>1, <3>5
    <3>7. Eligible(o, c)' BY <3>2, <3>3, <3>4, <3>5 DEF Eligible, Stale
    <3>8. QED BY <3>6, <3>7 DEF Eligible
  <2>7. Load(w.orders) <= capacity'[r.vehicle] BY <1>6, <2>2, <2>3
  <2>8. call'[p].request = r /\ call'[p].writes = w BY <1>1
  <2>9. Load(w.orders)' = Load(w.orders) BY <2>8 DEF Load
  <2>10. QED BY <1>6, <1>7, <2>3, <2>4, <2>5, <2>6, <2>7, <2>8, <2>9 DEF Decision
<1>8. CASE r.op \in {"depart", "cancel", "close"}
  <2>1. r.manifest \in Manifests \cap H
    BY <1>1, <1>3, <1>8, RequestFields DEF StageClaims, Manifested
  <2>2. QED
    BY <1>1, <1>4, <1>6, <1>8, <2>1
    DEF Decision, Departable, ServiceDay, Cancellable, Closable
<1>9. CASE r.op \in {"remove", "record"}
  <2>1. r.manifest \in Manifests \cap H /\ r.order \in Orders
    BY <1>1, <1>3, <1>9, RequestFields DEF StageClaims, Manifested
  <2>2. QED BY <1>1, <1>4, <1>9, <2>1 DEF Decision, Loadable, Recordable
<1>10. CASE r.op = "release"
  <2>1. /\ r.order \in Orders \cap H
        /\ reads.carrier \in Manifests => reads.carrier \in Manifests \cap H
    BY <1>1, <1>3, <1>10, RequestFields, RowsAreApart DEF StageClaims
  <2>2. QED BY <1>1, <1>4, <1>5, <1>10, <2>1 DEF Decision, Loadable
<1>11. CASE r.op = "resolve"
  <2>1. CASE reads.version = 0 BY <1>1, <1>11, <2>1 DEF Decision
  <2>2. CASE reads.version # 0
    <3>1. r.order \in Orders \cap H /\ r.corridor \in Corridors \cap H
      BY <1>1, <1>3, <1>11, <2>2, RequestFields DEF StageClaims
    <3>2. QED BY <1>1, <1>5, <1>6, <1>11, <2>2, <3>1 DEF Decision, Upserted
  <2>3. QED BY <2>1, <2>2
<1>12. CASE r.op \in {"intake", "corridor"}
  BY <1>1, <1>12 DEF Decision
<1>13. CASE r.op = "geometry"
  <2>1. r.corridor \in Corridors \cap H BY <1>1, <1>3, <1>13, RequestFields DEF StageClaims
  <2>2. QED BY <1>1, <1>6, <1>13, <2>1 DEF Decision
<1>14. CASE r.op = "vehicle"
  <2>1. r.vehicle \in Vehicles \cap H BY <1>1, <1>3, <1>14, RequestFields DEF StageClaims
  <2>2. QED BY <1>1, <1>6, <1>14, <2>1 DEF Decision
<1> HIDE DEF r
<1>15. QED
  BY <1>1, <1>7, <1>8, <1>9, <1>10, <1>11, <1>12, <1>13, <1>14, RequestFields

LEMMA BystanderInv ==
    ASSUME LockingInv, TypeOK', AllocationInv', [Next]_vars, NEW p \in Callers, Bystander(p)
    PROVE  CallInv(p)'
<1> DEFINE r == call[p].request
           H == call[p].held
<1>1. /\ TypeOK /\ AllocationInv /\ call[p] \in Call /\ CallInv(p)
      /\ call'[p] = call[p] /\ Kept(H)
      /\ call[p].step \notin Ends => status'[FreshId[p]] = status[FreshId[p]]
  BY DEF LockingInv, Bystander
<1>2. /\ \A o \in Orders : orderState[o] # "NONE" => orderState'[o] # "NONE"
      /\ \A m \in Manifests : status[m] # "NONE" => status'[m] # "NONE"
  BY <1>1, RowsStay
<1>3. Shaped(p)' BY <1>1 DEF CallInv, Shaped, Working
<1>4. Unused(p)' BY <1>1 DEF CallInv, Unused
<1>5. ASSUME Calling(p) PROVE r \in Requests /\ Admissible(p)'
  <2>1. r \in Requests /\ Admissible(p) BY <1>1, <1>5 DEF CallInv, Shaped, Calling, Working
  <2>2. invoices' = invoices BY <1>1 DEF Kept
  <2>3. /\ r.op = "release" => r.order \in Orders
        /\ r.op \in Manifested => r.manifest \in Manifests
    BY <2>1, RequestFields
  <2>4. QED BY <1>1, <1>2, <2>1, <2>2, <2>3 DEF Admissible, Manifested
<1>6. ASSUME Working(p)
      PROVE  Claimed(p)' /\ Upserting(p)' /\ Matched(p)' /\ RowsExist(p)' /\ Checked(p)'
  <2>1. /\ r \in Requests /\ call[p].stage \in 1..Stages(r)
        /\ Claimed(p) /\ Upserting(p) /\ Matched(p) /\ RowsExist(p) /\ Checked(p)
    BY <1>1, <1>6 DEF CallInv, Shaped, Working
  <2>2. Covered(p)' = Covered(p) /\ Queued(p)' = Queued(p)
    BY <1>1 DEF Covered, Queued, RowsOf
  <2>3. ASSUME NEW i \in 1..call[p].stage PROVE Claims(p, i)' = Claims(p, i)
    <3>1. CASE r.op = "cancel" /\ i # 1
      <4>1. 1 \in 1..(call[p].stage - 1) BY <2>1, <3>1 DEF Stages
      <4>2. Claims(p, 1) \subseteq H BY <2>1, <4>1 DEF Claimed
      <4>3. Claims(p, 1) = {r.manifest} BY <3>1 DEF Claims, StageClaims
      <4>4. r.manifest \in Manifests \cap H
        BY <2>1, <3>1, <4>2, <4>3, RequestFields DEF Manifested
      <4>5. Returned(r.manifest)' = Returned(r.manifest)
        <5> DEFINE m == r.manifest
        <5>1. ASSUME NEW n \in Manifests \cap H PROVE Returned(n)' = Returned(n)
          BY <1>1, ReturnedKept
        <5>2. PICK n \in Manifests \cap H : n = r.manifest BY <4>4
        <5>3. call'[p].request.manifest = n BY <1>1, <5>2
        <5>4. QED BY <5>1, <5>2, <5>3 DEF Returned, Aboard
      <4>6. QED BY <1>1, <3>1, <4>5 DEF Claims, StageClaims
    <3>2. CASE ~(r.op = "cancel" /\ i # 1)
      BY <1>1, <3>2 DEF Claims, StageClaims
    <3>3. QED BY <3>1, <3>2
  <2>4. Claimed(p)'
    <3>1. call'[p].stage = call[p].stage /\ call'[p].held = H BY <1>1
    <3>2. call[p].stage \in 1..call[p].stage BY <2>1 DEF Stages
    <3>3. \A i \in 1..(call[p].stage - 1) : i \in 1..call[p].stage BY <2>1 DEF Stages
    <3>4. QED BY <2>1, <2>2, <2>3, <3>1, <3>2, <3>3 DEF Claimed
  <2>5. Upserting(p)'
    <3>1. r.op \in {"intake", "resolve"} => r.order \in Orders BY <2>1, RequestFields
    <3>2. QED BY <1>1, <1>2, <2>1, <3>1 DEF Upserting, Op
  <2>6. Matched(p)' BY <1>1, <2>1 DEF Matched, Kept
  <2>7. RowsExist(p)' BY <1>1, <1>2, <2>1, <2>2 DEF RowsExist
  <2>8. Checked(p)'
    <3>1. CASE r.op = "remove" /\ call[p].stage = 2
      <4>1. 1 \in 1..(call[p].stage - 1) BY <3>1
      <4>2. r.manifest \in Manifests \cap H
        BY <2>1, <3>1, <4>1, RequestFields DEF Claimed, Claims, StageClaims, Manifested
      <4>3. QED BY <1>1, <2>1, <3>1, <4>2 DEF Checked, Op, Loadable, Kept
    <3>2. CASE ~(r.op = "remove" /\ call[p].stage = 2) BY <1>1, <3>2 DEF Checked, Op
    <3>3. QED BY <3>1, <3>2
  <2>9. QED BY <2>4, <2>5, <2>6, <2>7, <2>8
<1>7. ASSUME call[p].step = "committing" PROVE Decided(p)'
  BY <1>7, DecisionKept
<1>8. (Calling(p)' <=> Calling(p)) /\ (Working(p)' <=> Working(p)) /\ call'[p].step = call[p].step
  BY <1>1 DEF Calling, Working
<1>9. QED BY <1>3, <1>4, <1>5, <1>6, <1>7, <1>8 DEF CallInv

----------------------------------------------------------------------------
(* The steps of one call, while the committed state stands still.          *)

\* Only p moves.
OnlyCaller(p) == call' \in [Callers -> Call] /\ \A q \in Callers \ {p} : call'[q] = call[q]

LEMMA StillInv ==
    ASSUME LockingInv, UNCHANGED vars, NEW p \in Callers, OnlyCaller(p), CallInv(p)',
           \A q \in Callers \ {p} : call'[p].held \cap call[q].held = {}
    PROVE  LockingInv'
<1>1. TypeOK' /\ AllocationInv' /\ Keyed' /\ [Next]_vars
  <2>1. [Next]_vars OBVIOUS
  <2>2. TypeOK /\ AllocationInv /\ Keyed BY DEF LockingInv
  <2>3. QED BY <2>1, <2>2, NextTypeOK, NextAllocationInv, NextKeyed
<1>2. ASSUME NEW q \in Callers \ {p} PROVE CallInv(q)'
  <2>1. Bystander(q)
    BY DEF OnlyCaller, Bystander, Kept, vars, poolVars, setupVars, manifestVars, stopVars
  <2>2. QED BY <1>1, <2>1, BystanderInv
<1>3. OneHolder'
  <2>1. ASSUME NEW a \in Callers, NEW b \in Callers, a # b
        PROVE  call'[a].held \cap call'[b].held = {}
    BY <2>1 DEF LockingInv, OneHolder, OnlyCaller
  <2>2. QED BY <2>1 DEF OneHolder
<1>4. call' \in [Callers -> Call] BY DEF OnlyCaller
<1>5. QED BY <1>1, <1>2, <1>3, <1>4 DEF LockingInv

LEMMA EndInv ==
    ASSUME LockingInv, UNCHANGED vars, NEW p \in Callers, call[p].step # "idle",
           NEW end \in Ends, End(p, end)
    PROVE  LockingInv'
<1>1. call \in [Callers -> Call] /\ CallInv(p) BY DEF LockingInv
<1>2. /\ call'[p] = [call[p] EXCEPT !.step = end, !.wanted = <<>>, !.held = {}]
      /\ OnlyCaller(p)
  <2>1. <<>> \in Seq(Rows) /\ end \in Steps BY DEF Steps
  <2>2. [call[p] EXCEPT !.step = end, !.wanted = <<>>, !.held = {}] \in Call
    BY <1>1, <2>1 DEF Call
  <2>3. call' = [call EXCEPT ![p] = [call[p] EXCEPT !.step = end, !.wanted = <<>>, !.held = {}]]
    BY <1>1 DEF End
  <2>4. QED BY <1>1, <2>2, <2>3 DEF OnlyCaller
<1>3. call'[p].step = end /\ call'[p].wanted = <<>> /\ call'[p].held = {} /\ call'[p].request = call[p].request
  BY <1>1, <1>2 DEF Call
<1>4. CallInv(p)'
  BY <1>1, <1>3 DEF CallInv, Shaped, Unused, Calling, Working, Ends
<1>5. QED BY <1>2, <1>3, <1>4, StillInv

LEMMA RetryInv ==
    ASSUME LockingInv, UNCHANGED vars, NEW p \in Callers, Calling(p), Retry(p)
    PROVE  LockingInv'
<1>1. call \in [Callers -> Call] /\ CallInv(p) /\ call[p].step \notin {"idle"} \cup Ends
  BY DEF LockingInv, Calling, Working, Ends
<1>2. CASE ~(call[p].attempt < MaxAttempts)
  BY <1>1, <1>2, EndInv DEF Retry, Ends
<1>3. CASE call[p].attempt < MaxAttempts
  <2>1. /\ call'[p] = [call[p] EXCEPT !.step = "reading", !.attempt = @ + 1,
                                      !.wanted = <<>>, !.held = {}]
        /\ \A q \in Callers \ {p} : call'[q] = call[q]
        /\ call' \in [Callers -> Call]
    <3>1. <<>> \in Seq(Rows) /\ "reading" \in Steps BY DEF Steps
    <3>2. call[p].attempt + 1 \in 1..MaxAttempts BY <1>1, <1>3, CallSettings DEF Call
    <3>3. QED BY <1>1, <1>3, <3>1, <3>2 DEF Retry, Call
  <2>2. /\ call'[p].step = "reading" /\ call'[p].wanted = <<>> /\ call'[p].held = {}
        /\ call'[p].request = call[p].request
    BY <1>1, <2>1 DEF Call
  <2>3. Admissible(p) BY <1>1 DEF CallInv
  <2>4. Admissible(p)'
    BY <2>2, <2>3 DEF Admissible, vars, poolVars, manifestVars
  <2>5. Unused(p)' BY <1>1 DEF CallInv, Unused, vars, manifestVars
  <2>6. Shaped(p)' BY <1>1, <2>2 DEF CallInv, Shaped, Working
  <2>7. CallInv(p)' BY <2>2, <2>4, <2>5, <2>6 DEF CallInv, Working
  <2>8. QED BY <2>1, <2>2, <2>7, StillInv DEF OnlyCaller
<1>4. QED BY <1>2, <1>3

LEMMA BeginInv ==
    ASSUME LockingInv, NEW p \in Callers, NEW r \in Requests, Begin(p, r)
    PROVE  LockingInv'
<1>1. call \in [Callers -> Call] /\ CallInv(p) /\ UNCHANGED vars /\ call[p].step = "idle"
  BY DEF LockingInv, Begin
<1>2. /\ call'[p] = [call[p] EXCEPT !.request = r, !.step = "reading"]
      /\ OnlyCaller(p)
  <2>1. "reading" \in Steps BY DEF Steps
  <2>2. QED BY <1>1, <2>1 DEF Begin, OnlyCaller, Call
<1>3. /\ call'[p].step = "reading" /\ call'[p].request = r
      /\ call'[p].held = call[p].held /\ call'[p].wanted = call[p].wanted
  BY <1>1, <1>2 DEF Call
<1>4. call[p].held = {} /\ call[p].wanted = <<>>
  BY <1>1 DEF CallInv, Shaped, Working
<1>5. Shaped(p)' BY <1>3, <1>4 DEF Shaped, Working
<1>6. Unused(p)' BY <1>1 DEF CallInv, Unused, Ends, vars, manifestVars
<1>7. Admissible(p)'
  <2>1. Admitted(r) BY DEF Begin
  <2>2. r.op = "release" => r.state \in {"CANCELLED", "ORPHANED"} BY RequestFields
  <2>3. Admissible(p)' <=>
          /\ r.op \in {"intake", "resolve"} => r.order \in invoices
          /\ r.op = "release" =>
                orderState[r.order] # "NONE" /\ (r.order \in invoices <=> r.state = "CANCELLED")
          /\ r.op \in {"remove", "close", "depart", "cancel", "record"} => status[r.manifest] # "NONE"
    BY <1>1, <1>3 DEF Admissible, vars, poolVars, manifestVars
  <2>4. QED BY <2>1, <2>2, <2>3 DEF Admitted
<1>8. CallInv(p)' BY <1>3, <1>5, <1>6, <1>7 DEF CallInv, Working
<1>9. QED BY <1>1, <1>2, <1>3, <1>4, <1>8, StillInv

LEMMA ReadsTyped ==
    ASSUME TypeOK, NEW r \in Requests
    PROVE  ReadsOf(r) \in Reads
<1>1. NoReads \in Reads BY Settings DEF NoReads, Reads, OrderState
<1>2. CASE r.op = "resolve"
  <2>1. r.order \in Orders /\ r.corridor \in Corridors BY <1>2, RequestFields
  <2>2. resolution[r.order].corridor \in Corridors \cup {None} BY <2>1 DEF TypeOK, Resolution
  <2>3. MatchedVersion(r) \in 0..MaxGeometry
    BY <2>1, Settings DEF MatchedVersion, TypeOK
  <2>4. QED BY <1>2, <2>2, <2>3, Settings DEF ReadsOf, NoReads, Reads, OrderState
<1>3. CASE r.op = "release"
  <2>1. r.order \in Orders BY <1>3, RequestFields
  <2>2. resolution[r.order].corridor \in Corridors \cup {None} BY <2>1 DEF TypeOK, Resolution
  <2>3. orderState[r.order] \in OrderState BY <2>1 DEF TypeOK
  <2>4. CarrierOf(r.order) \in Manifests \cup {None} BY DEF CarrierOf
  <2>5. ReadsOf(r) = [state |-> orderState[r.order], corridor |-> resolution[r.order].corridor,
                      carrier |-> CarrierOf(r.order), version |-> 0]
    BY <1>3 DEF ReadsOf, NoReads
  <2>6. 0 \in 0..MaxGeometry BY Settings
  <2>7. QED BY <2>2, <2>3, <2>4, <2>5, <2>6 DEF Reads
<1>4. QED BY <1>1, <1>2, <1>3 DEF ReadsOf

LEMMA CarrierCarries ==
    ASSUME NEW o \in Orders, CarrierOf(o) # None \/ \E m \in Manifests : o \in Aboard(m)
    PROVE  CarrierOf(o) \in Manifests /\ o \in Aboard(CarrierOf(o))
  BY DEF CarrierOf

LEMMA ReadInv ==
    ASSUME LockingInv, NEW p \in Callers, Read(p)
    PROVE  LockingInv' /\ Ascending(p)'
<1> DEFINE r == call[p].request
           reads == ReadsOf(r)
           H == IF Inserts(r) THEN {r.order} ELSE {}
<1>1. /\ call \in [Callers -> Call] /\ CallInv(p) /\ UNCHANGED vars
      /\ call[p].step = "reading" /\ TypeOK /\ AllocationInv /\ Keyed /\ ~UpsertWaits(p)
  BY DEF LockingInv, Read
<1>2. PICK s \in PlansAt(r, 1, reads) :
         call' = [call EXCEPT ![p].step = "locking", ![p].stage = 1, ![p].wanted = s,
                              ![p].reads = reads, ![p].held = H]
  BY DEF Read
<1>3. r \in Requests /\ reads \in Reads /\ Admissible(p)
  BY <1>1, ReadsTyped DEF CallInv, Shaped, Calling
<1>4. Ready(r, 1, reads)
  <2>1. r.op \in Manifested => status[r.manifest] # "NONE"
    BY <1>3 DEF Admissible, Manifested
  <2>2. ASSUME r.op = "release"
        PROVE  orderState[r.order] # "NONE" /\ (reads.carrier # None => status[reads.carrier] # "NONE")
    <3>1. r.order \in Orders BY <1>3, <2>2, RequestFields
    <3>2. reads.carrier = CarrierOf(r.order) BY <2>2 DEF ReadsOf, NoReads
    <3>3. ASSUME CarrierOf(r.order) # None PROVE status[CarrierOf(r.order)] # "NONE"
      <4>1. CarrierOf(r.order) \in Manifests /\ r.order \in Aboard(CarrierOf(r.order))
        BY <3>1, <3>3, CarrierCarries
      <4>2. \A m \in Manifests, o \in Orders : o \in Aboard(m) => status[m] # "NONE"
        BY <1>1 DEF AllocationInv, StopRows, Aboard
      <4>3. QED BY <3>1, <4>1, <4>2
    <3>4. QED BY <1>3, <2>2, <3>2, <3>3 DEF Admissible
  <2>3. QED BY <2>1, <2>2 DEF Ready
<1>5. Conforms(r, 1, reads, s)
  <2>1. 1 \in 1..Stages(r) BY DEF Stages
  <2>2. QED BY <1>1, <1>2, <1>3, <1>4, <2>1, PlanConforms
<1>6. H \subseteq Orders
  BY <1>3, RequestFields DEF Inserts
<1>7. LET k == [call[p] EXCEPT !.step = "locking", !.stage = 1, !.wanted = s, !.reads = reads,
                               !.held = H]
      IN  k \in Call /\ call' = [call EXCEPT ![p] = k]
  <2>1. "locking" \in Steps /\ 1 \in 1..3 /\ s \in Seq(Rows) /\ H \in SUBSET Rows
    BY <1>5, <1>6 DEF Steps, Conforms, Rows
  <2> HIDE DEF H, reads
  <2>2. [call[p] EXCEPT !.step = "locking", !.stage = 1, !.wanted = s, !.reads = reads,
                        !.held = H] \in Call
    BY <1>1, <1>3, <2>1 DEF Call
  <2>3. QED BY <1>1, <1>2, <2>2
<1>8. /\ OnlyCaller(p)
      /\ call'[p].step = "locking" /\ call'[p].stage = 1 /\ call'[p].wanted = s
      /\ call'[p].reads = reads /\ call'[p].held = H /\ call'[p].request = r
  <2> HIDE DEF H, reads
  <2>1. QED BY <1>1, <1>7 DEF OnlyCaller, Call
<1>9. Covered(p)' = H \cup RowsOf(s) /\ Queued(p)' = RowsOf(s)
  BY <1>8 DEF Covered, Queued, RowsOf
<1>10. Shaped(p)' /\ Unused(p)'
  <2>1. 1 \in 1..Stages(r) BY DEF Stages
  <2>2. call'[p].request \in Requests /\ call'[p].stage \in 1..Stages(call'[p].request)
    BY <1>3, <1>8, <2>1
  <2>3. QED
    BY <1>1, <1>8, <2>2 DEF CallInv, Shaped, Working, Unused, Ends, vars, manifestVars
<1>11. Admissible(p)'
  BY <1>1, <1>3, <1>8 DEF Admissible, vars, poolVars, manifestVars
<1>12. Claimed(p)'
  <2>1. Claims(p, 1)' \subseteq RowsOf(s)
    <3>1. r.op # "cancel" \/ 1 = 1 OBVIOUS
    <3>2. Claims(p, 1)' = StageClaims(r, 1, reads)
      BY <1>8 DEF Claims, StageClaims
    <3>3. QED BY <1>5, <3>2 DEF Conforms
  <2>2. QED BY <1>8, <1>9, <2>1 DEF Claimed
<1>13. Upserting(p)'
  BY <1>1, <1>8 DEF Upserting, Op, Inserts, vars, poolVars
<1>14. Matched(p)'
  <2>1. ASSUME r.op = "resolve", reads.version # 0
        PROVE  r.corridor \in Governed /\ location[ShopOf[r.order]] # 0
    <3>1. MatchedVersion(r) # 0 BY <2>1 DEF ReadsOf, NoReads
    <3>2. QED BY <3>1 DEF MatchedVersion, Qualifies
  <2>2. location' = location BY <1>1 DEF vars, setupVars
  <2>3. QED BY <1>8, <2>1, <2>2 DEF Matched
<1>15. RowsExist(p)'
  <2>1. orderState' = orderState /\ status' = status BY <1>1 DEF vars, poolVars, manifestVars
  <2>2. \A m \in Manifests \cap (H \cup RowsOf(s)) : status[m] # "NONE"
    BY <1>5, <1>6, RowsAreApart DEF Conforms
  <2>3. \A o \in Orders \cap RowsOf(s) : orderState[o] # "NONE" \/ o \in H
    BY <1>5 DEF Conforms, Inserts
  <2>4. QED BY <1>8, <1>9, <2>1, <2>2, <2>3 DEF RowsExist
<1>16. Checked(p)' BY <1>8 DEF Checked
<1>17. CallInv(p)'
  BY <1>8, <1>10, <1>11, <1>12, <1>13, <1>14, <1>15, <1>16 DEF CallInv
<1>18. \A q \in Callers \ {p} : call'[p].held \cap call[q].held = {}
  BY <1>1, <1>8 DEF UpsertWaits, LockedByOther
<1>19. Ascending(p)'
  <2>1. Ascends(s) /\ \A x \in RowsOf(s) : Level(x) <= Reach(r.op, 1)
    BY <1>5 DEF Conforms
  <2>2. \A x \in H : x \in Orders /\ orderState'[x] = "NONE" /\ Level(x) <= Reach(r.op, 1)
    <3>1. orderState' = orderState BY <1>1 DEF vars, poolVars
    <3>2. Inserts(r) => r.order \in Orders /\ orderState[r.order] = "NONE" /\ Reach(r.op, 1) = 4
      BY <1>3, RequestFields DEF Inserts, Reach
    <3>3. QED BY <3>1, <3>2, Levels
  <2> HIDE DEF H, reads
  <2>3. QED BY <1>8, <1>9, <2>1, <2>2 DEF Ascending, Op
<1>20. QED BY <1>1, <1>8, <1>17, <1>18, <1>19, StillInv

\* The first row of a queue and the others.
LEMMA QueueSplits ==
    ASSUME NEW s \in Seq(Rows), s # <<>>
    PROVE  /\ Head(s) \in Rows /\ Tail(s) \in Seq(Rows)
           /\ RowsOf(s) = {Head(s)} \cup RowsOf(Tail(s))
           /\ Ascends(s) => Ascends(Tail(s)) /\ \A y \in RowsOf(Tail(s)) : Below(Head(s), y)
<1>1. /\ Head(s) = s[1] /\ Head(s) \in Rows /\ Tail(s) \in Seq(Rows) /\ Len(s) \in Nat \ {0}
      /\ DOMAIN s = 1..Len(s) /\ DOMAIN Tail(s) = 1..(Len(s) - 1)
      /\ \A i \in 1..(Len(s) - 1) : Tail(s)[i] = s[i + 1]
  BY HeadTailProperties, EmptySeq, LenProperties
<1>2. RowsOf(s) \subseteq {Head(s)} \cup RowsOf(Tail(s))
  <2>1. ASSUME NEW i \in DOMAIN s, i # 1 PROVE s[i] \in RowsOf(Tail(s))
    <3>1. i - 1 \in DOMAIN Tail(s) /\ Tail(s)[i - 1] = s[i] BY <1>1, <2>1
    <3>2. QED BY <3>1 DEF RowsOf
  <2>2. QED BY <1>1, <2>1 DEF RowsOf
<1>3. {Head(s)} \cup RowsOf(Tail(s)) \subseteq RowsOf(s)
  <2>1. \A i \in DOMAIN Tail(s) : i + 1 \in DOMAIN s /\ Tail(s)[i] = s[i + 1] BY <1>1
  <2>2. 1 \in DOMAIN s BY <1>1
  <2>3. QED BY <1>1, <2>1, <2>2 DEF RowsOf
<1>4. ASSUME Ascends(s)
      PROVE  Ascends(Tail(s)) /\ \A y \in RowsOf(Tail(s)) : Below(Head(s), y)
  <2>1. \A i \in DOMAIN Tail(s) : i + 1 \in DOMAIN s /\ 1 \in DOMAIN s /\ 1 < i + 1 /\ i \in Nat
    BY <1>1
  <2>2. \A i, j \in DOMAIN Tail(s) : i < j => i + 1 < j + 1 BY <1>1
  <2>3. \A i, j \in DOMAIN s : i < j => Below(s[i], s[j]) BY <1>4 DEF Ascends
  <2>4. \A i, j \in DOMAIN Tail(s) : i < j => Below(Tail(s)[i], Tail(s)[j])
    BY <1>1, <2>1, <2>2, <2>3
  <2>5. \A i \in DOMAIN Tail(s) : Below(Head(s), Tail(s)[i])
    BY <1>1, <2>1, <2>3
  <2>6. QED BY <2>4, <2>5 DEF Ascends, RowsOf
<1>5. QED BY <1>1, <1>2, <1>3, <1>4

LEMMA ClaimsStand ==
    ASSUME UNCHANGED vars, NEW p, NEW i,
           call'[p].request = call[p].request, call'[p].reads = call[p].reads
    PROVE  Claims(p, i)' = Claims(p, i)
<1>1. ASSUME NEW m PROVE Returned(m)' = Returned(m)
  BY DEF Returned, Aboard, vars, poolVars, stopVars
<1>2. PICK m : m = call[p].request.manifest OBVIOUS
<1>3. Returned(call[p].request.manifest)' = Returned(call[p].request.manifest)
  BY <1>1, <1>2 DEF Returned, Aboard
<1>4. QED BY <1>3 DEF Claims, StageClaims

LEMMA AcquireInv ==
    ASSUME LockingInv, NEW p \in Callers, Acquire(p)
    PROVE  LockingInv' /\ (Ascending(p) => Ascending(p)')
<1> DEFINE s == call[p].wanted
           x == Head(s)
           H == call[p].held \cup {x}
<1>1. /\ call \in [Callers -> Call] /\ CallInv(p) /\ UNCHANGED vars
      /\ call[p].step = "locking" /\ s # <<>> /\ ~LockedByOther(p, x)
      /\ call' = [call EXCEPT ![p].held = H, ![p].wanted = Tail(s)]
  BY DEF LockingInv, Acquire, Locking
<1>2. s \in Seq(Rows) /\ call[p].held \in SUBSET Rows BY <1>1 DEF Call
<1>3. /\ x \in Rows /\ Tail(s) \in Seq(Rows) /\ RowsOf(s) = {x} \cup RowsOf(Tail(s))
      /\ Ascends(s) => Ascends(Tail(s)) /\ \A y \in RowsOf(Tail(s)) : Below(x, y)
  BY <1>1, <1>2, QueueSplits
<1> HIDE DEF x, s
<1>4. /\ [call[p] EXCEPT !.held = H, !.wanted = Tail(s)] \in Call
      /\ call' = [call EXCEPT ![p] = [call[p] EXCEPT !.held = H, !.wanted = Tail(s)]]
  BY <1>1, <1>2, <1>3 DEF Call
<1>5. /\ OnlyCaller(p) /\ call'[p].held = H /\ call'[p].wanted = Tail(s)
      /\ call'[p].request = call[p].request /\ call'[p].step = "locking"
      /\ call'[p].stage = call[p].stage /\ call'[p].reads = call[p].reads
  BY <1>1, <1>4 DEF OnlyCaller, Call
<1>6. Queued(p)' = RowsOf(Tail(s)) /\ Queued(p) = {x} \cup RowsOf(Tail(s))
  BY <1>3, <1>5 DEF Queued, RowsOf, s
<1>7. Covered(p)' = Covered(p)
  BY <1>5, <1>6 DEF Covered
<1>8. Working(p) /\ Working(p)' BY <1>1, <1>5 DEF Working
<1>9. /\ Shaped(p) /\ Unused(p) /\ Admissible(p) /\ Claimed(p) /\ Upserting(p)
      /\ Matched(p) /\ RowsExist(p) /\ Checked(p)
  BY <1>1, <1>8 DEF CallInv, Calling
<1>10. Shaped(p)' /\ Unused(p)' /\ Admissible(p)' /\ Matched(p)' /\ Checked(p)'
  BY <1>1, <1>5, <1>8, <1>9
  DEF Shaped, Unused, Admissible, Matched, Checked, Op, Loadable, Ends, vars, poolVars,
      setupVars, manifestVars
<1>11. Claimed(p)'
  <2>1. \A i \in 1..3 : Claims(p, i)' = Claims(p, i)
    BY <1>1, <1>5, ClaimsStand
  <2>2. call[p].stage \in 1..3 BY <1>1 DEF Call
  <2>3. \A i \in 1..(call[p].stage - 1) : i \in 1..3 BY <2>2
  <2>4. QED BY <1>5, <1>7, <1>9, <2>1, <2>2, <2>3 DEF Claimed
<1>12. Upserting(p)' BY <1>1, <1>5, <1>9 DEF Upserting, Op, vars, poolVars
<1>13. RowsExist(p)' BY <1>1, <1>5, <1>6, <1>7, <1>9 DEF RowsExist, vars, poolVars, manifestVars
<1>14. CallInv(p)'
  BY <1>5, <1>8, <1>10, <1>11, <1>12, <1>13 DEF CallInv
<1>15. \A q \in Callers \ {p} : call'[p].held \cap call[q].held = {}
  BY <1>1, <1>5 DEF LockingInv, OneHolder, LockedByOther
<1>16. Ascending(p) => Ascending(p)'
  <2>1. orderState' = orderState BY <1>1 DEF vars, poolVars
  <2>2. QED BY <1>3, <1>5, <1>6, <1>7, <2>1 DEF Ascending, Op, s
<1>17. QED BY <1>1, <1>5, <1>14, <1>15, <1>16, StillInv

LEMMA AdvanceInv ==
    ASSUME LockingInv, NEW p \in Callers, Advance(p)
    PROVE  LockingInv' /\ (Ascending(p) /\ Locking(p)' => Ascending(p)')
<1> DEFINE r == call[p].request
           n == call[p].stage
           reads == call[p].reads
<1>1. /\ call \in [Callers -> Call] /\ CallInv(p) /\ UNCHANGED vars
      /\ call[p].step = "locking" /\ call[p].wanted = <<>> /\ n < Stages(r)
      /\ TypeOK /\ AllocationInv /\ Keyed
  BY DEF LockingInv, Advance, Locking
<1>2. CASE ~Continues(r, n)
  <2>1. End(p, "refused") BY <1>2 DEF Advance
  <2>2. ~Locking(p)' BY <1>1, <2>1 DEF End, Locking, Call
  <2>3. QED BY <1>1, <2>1, <2>2, EndInv DEF Ends
<1>3. CASE Continues(r, n)
  <2>1. PICK s \in PlansAt(r, n + 1, reads) :
           call' = [call EXCEPT ![p].stage = n + 1, ![p].wanted = s]
    BY <1>3 DEF Advance
  <2>2. Working(p) BY <1>1 DEF Working
  <2>3. /\ r \in Requests /\ n \in 1..Stages(r) /\ reads \in Reads
        /\ Unused(p) /\ Admissible(p) /\ Claimed(p) /\ Upserting(p) /\ Matched(p) /\ RowsExist(p)
    BY <1>1, <2>2 DEF CallInv, Shaped, Calling, Call
  <2>4. Stages(r) \in 2..3 /\ n + 1 \in 1..Stages(r) /\ n + 1 \in 1..3
        /\ r.op \in {"create", "remove", "depart", "cancel", "record"}
    BY <1>1, <2>3 DEF Stages
  <2>5. Ready(r, n + 1, reads)
    <3>1. r.op \in Manifested => status[r.manifest] # "NONE"
      BY <2>3 DEF Admissible, Manifested
    <3>2. ASSUME r.op \in {"remove", "record"} PROVE orderState[r.order] # "NONE"
      <4>1. CASE r.op = "remove" BY <1>3, <4>1 DEF Continues
      <4>2. CASE r.op = "record"
        <5>1. r.manifest \in Manifests /\ r.order \in Orders
          BY <2>3, <4>2, RequestFields DEF Manifested
        <5>2. delivery[<<r.manifest, r.order>>] # "NONE" BY <1>3, <4>2 DEF Continues
        <5>3. QED BY <1>1, <5>1, <5>2 DEF Keyed
      <4>3. QED BY <3>2, <4>1, <4>2
    <3>3. QED BY <2>4, <3>1, <3>2 DEF Ready
  <2>6. Conforms(r, n + 1, reads, s)
    BY <1>1, <2>1, <2>3, <2>4, <2>5, PlanConforms
  <2>7. /\ [call[p] EXCEPT !.stage = n + 1, !.wanted = s] \in Call
        /\ call' = [call EXCEPT ![p] = [call[p] EXCEPT !.stage = n + 1, !.wanted = s]]
    <3>1. s \in Seq(Rows) BY <2>6 DEF Conforms
    <3>2. [call[p] EXCEPT !.stage = n + 1, !.wanted = s] \in Call
      BY <1>1, <2>4, <3>1 DEF Call
    <3>3. QED BY <1>1, <2>1, <3>2
  <2>8. /\ OnlyCaller(p) /\ call'[p].stage = n + 1 /\ call'[p].wanted = s
        /\ call'[p].request = r /\ call'[p].step = "locking"
        /\ call'[p].held = call[p].held /\ call'[p].reads = reads
    BY <1>1, <2>7 DEF OnlyCaller, Call
  <2>9. /\ Covered(p) = call[p].held
        /\ Covered(p)' = call[p].held \cup RowsOf(s) /\ Queued(p)' = RowsOf(s)
    BY <1>1, <2>8, NoRow DEF Covered, Queued, RowsOf
  <2>10. Shaped(p)'
    BY <2>3, <2>4, <2>8 DEF Shaped, Working
  <2>11. Unused(p)' /\ Admissible(p)' /\ Upserting(p)' /\ Matched(p)'
    BY <1>1, <2>3, <2>8
    DEF Unused, Ends, Admissible, Upserting, Op, Matched, vars, poolVars, setupVars, manifestVars
  <2>12. Claimed(p)'
    <3>1. \A i \in 1..3 : Claims(p, i)' = Claims(p, i) BY <1>1, <2>8, ClaimsStand
    <3>2. Claims(p, n + 1) \subseteq RowsOf(s) BY <2>6 DEF Conforms, Claims
    <3>3. \A i \in 1..n : Claims(p, i) \subseteq call[p].held
      <4>1. \A i \in 1..n : i = n \/ i \in 1..(n - 1) BY <2>3, <2>4
      <4>2. QED BY <2>3, <2>9, <4>1 DEF Claimed
    <3>4. (n + 1) - 1 = n /\ 1..n \subseteq 1..3 BY <2>3, <2>4
    <3> HIDE DEF n
    <3>5. QED BY <2>4, <2>8, <2>9, <3>1, <3>2, <3>3, <3>4 DEF Claimed
  <2>13. RowsExist(p)'
    <3>1. \A o \in Orders \cap RowsOf(s) : orderState[o] # "NONE"
      BY <2>4, <2>6 DEF Conforms
    <3>2. \A m \in Manifests \cap (call[p].held \cup RowsOf(s)) : status[m] # "NONE"
      BY <2>3, <2>6, <2>9 DEF Conforms, RowsExist
    <3>3. QED BY <1>1, <2>9, <3>1, <3>2 DEF RowsExist, vars, poolVars, manifestVars
  <2>14. Checked(p)'
    <3>1. r.op = "remove" => Loadable(r.manifest) BY <1>3 DEF Continues
    <3>2. QED BY <1>1, <2>8, <3>1 DEF Checked, Op, Loadable, vars, manifestVars
  <2>15. CallInv(p)'
    BY <2>8, <2>10, <2>11, <2>12, <2>13, <2>14 DEF CallInv
  <2>16. \A q \in Callers \ {p} : call'[p].held \cap call[q].held = {}
    BY <2>8 DEF LockingInv, OneHolder
  <2>17. ASSUME Ascending(p) PROVE Ascending(p)'
    <3>1. /\ Ascends(s)
          /\ \A y \in RowsOf(s) : Level(y) <= Reach(r.op, n + 1) /\ Reach(r.op, n) < Level(y)
      <4>1. n + 1 > 1 /\ (n + 1) - 1 = n BY <2>3, <2>4
      <4>2. QED BY <2>6, <4>1 DEF Conforms
    <3>2. \A x \in call[p].held : Level(x) <= Reach(r.op, n) BY <2>9, <2>17 DEF Ascending, Op
    <3>3. Reach(r.op, n) \in 1..4 /\ Reach(r.op, n + 1) \in 1..4 /\ Reach(r.op, n) <= Reach(r.op, n + 1)
      BY <2>3, <2>4 DEF Reach, Stages
    <3>4. (call[p].held \cup RowsOf(s)) \subseteq Rows
      BY <1>1, <2>6 DEF Call, Conforms, RowsOf
    <3>5. \A x \in call[p].held \cup RowsOf(s) : Level(x) \in 1..4 BY <3>4, Levels
    <3>6. \A x \in call[p].held, y \in RowsOf(s) : Below(x, y)
      BY <3>1, <3>2, <3>3, <3>5 DEF Below
    <3>7. \A x \in call[p].held \cup RowsOf(s) : Level(x) <= Reach(r.op, n + 1)
      BY <3>1, <3>2, <3>3, <3>5
    <3>8. QED BY <2>8, <2>9, <3>1, <3>6, <3>7 DEF Ascending, Op
  <2>18. QED BY <1>1, <2>8, <2>15, <2>16, <2>17, StillInv
<1>4. QED BY <1>2, <1>3

LEMMA WritesTyped ==
    /\ NoWrites \in Writes /\ NoWrites.orders = {}
    /\ \A n \in Nat :
          LET w == [NoWrites EXCEPT !.value = n]
          IN  w \in Writes /\ w.orders = {} /\ w.value = n
<1>1. NoHeader \in Header BY Settings DEF NoHeader, Header
<1>2. NoWrites \in Writes /\ NoWrites.orders = {} BY <1>1 DEF NoWrites, Writes
<1>3. ASSUME NEW n \in Nat
      PROVE  LET w == [NoWrites EXCEPT !.value = n]
             IN  w \in Writes /\ w.orders = {} /\ w.value = n
  BY <1>2 DEF Writes
<1>4. QED BY <1>2, <1>3

\* What a call decides has the types of its writes and rests on rows it holds.
LEMMA DecisionMade ==
    ASSUME LockingInv, NEW p \in Callers, Working(p), call[p].wanted = <<>>,
           call[p].stage = Stages(call[p].request),
           ~Moved(call[p].request, call[p].reads, call[p].held),
           Allowed(call[p].request, call[p].reads),
           NEW w \in Decisions(call[p].request, call[p].held),
           call'[p].request = call[p].request, call'[p].reads = call[p].reads,
           call'[p].held = call[p].held, call'[p].writes = w, UNCHANGED vars
    PROVE  w \in Writes /\ Decided(p)'
<1> DEFINE r == call[p].request
           reads == call[p].reads
           H == call[p].held
<1>1. /\ TypeOK /\ AllocationInv /\ r \in Requests /\ call[p] \in Call
      /\ H \in SUBSET Rows /\ Admissible(p) /\ Checked(p)
  BY DEF LockingInv, CallInv, Shaped, Working, Calling, Call
<1>2. NoWrites \in Writes /\ NoWrites.orders = {} BY WritesTyped
<1>3. Decided(p)' <=> w.orders \subseteq H /\ Decision(p)' BY DEF Decided
<1>4. CASE r.op = "create"
  <2> DEFINE locked == {o \in H \cap Orders : Eligible(o, r.corridor)}
  <2>1. /\ r.corridor \in Corridors /\ r.vehicle \in Vehicles /\ r.planned \in 0..MaxDay
        /\ r.automatic \in BOOLEAN /\ capacity[r.vehicle] \in Nat
    BY <1>1, <1>4, RequestFields, Settings DEF TypeOK
  <2>2. PICK S \in Selections(r, H) :
           /\ S # {} /\ S \subseteq invoices
           /\ w = [NoWrites EXCEPT !.orders = S,
                                   !.header = HeaderOf(r.corridor, r.vehicle, r.planned)]
    BY <1>4 DEF Decisions
  <2>3. S \subseteq locked /\ Load(S) <= capacity[r.vehicle]
    <3>1. CASE r.automatic
      <4>1. S \in SUBSET locked /\ IsWalk(S, locked, capacity[r.vehicle])
        BY <2>2, <3>1 DEF Selections
      <4>2. locked \in SUBSET Orders /\ S \in SUBSET Orders BY <4>1
      <4> HIDE DEF locked
      <4>3. QED BY <2>1, <2>2, <4>1, <4>2, WalkFits
    <3>2. CASE ~r.automatic
      BY <2>2, <3>2 DEF Selections
    <3>3. QED BY <3>1, <3>2
  <2>4. HeaderOf(r.corridor, r.vehicle, r.planned) \in Header
    <3>1. geometry[r.corridor] \in 0..MaxGeometry BY <1>1, <2>1 DEF TypeOK
    <3>2. QED BY <2>1, <3>1 DEF HeaderOf, Header
  <2>5. /\ w \in Writes /\ w.orders = S
        /\ w.header = HeaderOf(r.corridor, r.vehicle, r.planned)
    BY <1>2, <2>2, <2>3, <2>4 DEF NoWrites, Writes
  <2>6. Openable(r.corridor, r.vehicle, r.planned) BY <1>4 DEF Allowed
  <2>7. PICK c, v, planned : c = r.corridor /\ v = r.vehicle /\ planned = r.planned OBVIOUS
  <2>8. /\ S \subseteq invoices' /\ \A o \in S : Eligible(o, c)' /\ Load(S) <= capacity'[v]
        /\ Openable(c, v, planned)' /\ w.header = HeaderOf(c, v, planned)'
    BY <2>2, <2>3, <2>5, <2>6, <2>7
    DEF Eligible, Stale, Openable, Qualifies, HeaderOf, vars, poolVars, setupVars
  <2>9. Decision(p)'
    <3>1. /\ call'[p].request.op = "create" /\ call'[p].request.corridor = c
          /\ call'[p].request.vehicle = v /\ call'[p].request.planned = planned
          /\ call'[p].writes.orders = S /\ call'[p].writes.header = w.header
      BY <1>4, <2>5, <2>7
    <3>2. Load(call'[p].writes.orders) = Load(S) BY <3>1
    <3>3. QED
      BY <2>2, <2>8, <3>1, <3>2 DEF Decision, Eligible, Stale, Openable, Qualifies, HeaderOf, Load
  <2>10. QED BY <1>3, <2>3, <2>5, <2>9
<1>5. CASE r.op \in {"remove", "cancel", "record", "close", "depart"}
  <2>1. r.manifest \in Manifests /\ (r.op \in {"remove", "record"} => r.order \in Orders)
    BY <1>1, <1>5, RequestFields DEF Manifested
  <2>2. ServiceDay(r.manifest) \in Nat
    BY <1>1, <2>1, Settings DEF ServiceDay, TypeOK, Header, Day
  <2>3. w \in Writes /\ w.orders = {} /\ (r.op = "depart" => w.value = ServiceDay(r.manifest))
    <3>1. w = IF r.op = "depart" THEN [NoWrites EXCEPT !.value = ServiceDay(r.manifest)]
              ELSE NoWrites
      BY <1>5 DEF Decisions
    <3>2. QED BY <2>2, <3>1, WritesTyped
  <2>4. PICK m, o, outcome : m = r.manifest /\ o = r.order /\ outcome = r.outcome OBVIOUS
  <2>5. /\ r.op = "remove" => Loadable(m) /\ <<m, o>> \in allocated /\ Readable(m)
        /\ r.op = "depart" => Departable(m) /\ w.value = ServiceDay(m)
        /\ r.op = "cancel" => Cancellable(m)
        /\ r.op = "record" => Recordable(m, o, outcome)
        /\ r.op = "close" => Closable(m)
    <3>1. r.op = "remove" => Loadable(m)
      BY <1>1, <2>4 DEF Checked, Op, Stages
    <3>2. QED BY <2>3, <2>4, <3>1 DEF Allowed
  <2>6. /\ r.op = "remove" => Loadable(m)' /\ <<m, o>> \in allocated' /\ Readable(m)'
        /\ r.op = "depart" => Departable(m)' /\ w.value = ServiceDay(m)'
        /\ r.op = "cancel" => Cancellable(m)'
        /\ r.op = "record" => Recordable(m, o, outcome)'
        /\ r.op = "close" => Closable(m)'
    BY <2>5
    DEF Loadable, Readable, Departable, ServiceDay, Cancellable, Recordable, Closable, OpenStops,
        Aboard, vars, poolVars, manifestVars, stopVars
  <2>7. Decision(p)'
    <3>1. /\ call'[p].request.op = r.op /\ call'[p].request.manifest = m
          /\ call'[p].request.order = o /\ call'[p].request.outcome = outcome
          /\ call'[p].writes.value = w.value
      BY <2>4
    <3>2. QED
      BY <1>5, <2>6, <3>1
      DEF Decision, Loadable, Readable, Departable, ServiceDay, Cancellable, Recordable, Closable,
          OpenStops, Aboard
  <2>8. QED BY <1>3, <2>3, <2>7
<1>6. CASE r.op = "release"
  <2>1. r.order \in Orders BY <1>1, <1>6, RequestFields
  <2>2. w = NoWrites BY <1>6 DEF Decisions
  <2>3. reads.state = orderState[r.order] /\ reads.carrier = CarrierOf(r.order)
    BY <1>6 DEF Moved, ReadsOf, NoReads
  <2>4. ASSUME reads.state = "ALLOCATED"
        PROVE  reads.carrier \in Manifests /\ <<reads.carrier, r.order>> \in allocated
    <3>1. \E m \in Manifests : r.order \in Aboard(m)
      BY <1>1, <2>1, <2>3, <2>4 DEF AllocationInv, AllocationCoherent, OpenStops
    <3>2. CarrierOf(r.order) \in Manifests /\ r.order \in Aboard(CarrierOf(r.order))
      BY <2>1, <3>1, CarrierCarries
    <3>3. QED BY <2>3, <3>2 DEF Aboard
  <2>5. Decision(p)'
    <3>1. \/ reads.state = "POOLED"
          \/ reads.state = "ALLOCATED" /\ (r.state = "ORPHANED" \/ Loadable(reads.carrier))
      BY <1>6 DEF Allowed
    <3>2. QED
      BY <1>6, <2>3, <2>4, <3>1
      DEF Decision, Loadable, vars, poolVars, manifestVars, stopVars
  <2>6. QED BY <1>2, <1>3, <2>2, <2>5
<1>7. CASE r.op = "resolve"
  <2>1. w = NoWrites BY <1>7 DEF Decisions
  <2>2. reads.version # 0 =>
           r.corridor \in active /\ geometry[r.corridor] = reads.version /\ Upserted(r.order) = "POOLED"
    BY <1>7 DEF Moved, Allowed
  <2>3. Decision(p)'
    BY <1>7, <2>2 DEF Decision, Upserted, vars, poolVars, setupVars
  <2>4. QED BY <1>2, <1>3, <2>1, <2>3
<1>8. CASE r.op \in {"intake", "corridor"}
  <2>1. w = NoWrites BY <1>8 DEF Decisions
  <2>2. Decision(p)' BY <1>8 DEF Decision
  <2>3. QED BY <1>2, <1>3, <2>1, <2>2
<1>9. CASE r.op = "geometry"
  <2>1. w = [NoWrites EXCEPT !.value = geometry[r.corridor] + 1] BY <1>9 DEF Decisions
  <2>2. geometry[r.corridor] < MaxGeometry BY <1>9 DEF Allowed
  <2>3. geometry[r.corridor] \in Nat BY <1>1, <1>9, RequestFields DEF TypeOK
  <2>4. w \in Writes /\ w.orders = {} /\ w.value = geometry[r.corridor] + 1
    <3>1. PICK n \in Nat : n = geometry[r.corridor] + 1 BY <2>3
    <3>2. w = [NoWrites EXCEPT !.value = n] BY <2>1, <3>1
    <3>3. w \in Writes /\ w.orders = {} /\ w.value = n BY <3>2, WritesTyped
    <3>4. QED BY <3>1, <3>3
  <2>5. Decision(p)' BY <1>9, <2>2, <2>4 DEF Decision, vars, setupVars
  <2>6. QED BY <1>3, <2>4, <2>5
<1>10. CASE r.op = "vehicle"
  <2>1. /\ r.vehicle \in Vehicles /\ r.patch \in {"active", "capacity"}
        /\ r.patch = "active" => r.on \in BOOLEAN
        /\ r.patch = "capacity" => r.grams \in Nat
        /\ capacity[r.vehicle] \in Nat
    BY <1>1, <1>10, RequestFields, Settings DEF TypeOK
  <2>2. w = IF r.patch = "active" THEN [NoWrites EXCEPT !.on = r.on, !.value = capacity[r.vehicle]]
            ELSE [NoWrites EXCEPT !.on = (r.vehicle \in active), !.value = r.grams]
    BY <1>10 DEF Decisions
  <2>3. /\ w \in Writes /\ w.orders = {}
        /\ r.patch = "active" => w.on = r.on /\ w.value = capacity[r.vehicle]
        /\ r.patch # "active" => w.on = (r.vehicle \in active) /\ w.value = r.grams
    <3>1. PICK n \in Nat : n = IF r.patch = "active" THEN capacity[r.vehicle] ELSE r.grams
      BY <2>1
    <3>2. PICK b \in BOOLEAN :
             /\ w = [NoWrites EXCEPT !.on = b, !.value = n]
             /\ r.patch = "active" => b = r.on
             /\ r.patch # "active" => b = (r.vehicle \in active)
      <4>1. CASE r.patch = "active" BY <2>1, <2>2, <3>1, <4>1
      <4>2. CASE r.patch # "active"
        <5>1. (r.vehicle \in active) \in BOOLEAN OBVIOUS
        <5>2. w = [NoWrites EXCEPT !.on = (r.vehicle \in active), !.value = n]
          BY <2>2, <3>1, <4>2
        <5>3. QED BY <4>2, <5>1, <5>2, Zenon
      <4>3. QED BY <4>1, <4>2
    <3>3. w \in Writes /\ w.orders = {} /\ w.on = b /\ w.value = n
      BY <1>2, <3>1, <3>2 DEF Writes
    <3>4. QED BY <3>1, <3>2, <3>3
  <2>4. Decision(p)' BY <1>10, <2>3 DEF Decision, vars, setupVars
  <2>5. QED BY <1>3, <2>3, <2>4
<1>11. QED
  BY <1>1, <1>4, <1>5, <1>6, <1>7, <1>8, <1>9, <1>10, RequestFields

LEMMA DecideInv ==
    ASSUME LockingInv, NEW p \in Callers, Decide(p)
    PROVE  LockingInv'
<1> DEFINE r == call[p].request
           k == call[p]
<1>1. /\ call \in [Callers -> Call] /\ CallInv(p) /\ UNCHANGED vars /\ Working(p)
      /\ k.step = "locking" /\ k.wanted = <<>> /\ k.stage = Stages(r)
  BY DEF LockingInv, Decide, Locking, Working
<1>2. CASE Moved(r, k.reads, k.held)
  BY <1>1, <1>2, RetryInv DEF Decide, Calling
<1>3. CASE End(p, "refused")
  BY <1>1, <1>3, EndInv DEF Ends
<1>4. ASSUME ~Moved(r, k.reads, k.held), Allowed(r, k.reads), NEW w \in Decisions(r, k.held),
             call' = [call EXCEPT ![p].step = "committing", ![p].writes = w]
      PROVE  LockingInv'
  <2>1. call' = [call EXCEPT ![p] = [call[p] EXCEPT !.step = "committing", !.writes = w]]
    BY <1>1, <1>4
  <2>2. /\ call'[p].step = "committing" /\ call'[p].writes = w
        /\ call'[p].request = r /\ call'[p].reads = k.reads /\ call'[p].held = k.held
        /\ call'[p].wanted = <<>> /\ call'[p].stage = k.stage
    BY <1>1, <2>1 DEF Call
  <2>3. w \in Writes /\ Decided(p)'
    BY <1>1, <1>4, <2>2, DecisionMade
  <2>4. OnlyCaller(p)
    <3>1. [call[p] EXCEPT !.step = "committing", !.writes = w] \in Call
      <4>1. "committing" \in Steps BY DEF Steps
      <4>2. QED BY <1>1, <2>3, <4>1 DEF Call
    <3>2. QED BY <1>1, <2>1, <3>1 DEF OnlyCaller
  <2>5. /\ Shaped(p) /\ Unused(p) /\ Admissible(p) /\ Claimed(p) /\ Upserting(p)
        /\ Matched(p) /\ RowsExist(p) /\ Checked(p)
    BY <1>1 DEF CallInv, Calling
  <2>6. Shaped(p)' BY <1>1, <2>2, <2>5 DEF Shaped, Working
  <2>7. Unused(p)' /\ Admissible(p)' /\ Upserting(p)' /\ Matched(p)' /\ Checked(p)'
    BY <1>1, <2>2, <2>5
    DEF Unused, Ends, Admissible, Upserting, Op, Matched, Checked, Loadable, vars, poolVars,
        setupVars, manifestVars
  <2>8. Covered(p)' = Covered(p) /\ Queued(p)' = Queued(p)
    BY <1>1, <2>2 DEF Covered, Queued, RowsOf
  <2>9. Claimed(p)'
    <3>1. \A i \in 1..3 : Claims(p, i)' = Claims(p, i) BY <1>1, <2>2, ClaimsStand
    <3>2. k.stage \in 1..3 /\ \A i \in 1..(k.stage - 1) : i \in 1..3 BY <1>1 DEF Stages
    <3>3. QED BY <2>2, <2>5, <2>8, <3>1, <3>2 DEF Claimed
  <2>10. RowsExist(p)'
    BY <1>1, <2>2, <2>5, <2>8 DEF RowsExist, vars, poolVars, manifestVars
  <2>11. CallInv(p)' BY <2>3, <2>6, <2>7, <2>9, <2>10 DEF CallInv
  <2>12. \A q \in Callers \ {p} : call'[p].held \cap call[q].held = {}
    BY <2>2 DEF LockingInv, OneHolder
  <2>13. QED BY <1>1, <2>4, <2>11, <2>12, StillInv
<1>5. QED BY <1>2, <1>3, <1>4 DEF Decide

LEMMA CommitInv ==
    ASSUME LockingInv, NEW p \in Callers, Commit(p)
    PROVE  LockingInv' /\ [Next]_vars
<1>1. /\ call \in [Callers -> Call] /\ call[p].step = "committing"
      /\ TypeOK /\ AllocationInv /\ Keyed
  BY DEF LockingInv, Commit
<1>2. CASE End(p, "refused") /\ UNCHANGED vars
  BY <1>1, <1>2, EndInv DEF Ends
<1>3. CASE End(p, "committed") /\ WritesOf(call[p], FreshId[p])
  <2>1. Committing(p) BY <1>1, <1>3 DEF Committing
  <2>2. /\ call[p] \in Call /\ call[p].request \in Requests
        /\ FreshId[p] \in Manifests /\ status[FreshId[p]] = "NONE"
        /\ \A m \in Manifests \cap call[p].held : status[m] # "NONE"
    BY <1>1, CommitHolds
  <2>3. [Next]_vars
    BY <1>1, <2>1, <2>2, CommitIsTransaction, TransactionIsStep
  <2>4. TypeOK' /\ AllocationInv' /\ Keyed'
    BY <1>1, <2>3, NextTypeOK, NextAllocationInv, NextKeyed
  <2>5. /\ OnlyCaller(p) /\ call'[p].step = "committed" /\ call'[p].wanted = <<>>
        /\ call'[p].held = {} /\ call'[p].request = call[p].request
    <3>1. call' = [call EXCEPT ![p] = [call[p] EXCEPT !.step = "committed", !.wanted = <<>>,
                                                      !.held = {}]]
      BY <1>1, <1>3 DEF End
    <3>2. [call[p] EXCEPT !.step = "committed", !.wanted = <<>>, !.held = {}] \in Call
      <4>1. "committed" \in Steps /\ <<>> \in Seq(Rows) BY DEF Steps, Ends
      <4>2. QED BY <1>1, <4>1 DEF Call
    <3>3. QED BY <1>1, <3>1, <3>2 DEF OnlyCaller, Call
  <2>6. CallInv(p)'
    BY <2>2, <2>5 DEF CallInv, Shaped, Unused, Calling, Working, Ends
  <2>7. ASSUME NEW q \in Callers \ {p} PROVE CallInv(q)'
    <3> DEFINE S == Rows \ (call[p].held \cup {FreshId[p]})
    <3>1. CallInv(q) /\ call[q] \in Call /\ call[q].held \in SUBSET Rows
      BY DEF LockingInv, Call
    <3>2. Kept(S) BY <2>1, CommitKeeps
    <3>3. FreshId[p] \notin call[q].held
      <4>1. call[q].held # {} => RowsExist(q) BY <3>1 DEF CallInv, Shaped
      <4>2. QED BY <2>2, <4>1 DEF RowsExist, Covered
    <3>4. call[q].held \subseteq S
      BY <3>1, <3>3 DEF LockingInv, OneHolder
    <3>5. Kept(call[q].held)
      <4> HIDE DEF S
      <4>1. QED BY <3>2, <3>4 DEF Kept
    <3>6. call[q].step \notin Ends => status'[FreshId[q]] = status[FreshId[q]]
      <4>1. ASSUME call[q].step \notin Ends PROVE FreshId[q] \in Manifests \cap S
        <5>1. FreshId[q] \in Manifests /\ FreshId[q] # FreshId[p] BY CallSettings
        <5>2. status[FreshId[q]] = "NONE" BY <3>1, <4>1 DEF CallInv, Unused
        <5>3. QED BY <2>2, <5>1, <5>2 DEF Rows
      <4>2. QED BY <3>2, <4>1 DEF Kept
    <3>7. Bystander(q) BY <2>5, <3>5, <3>6 DEF Bystander, OnlyCaller
    <3>8. QED BY <2>3, <2>4, <3>7, BystanderInv
  <2>8. OneHolder'
    BY <2>5 DEF LockingInv, OneHolder, OnlyCaller
  <2>9. QED BY <2>3, <2>4, <2>5, <2>6, <2>7, <2>8 DEF LockingInv, OnlyCaller
<1>4. QED BY <1>2, <1>3 DEF Commit

LEMMA InitLockingInv == Init /\ call = [p \in Callers |-> NoCall] => LockingInv
<1> SUFFICES ASSUME Init, call = [p \in Callers |-> NoCall] PROVE LockingInv
  OBVIOUS
<1>1. NoCall \in Call
  <2>1. NoReads \in Reads BY Settings DEF NoReads, Reads, OrderState
  <2>2. <<>> \in Seq(Rows) /\ "idle" \in Steps /\ 1 \in 1..MaxAttempts
    BY CallSettings DEF Steps
  <2>3. QED BY <2>1, <2>2, WritesTyped DEF NoCall, Call
<1>2. \A p \in Callers : call[p].step = "idle" /\ call[p].held = {} /\ call[p].wanted = <<>>
  BY DEF NoCall
<1>3. ASSUME NEW p \in Callers PROVE CallInv(p)
  <2>1. status[FreshId[p]] = "NONE" BY CallSettings DEF Init
  <2>2. QED BY <1>2, <2>1 DEF CallInv, Shaped, Unused, Calling, Working
<1>4. Keyed BY DEF Init, Keyed
<1>5. OneHolder BY <1>2 DEF OneHolder
<1>6. TypeOK /\ AllocationInv BY InitTypeOK, InitAllocationInv
<1>7. QED BY <1>1, <1>3, <1>4, <1>5, <1>6 DEF LockingInv

\* Every step of a call keeps the invariant and is a transaction of the core, or none.
LEMMA NextLockingInv ==
    ASSUME LockingInv, [LockingNext]_lockingVars
    PROVE  LockingInv' /\ [Next]_vars
<1>1. CASE UNCHANGED lockingVars
  <2>1. UNCHANGED vars /\ call' = call BY <1>1 DEF lockingVars
  <2>2. TypeOK' /\ AllocationInv' /\ Keyed' /\ [Next]_vars
    <3>1. TypeOK /\ AllocationInv /\ Keyed /\ [Next]_vars BY <2>1 DEF LockingInv
    <3>2. QED BY <3>1, NextTypeOK, NextAllocationInv, NextKeyed
  <2>3. ASSUME NEW p \in Callers PROVE CallInv(p)'
    <3>1. Bystander(p)
      BY <2>1 DEF Bystander, Kept, vars, poolVars, setupVars, manifestVars, stopVars
    <3>2. QED BY <2>2, <3>1, BystanderInv
  <2>4. QED BY <2>1, <2>2, <2>3 DEF LockingInv, OneHolder
<1>2. ASSUME NEW p \in Callers,
             Progress(p) \/ Disconnect(p) \/ \E r \in Requests : Begin(p, r)
      PROVE  LockingInv' /\ [Next]_vars
  <2>1. CASE Commit(p) BY <2>1, CommitInv
  <2>2. CASE Read(p) BY <2>2, ReadInv DEF Read
  <2>3. CASE Acquire(p) BY <2>3, AcquireInv DEF Acquire
  <2>4. CASE Advance(p) BY <2>4, AdvanceInv DEF Advance
  <2>5. CASE Decide(p) BY <2>5, DecideInv DEF Decide
  <2>6. CASE TimeOut(p)
    BY <2>6, RetryInv DEF TimeOut, Calling, Working, Locking
  <2>7. CASE Disconnect(p)
    BY <2>7, EndInv DEF Disconnect, Ends
  <2>8. CASE \E r \in Requests : Begin(p, r)
    BY <2>8, BeginInv DEF Begin
  <2>9. QED BY <1>2, <2>1, <2>2, <2>3, <2>4, <2>5, <2>6, <2>7, <2>8 DEF Progress
<1>3. QED BY <1>1, <1>2 DEF LockingNext

LEMMA LockingInvariant == LockingSpec => []LockingInv
<1>1. Init /\ call = [p \in Callers |-> NoCall] => LockingInv BY InitLockingInv
<1>2. LockingInv /\ [LockingNext]_lockingVars => LockingInv' BY NextLockingInv
<1>3. QED BY <1>1, <1>2, PTL DEF LockingSpec

\* Locks are exclusive, held by calls at work only and freed with their answer, and
\* attempts are bounded: withFulfillmentTransaction and the lock helpers.
THEOREM CallsStayOK == LockingSpec => []CallsOK
<1>1. ASSUME LockingInv PROVE CallsOK
  <2>1. ASSUME NEW p \in Callers
        PROVE  /\ call[p].request \in Requests \cup {NoRequest}
               /\ call[p].step \in {"idle", "reading", "locking", "committing"} \cup Ends
               /\ call[p].attempt \in 1..MaxAttempts
               /\ call[p].held \subseteq Rows
               /\ call[p].step \in {"idle", "reading"} \cup Ends => call[p].held = {}
    <3>1. call[p] \in Call /\ Shaped(p) BY <1>1 DEF LockingInv, CallInv
    <3>2. QED BY <3>1 DEF Call, Shaped, Working, Steps, Ends
  <2>2. \A p, q \in Callers : p # q => call[p].held \cap call[q].held = {}
    BY <1>1 DEF LockingInv, OneHolder
  <2>3. QED BY <2>1, <2>2 DEF CallsOK
<1>2. QED BY <1>1, LockingInvariant, PTL

\* Whatever a call read and locked while others committed, its commit is at that
\* instant the transaction FulfillmentDispatch describes.
THEOREM CommitsImplement == LockingSpec => CommitsAreTransactions
<1> DEFINE Transacts ==
             \A p \in Callers :
                call[p].step = "committing" /\ call'[p].step = "committed"
                   => Transaction(call[p], FreshId[p])
<1>1. LockingInv /\ [LockingNext]_lockingVars => [Transacts]_lockingVars
  <2> SUFFICES ASSUME LockingInv, LockingNext, NEW p \in Callers,
                      call[p].step = "committing", call'[p].step = "committed"
               PROVE  Transaction(call[p], FreshId[p])
    OBVIOUS
  <2>1. call \in [Callers -> Call] BY DEF LockingInv
  <2>2. PICK q \in Callers : Progress(q) \/ Disconnect(q) \/ \E r \in Requests : Begin(q, r)
    BY DEF LockingNext
  <2>3. q = p
    BY <2>1, <2>2
    DEF Progress, Read, Acquire, Advance, Decide, Commit, TimeOut, Retry, Disconnect, Begin, End
  <2>4. Commit(p) \/ Disconnect(p)
    BY <2>2, <2>3
    DEF Progress, Read, Acquire, Advance, Decide, TimeOut, Begin, Locking
  <2>5. ~End(p, "refused") BY <2>1 DEF End, Call
  <2>6. Committing(p) BY <2>4, <2>5 DEF Commit, Disconnect, Committing
  <2>7. QED BY <2>6, CommitIsTransaction
<1>2. QED BY <1>1, LockingInvariant, PTL DEF LockingSpec, CommitsAreTransactions

\* Row locks, rechecks and retries make the interleaved calls behave as the atomic
\* transactions of FulfillmentDispatch: the protocol refines it.
THEOREM LockingImplementsDispatch == LockingSpec => Spec
<1>1. LockingInv /\ [LockingNext]_lockingVars => [Next]_vars BY NextLockingInv
<1>2. QED BY <1>1, LockingInvariant, PTL DEF LockingSpec, Spec

\* What is proved of the atomic transactions holds while calls interleave.
THEOREM InterleavedTripsAreSafe ==
    LockingSpec => /\ [](AllocationCoherent /\ DeliveredOnce /\ NoStrandedTrip)
                   /\ []NeverOverloaded /\ []RouteIsCurrent
                   /\ []VehicleDayOwned /\ []OutboxMirrorsTrips
                   /\ ClosedLoadFrozen /\ FinishedOrdersStayFinished
                   /\ FollowsLifecycle /\ TransitionsButOne
  BY LockingImplementsDispatch, AllocationSafety, LoadsFit, RoutesStayCurrent, VehicleDaysOwned,
     OutboxTellsTheTrip, LoadsFreeze, FinishedIsFinal, OrdersFollowLifecycle,
     OnlyDepartureIsSkipped, PTL

----------------------------------------------------------------------------
(* Deadlocks.                                                              *)

\* No other call inserts an order row that p holds.
LEMMA HeldOrdersStand ==
    ASSUME LockingInv, [LockingNext]_lockingVars, NEW p \in Callers, Locking(p), call'[p] = call[p]
    PROVE  \A o \in Orders \cap call[p].held : orderState'[o] = orderState[o]
<1>1. CASE UNCHANGED vars BY <1>1 DEF vars, poolVars
<1>2. CASE ~UNCHANGED vars
  <2>1. PICK q \in Callers : Commit(q) /\ WritesOf(call[q], FreshId[q])
    BY <1>2 DEF LockingNext, lockingVars, Progress, Read, Acquire, Advance, Decide, Commit, TimeOut,
            Disconnect, Begin
  <2>2. q # p /\ Committing(q) BY <2>1 DEF Commit, Locking, Committing
  <2>3. Kept(Rows \ (call[q].held \cup {FreshId[q]})) BY <2>2, CommitKeeps
  <2>4. call[p].held \cap call[q].held = {} /\ FreshId[q] \in Manifests
    BY <2>2, CallSettings DEF LockingInv, OneHolder
  <2>5. \A o \in Orders \cap call[p].held : o \in Rows \ (call[q].held \cup {FreshId[q]})
    BY <2>4, RowsAreApart DEF Rows
  <2>6. QED BY <2>3, <2>5 DEF Kept
<1>3. QED BY <1>1, <1>2

LEMMA NextOrderInv == OrderInv /\ [LockingNext]_lockingVars => OrderInv'
<1> SUFFICES ASSUME OrderInv, [LockingNext]_lockingVars, NEW p \in Callers, Locking(p)'
             PROVE  Ascending(p)'
  BY NextLockingInv DEF OrderInv
<1>1. LockingInv /\ (Locking(p) => Ascending(p)) /\ call \in [Callers -> Call]
  BY DEF OrderInv, LockingInv
<1>2. CASE call'[p] = call[p]
  <2>1. Locking(p) /\ Ascending(p) BY <1>1, <1>2 DEF Locking
  <2>2. \A o \in Orders \cap call[p].held : orderState'[o] = orderState[o]
    BY <1>1, <1>2, <2>1, HeldOrdersStand
  <2>3. Queued(p)' = Queued(p) /\ Covered(p)' = Covered(p)
    BY <1>2 DEF Queued, Covered, RowsOf
  <2>4. QED BY <1>2, <2>1, <2>2, <2>3 DEF Ascending, Op
<1>3. CASE call'[p] # call[p]
  <2>1. PICK q \in Callers : Progress(q) \/ Disconnect(q) \/ \E r \in Requests : Begin(q, r)
    BY <1>3 DEF LockingNext, lockingVars
  <2>2. q = p
    BY <1>1, <1>3, <2>1
    DEF Progress, Read, Acquire, Advance, Decide, Commit, TimeOut, Retry, Disconnect, Begin, End
  <2>3. call'[p].step = "locking" BY DEF Locking
  <2>4. \A end \in Ends : ~End(p, end)
    BY <1>1, <2>3 DEF End, Call, Ends
  <2>5. ~Retry(p)
    <3>1. ASSUME call' = [call EXCEPT ![p].step = "reading", ![p].attempt = @ + 1,
                                      ![p].wanted = <<>>, ![p].held = {}]
          PROVE  FALSE
      BY <1>1, <2>3, <3>1 DEF Call
    <3>2. QED BY <2>4, <3>1 DEF Retry, Ends
  <2>6. ~Decide(p)
    <3>1. ASSUME NEW w, call' = [call EXCEPT ![p].step = "committing", ![p].writes = w]
          PROVE  FALSE
      BY <1>1, <2>3, <3>1 DEF Call
    <3>2. QED BY <2>4, <2>5, <3>1 DEF Decide, Ends
  <2>7. ASSUME NEW r \in Requests PROVE ~Begin(p, r)
    <3>1. ASSUME call' = [call EXCEPT ![p].request = r, ![p].step = "reading"] PROVE FALSE
      BY <1>1, <2>3, <3>1 DEF Call
    <3>2. QED BY <3>1 DEF Begin
  <2>8. Read(p) \/ Acquire(p) \/ Advance(p)
    BY <2>1, <2>2, <2>4, <2>5, <2>6, <2>7 DEF Progress, Commit, TimeOut, Disconnect, Ends
  <2>9. CASE Read(p) BY <1>1, <2>9, ReadInv
  <2>10. CASE Acquire(p)
    BY <1>1, <2>10, AcquireInv DEF Acquire
  <2>11. CASE Advance(p)
    BY <1>1, <2>11, AdvanceInv DEF Advance
  <2>12. QED BY <2>8, <2>9, <2>10, <2>11
<1>4. QED BY <1>2, <1>3

\* Who waits for a row that is not an order is waited for by a call that wants a row
\* below it.
LEMMA WaitsAscend ==
    ASSUME OrderInv, NEW p \in Callers, NEW q \in Callers, NEW h \in Callers,
           Waits(p, h), Waits(q, p), Head(call[p].wanted) \notin Orders
    PROVE  /\ Below(Head(call[q].wanted), Head(call[p].wanted))
           /\ Head(call[q].wanted) \in Rows \ Orders /\ Head(call[p].wanted) \in Rows \ Orders
<1> DEFINE x == Head(call[q].wanted)
           y == Head(call[p].wanted)
<1>1. /\ Locking(p) /\ call[p].wanted # <<>> /\ call[p].wanted \in Seq(Rows)
      /\ Locking(q) /\ call[q].wanted # <<>> /\ call[q].wanted \in Seq(Rows)
      /\ q # p /\ x \in call[p].held /\ Ascending(p) /\ RowsExist(q)
      /\ call[p].held \cap call[q].held = {}
  BY DEF OrderInv, LockingInv, Waits, Call, CallInv, Working, Locking, OneHolder
<1>2. /\ x \in Rows /\ x \in Queued(q) /\ y \in Rows /\ y \in Queued(p)
  BY <1>1, QueueSplits DEF Queued
<1>3. x \in Orders => orderState[x] # "NONE" BY <1>1, <1>2 DEF RowsExist
<1>4. Below(x, y) BY <1>1, <1>2, <1>3 DEF Ascending
<1>5. x \notin Orders
  <2>1. Level(y) \in 1..4 /\ Level(x) \in 1..4 BY <1>2, Levels
  <2>2. x \in Orders => Level(x) = 4 /\ x \notin Corridors BY Levels, RowsAreApart
  <2>3. QED BY <1>4, <2>1, <2>2 DEF Below
<1>6. QED BY <1>2, <1>4, <1>5

\* The lock helpers take corridors before manifests before vehicles before orders, and
\* corridors by id: a cycle of waiting calls goes through order rows only.
THEOREM DeadlocksAreAmongOrders == LockingSpec => []OnlyOrdersDeadlock
<1>1. ASSUME OrderInv PROVE OnlyOrdersDeadlock
  <2> SUFFICES ASSUME NEW D \in SUBSET Callers,
                      \A p \in D : (\E q \in D : Waits(p, q)) /\ (\E q \in D : Waits(q, p)),
                      NEW a \in D, Head(call[a].wanted) \notin Orders
               PROVE  FALSE
    BY DEF OnlyOrdersDeadlock
  <2> DEFINE Wanted(p) == Head(call[p].wanted)
             N == {p \in D : Wanted(p) \notin Orders}
             T == {Id[Wanted(p)] : p \in {q \in N : Wanted(q) \in Corridors}}
  <2>1. ASSUME NEW p \in N
        PROVE  \E q \in N : Below(Wanted(q), Wanted(p)) /\ Wanted(q) \in Rows /\ Wanted(p) \in Rows \ Orders
    <3>1. PICK h \in D, q \in D : Waits(p, h) /\ Waits(q, p) OBVIOUS
    <3>2. Wanted(p) \notin Orders OBVIOUS
    <3>3. Below(Wanted(q), Wanted(p)) /\ Wanted(q) \in Rows \ Orders /\ Wanted(p) \in Rows \ Orders
      BY <1>1, <3>1, <3>2, WaitsAscend
    <3>4. QED BY <3>3
  <2> HIDE DEF Wanted
  <2>2. ASSUME NEW p \in N
        PROVE  \E q \in N : \/ Level(Wanted(q)) < Level(Wanted(p))
                            \/ Wanted(q) \in Corridors
    <3>1. PICK q \in N :
             Below(Wanted(q), Wanted(p)) /\ Wanted(q) \in Rows /\ Wanted(p) \in Rows \ Orders
      BY <2>1
    <3>2. QED BY <3>1 DEF Below
  <2>3. T # {}
    <3>1. \A p \in N : Wanted(p) \in Rows /\ Level(Wanted(p)) \in 1..4
      <4>1. \A p \in N : Wanted(p) \in Rows BY <2>1
      <4>2. QED BY <4>1, Levels
    <3>2. \A p \in N : Level(Wanted(p)) = 1 => Wanted(p) \in Corridors
      BY <3>1 DEF Level
    <3>3. ASSUME \A p \in N : Wanted(p) \notin Corridors PROVE FALSE
      <4>1. \A p \in N : \E q \in N : Level(Wanted(q)) < Level(Wanted(p)) BY <2>2, <3>3
      <4>2. \A p \in N : Level(Wanted(p)) \in 2..4 BY <3>1, <3>2, <3>3
      <4>3. \A p \in N : Level(Wanted(p)) # 2 BY <4>1, <4>2
      <4>4. \A p \in N : Level(Wanted(p)) # 3 BY <4>1, <4>2, <4>3
      <4>5. \A p \in N : Level(Wanted(p)) # 4 BY <4>1, <4>2, <4>3, <4>4
      <4>6. a \in N BY DEF Wanted
      <4>7. QED BY <4>2, <4>3, <4>4, <4>5, <4>6
    <3>4. QED BY <3>3
  <2>4. T \in SUBSET Nat BY CallSettings
  <2>5. PICK t \in T : \A u \in T : ~(u < t)
    <3> HIDE DEF T
    <3>1. QED BY <2>3, <2>4, LeastExists
  <2>6. PICK p \in N : Wanted(p) \in Corridors /\ t = Id[Wanted(p)] OBVIOUS
  <2>7. PICK q \in N : Below(Wanted(q), Wanted(p)) /\ Wanted(q) \in Rows BY <2>1
  <2>8. Wanted(q) \in Corridors /\ Id[Wanted(q)] < Id[Wanted(p)]
    <3>1. Level(Wanted(p)) = 1 /\ Level(Wanted(q)) \in 1..4 BY <2>6, <2>7, Levels
    <3>2. Wanted(p) \notin Orders OBVIOUS
    <3>3. QED BY <2>7, <3>1, <3>2 DEF Below
  <2>9. Id[Wanted(q)] \in T BY <2>8
  <2>10. QED BY <2>5, <2>6, <2>8, <2>9
<1>2. Init /\ call = [p \in Callers |-> NoCall] => OrderInv
  BY InitLockingInv DEF OrderInv, Locking, NoCall
<1>3. OrderInv /\ [LockingNext]_lockingVars => OrderInv' BY NextOrderInv
<1>4. QED BY <1>1, <1>2, <1>3, PTL DEF LockingSpec

----------------------------------------------------------------------------
(* Calls come to an end.                                                   *)

\* How far a call has come in its attempt.
Phase(k) ==
    CASE k.step = "idle" -> 0
      [] k.step = "reading" -> 1
      [] k.step = "locking" -> 1 + k.stage
      [] k.step = "committing" -> 5
      [] k.step \in Ends -> 6

\* An attempt more, or a phase further, or a row nearer to the end of its queue:
\* attempts, phases and rows are bounded, so that a call takes finitely many steps.
Advances(old, new) ==
    \/ old.attempt < new.attempt /\ new.attempt <= MaxAttempts
    \/ /\ new.attempt = old.attempt
       /\ \/ Phase(old) < Phase(new)
          \/ Phase(new) = Phase(old) /\ Len(new.wanted) < Len(old.wanted)

\* No call goes round in circles, whatever it conflicts with: only a retry takes it
\* back, and it counts.
CallsAdvance == [][\A p \in Callers : call'[p] # call[p] => Advances(call[p], call'[p])]_lockingVars

\* Bounded attempts, stages and row queues: every step of withFulfillmentTransaction
\* brings its call nearer to an answer.
THEOREM EveryStepAdvances == LockingSpec => CallsAdvance
<1> DEFINE Advance1 == \A p \in Callers : call'[p] # call[p] => Advances(call[p], call'[p])
<1>1. LockingInv /\ [LockingNext]_lockingVars => [Advance1]_lockingVars
  <2> SUFFICES ASSUME LockingInv, LockingNext, NEW p \in Callers, call'[p] # call[p]
               PROVE  Advances(call[p], call'[p])
    OBVIOUS
  <2>1. /\ call \in [Callers -> Call] /\ call[p] \in Call /\ Shaped(p)
        /\ call[p].attempt \in 1..MaxAttempts /\ call[p].stage \in 1..3
        /\ MaxAttempts \in Nat
    BY CallSettings DEF LockingInv, Call, CallInv
  <2>2. PICK q \in Callers : Progress(q) \/ Disconnect(q) \/ \E r \in Requests : Begin(q, r)
    BY DEF LockingNext
  <2>3. q = p
    BY <2>1, <2>2
    DEF Progress, Read, Acquire, Advance, Decide, Commit, TimeOut, Retry, Disconnect, Begin, End
  <2>4. ASSUME NEW end \in Ends, End(p, end), call[p].step \notin Ends
        PROVE  Advances(call[p], call'[p])
    <3>1. call'[p].step = end /\ call'[p].attempt = call[p].attempt BY <2>1, <2>4 DEF End, Call
    <3>2. Phase(call'[p]) = 6 BY <3>1 DEF Phase, Ends
    <3>3. Phase(call[p]) < 6 BY <2>1, <2>4 DEF Phase, Call, Steps
    <3>4. QED BY <3>1, <3>2, <3>3 DEF Advances
  <2>5. ASSUME Retry(p), call[p].step \notin Ends PROVE Advances(call[p], call'[p])
    <3>1. CASE call[p].attempt < MaxAttempts
      <4>1. call'[p].attempt = call[p].attempt + 1 BY <2>1, <2>5, <3>1 DEF Retry, Call
      <4>2. QED BY <2>1, <3>1, <4>1 DEF Advances
    <3>2. CASE ~(call[p].attempt < MaxAttempts)
      BY <2>4, <2>5, <3>2 DEF Retry, Ends
    <3>3. QED BY <3>1, <3>2
  <2>6. ASSUME NEW r \in Requests, Begin(p, r) PROVE Advances(call[p], call'[p])
    <3>1. call'[p].step = "reading" /\ call'[p].attempt = call[p].attempt /\ call[p].step = "idle"
      BY <2>1, <2>6 DEF Begin, Call
    <3>2. Phase(call[p]) = 0 /\ Phase(call'[p]) = 1 BY <3>1 DEF Phase, Ends
    <3>3. QED BY <3>1, <3>2 DEF Advances
  <2>7. CASE Read(p)
    <3>1. /\ call'[p].step = "locking" /\ call'[p].stage = 1
          /\ call'[p].attempt = call[p].attempt /\ call[p].step = "reading"
      BY <2>1, <2>7 DEF Read, Call
    <3>2. Phase(call[p]) = 1 /\ Phase(call'[p]) = 2 BY <3>1 DEF Phase, Ends
    <3>3. QED BY <3>1, <3>2 DEF Advances
  <2>8. CASE Acquire(p)
    <3>1. /\ call'[p].step = "locking" /\ call[p].step = "locking"
          /\ call'[p].stage = call[p].stage /\ call'[p].attempt = call[p].attempt
          /\ call'[p].wanted = Tail(call[p].wanted)
          /\ call[p].wanted # <<>> /\ call[p].wanted \in Seq(Rows)
      BY <2>1, <2>8 DEF Acquire, Locking, Call
    <3>2. Phase(call'[p]) = Phase(call[p]) BY <3>1 DEF Phase, Ends
    <3>3. Len(call'[p].wanted) < Len(call[p].wanted)
      BY <3>1, HeadTailProperties, LenProperties, EmptySeq
    <3>4. QED BY <3>1, <3>2, <3>3 DEF Advances
  <2>9. CASE Advance(p)
    <3>1. CASE End(p, "refused") BY <2>4, <2>9, <3>1 DEF Advance, Locking, Ends
    <3>2. ASSUME NEW s, call' = [call EXCEPT ![p].stage = @ + 1, ![p].wanted = s]
          PROVE  Advances(call[p], call'[p])
      <4>1. /\ call'[p].step = "locking" /\ call[p].step = "locking"
            /\ call'[p].stage = call[p].stage + 1 /\ call'[p].attempt = call[p].attempt
        BY <2>1, <2>9, <3>2 DEF Advance, Locking, Call
      <4>2. Phase(call[p]) = 1 + call[p].stage /\ Phase(call'[p]) = 2 + call[p].stage
        BY <2>1, <4>1 DEF Phase, Ends
      <4>3. QED BY <2>1, <4>1, <4>2 DEF Advances
    <3>3. QED BY <2>9, <3>1, <3>2 DEF Advance
  <2>10. CASE Decide(p)
    <3>1. call[p].step = "locking" BY <2>10 DEF Decide, Locking
    <3>2. CASE End(p, "refused") BY <2>4, <3>1, <3>2 DEF Ends
    <3>3. CASE Retry(p) BY <2>5, <3>1, <3>3 DEF Ends
    <3>4. ASSUME NEW w, call' = [call EXCEPT ![p].step = "committing", ![p].writes = w]
          PROVE  Advances(call[p], call'[p])
      <4>1. call'[p].step = "committing" /\ call'[p].attempt = call[p].attempt
        BY <2>1, <3>4 DEF Call
      <4>2. Phase(call'[p]) = 5 /\ Phase(call[p]) = 1 + call[p].stage BY <3>1, <4>1 DEF Phase, Ends
      <4>3. QED BY <2>1, <4>1, <4>2 DEF Advances
    <3>5. QED BY <2>10, <3>2, <3>3, <3>4 DEF Decide
  <2>11. CASE Commit(p) BY <2>4, <2>11 DEF Commit, Ends
  <2>12. CASE TimeOut(p) BY <2>5, <2>12 DEF TimeOut, Locking, Ends
  <2>13. CASE Disconnect(p) BY <2>4, <2>13 DEF Disconnect, Ends
  <2>14. QED
    BY <2>2, <2>3, <2>6, <2>7, <2>8, <2>9, <2>10, <2>11, <2>12, <2>13 DEF Progress
<1>2. QED BY <1>1, LockingInvariant, PTL DEF LockingSpec, CallsAdvance
=============================================================================
