----------------------- MODULE FulfillmentTripProofs -----------------------
(***************************************************************************)
(* What a trip relies on, proved from the allocation invariant: it is not  *)
(* overloaded, what was closed stays aboard, loaded orders keep their      *)
(* route, its vehicle's day is its own, and the outbox tells its story.    *)
(***************************************************************************)
EXTENDS FulfillmentDispatchProofs, Sequences

----------------------------------------------------------------------------
(* The walk.                                                               *)

\* A finite set that is not empty has an element of the greatest rank.  The elements
\* that outrank each one form finite sets, and one of these has no other strictly inside.
LEMMA GreatestExists ==
    ASSUME NEW S, IsFiniteSet(S), S # {}, NEW rank, \A x \in S : rank[x] \in Nat
    PROVE  \E y \in S : \A x \in S : rank[x] <= rank[y]
<1> DEFINE Above(x) == {z \in S : rank[x] < rank[z]}
           Families == {Above(x) : x \in S}
<1>1. Families \subseteq FiniteSubsetsOf(S) /\ Families # {}
  <2>1. \A x \in S : Above(x) \in SUBSET S OBVIOUS
  <2>2. \A x \in S : IsFiniteSet(Above(x)) BY <2>1, FS_Subset
  <2>3. QED BY <2>1, <2>2 DEF FiniteSubsetsOf
<1>2. \E F \in Families : \A G \in Families : <<G, F>> \notin StrictSubsetOrdering(S)
  <2> HIDE DEF Families
  <2>1. QED BY <1>1, FS_StrictSubsetOrderingWellFounded, WFMin
<1>3. PICK y \in S : \A x \in S : <<Above(x), Above(y)>> \notin StrictSubsetOrdering(S)
  BY <1>2
<1>4. ASSUME NEW x \in S, rank[y] < rank[x] PROVE FALSE
  <2>1. rank[y] \in Nat /\ \A z \in S : rank[z] \in Nat OBVIOUS
  <2>2. Above(x) \subseteq Above(y) BY <1>4, <2>1
  <2>3. x \in Above(y) /\ x \notin Above(x) BY <1>4, <2>1
  <2>4. <<Above(x), Above(y)>> \in StrictSubsetOrdering(S)
    BY <2>2, <2>3 DEF StrictSubsetOrdering
  <2>5. QED BY <1>3, <2>4
<1>5. QED BY <1>4

\* A set of numbers that is not empty has a least one.
LEMMA LeastExists ==
    ASSUME NEW T \in SUBSET Nat, T # {}
    PROVE  \E t \in T : \A u \in T : ~(u < t)
<1> DEFINE Under(t) == 1..t
           Families == {Under(t) : t \in T}
<1>1. Families \subseteq FiniteSubsetsOf(Nat) /\ Families # {}
  <2>1. \A t \in T : Under(t) \in SUBSET Nat /\ IsFiniteSet(Under(t)) BY FS_Interval
  <2>2. QED BY <2>1 DEF FiniteSubsetsOf
<1>2. \E F \in Families : \A G \in Families : <<G, F>> \notin StrictSubsetOrdering(Nat)
  <2> HIDE DEF Families
  <2>1. QED BY <1>1, FS_StrictSubsetOrderingWellFounded, WFMin
<1>3. PICK t \in T : \A u \in T : <<Under(u), Under(t)>> \notin StrictSubsetOrdering(Nat)
  BY <1>2
<1>4. ASSUME NEW u \in T, u < t PROVE FALSE
  <2>1. Under(u) \subseteq Under(t) /\ t \in Under(t) /\ t \notin Under(u) BY <1>4
  <2>2. Under(u) \in SUBSET Nat /\ Under(t) \in SUBSET Nat OBVIOUS
  <2> HIDE DEF Under
  <2>3. <<Under(u), Under(t)>> \in StrictSubsetOrdering(Nat)
    BY <2>1, <2>2 DEF StrictSubsetOrdering
  <2>4. QED BY <1>3, <2>3
<1>5. QED BY <1>4

\* allocateAutomatically's walk never takes more than its limit: its youngest order
\* was weighed together with all the others.
LEMMA WalkFits ==
    ASSUME NEW C \in SUBSET Orders, NEW S \in SUBSET Orders, NEW limit \in Nat,
           S # {}, IsWalk(S, C, limit)
    PROVE  Load(S) <= limit
<1>1. PICK y \in S : \A p \in S : Age[p] <= Age[y]
  <2>1. IsFiniteSet(S) BY FS_Subset, DomainsAreFinite
  <2>2. \A x \in S : Age[x] \in Nat BY OrderAttributes
  <2>3. QED BY <2>1, <2>2, GreatestExists
<1>2. {p \in S : Age[p] < Age[y]} \cup {y} = S
  <2>1. ASSUME NEW p \in S, p # y PROVE Age[p] < Age[y]
    BY <1>1, <2>1, OrderAttributes
  <2>2. QED BY <2>1
<1>3. y \in C /\ Load({p \in S : Age[p] < Age[y]} \cup {y}) <= limit BY DEF IsWalk
<1>4. QED BY <1>2, <1>3

LEMMA OldestExists ==
    ASSUME NEW S \in SUBSET Orders, S # {}
    PROVE  \E y \in S : \A x \in S : Age[y] <= Age[x]
<1> DEFINE Ages == {Age[x] : x \in S}
<1>1. Ages \in SUBSET Nat /\ Ages # {} BY OrderAttributes
<1>2. PICK n \in Ages : \A k \in Ages : ~(k < n)
  <2> HIDE DEF Ages
  <2>1. QED BY <1>1, LeastExists
<1>3. PICK y \in S : n = Age[y] BY <1>2
<1>4. ASSUME NEW x \in S PROVE Age[y] <= Age[x]
  <2>1. Age[x] \in Ages /\ Age[x] \in Nat /\ Age[y] \in Nat BY OrderAttributes
  <2> HIDE DEF Ages
  <2>2. QED BY <1>2, <1>3, <2>1
<1>5. QED BY <1>4

\* Two walks over the same candidates cannot part at any order: at the oldest one
\* they would part at, both have taken the same orders before.
LEMMA WalksAgree ==
    ASSUME NEW C \in SUBSET Orders, NEW limit \in Nat,
           NEW S, IsWalk(S, C, limit), NEW T, IsWalk(T, C, limit)
    PROVE  S = T
<1> DEFINE Parted == (S \ T) \cup (T \ S)
<1> SUFFICES ASSUME Parted # {} PROVE FALSE OBVIOUS
<1>1. S \subseteq C /\ T \subseteq C BY DEF IsWalk
<1>2. PICK y \in Parted : \A x \in Parted : Age[y] <= Age[x]
  <2>1. Parted \in SUBSET Orders BY <1>1
  <2> HIDE DEF Parted
  <2>2. QED BY <2>1, OldestExists
<1>3. y \in C /\ \A p \in C : Age[p] \in Nat BY <1>1, OrderAttributes
<1>4. \A p \in C : Age[p] < Age[y] => p \notin Parted BY <1>2, <1>3
<1>5. {p \in S : Age[p] < Age[y]} = {p \in T : Age[p] < Age[y]} BY <1>1, <1>4
<1>6. y \in S <=> y \in T BY <1>3, <1>5 DEF IsWalk
<1>7. QED BY <1>2, <1>6

\* A walk goes on to a younger order.
LEMMA WalkGoesOn ==
    ASSUME NEW C \in SUBSET Orders, NEW y \in C, \A p \in C : Age[p] <= Age[y],
           NEW limit \in Nat, NEW S, IsWalk(S, C \ {y}, limit)
    PROVE  \E T \in SUBSET C : IsWalk(T, C, limit)
<1> DEFINE T == IF Load(S \cup {y}) <= limit THEN S \cup {y} ELSE S
<1>1. S \subseteq C \ {y} BY DEF IsWalk
<1>2. /\ \A p \in C : Age[p] \in Nat
      /\ \A p \in C \ {y} : Age[p] < Age[y] /\ ~(Age[y] < Age[p])
  BY OrderAttributes
<1>3. T \in SUBSET C BY <1>1
<1>4. ASSUME NEW o \in C \ {y}
      PROVE  o \in T <=> Load({p \in T : Age[p] < Age[o]} \cup {o}) <= limit
  <2>1. {p \in T : Age[p] < Age[o]} = {p \in S : Age[p] < Age[o]} BY <1>1, <1>2
  <2>2. o \in T <=> o \in S OBVIOUS
  <2> HIDE DEF T
  <2>3. QED BY <2>1, <2>2 DEF IsWalk
<1>5. y \in T <=> Load({p \in T : Age[p] < Age[y]} \cup {y}) <= limit
  <2>1. {p \in T : Age[p] < Age[y]} = S BY <1>1, <1>2
  <2>2. y \in T <=> Load(S \cup {y}) <= limit BY <1>1
  <2> HIDE DEF T
  <2>3. QED BY <2>1, <2>2
<1>6. QED
  <2> HIDE DEF T
  <2>1. IsWalk(T, C, limit) BY <1>3, <1>4, <1>5 DEF IsWalk
  <2>2. QED BY <1>3, <2>1

\* A smallest set of candidates without a walk would lose its youngest order and
\* have none either.
LEMMA WalkExists ==
    ASSUME NEW C \in SUBSET Orders, NEW limit \in Nat
    PROVE  \E S \in SUBSET C : IsWalk(S, C, limit)
<1> DEFINE Walked(D) == \E S \in SUBSET D : IsWalk(S, D, limit)
           Unwalked == {D \in SUBSET C : ~Walked(D)}
<1> SUFFICES ASSUME Unwalked # {} PROVE FALSE OBVIOUS
<1>1. IsFiniteSet(C) BY FS_Subset, DomainsAreFinite
<1>2. Unwalked \subseteq FiniteSubsetsOf(C) BY <1>1, FS_Subset DEF FiniteSubsetsOf
<1>3. PICK D \in Unwalked : \A F \in Unwalked : <<F, D>> \notin StrictSubsetOrdering(C)
  <2> HIDE DEF Unwalked
  <2>1. QED BY <1>2, FS_StrictSubsetOrderingWellFounded, WFMin
<1>4. D # {}
  <2>1. IsWalk({}, {}, limit) BY DEF IsWalk
  <2>2. QED BY <1>3, <2>1
<1>5. PICK y \in D : \A x \in D : Age[x] <= Age[y]
  <2>1. IsFiniteSet(D) /\ D \subseteq Orders BY <1>1, <1>3, FS_Subset
  <2>2. \A x \in D : Age[x] \in Nat BY <2>1, OrderAttributes
  <2>3. QED BY <1>4, <2>1, <2>2, GreatestExists
<1>6. <<D \ {y}, D>> \in StrictSubsetOrdering(C) BY <1>3, <1>5 DEF StrictSubsetOrdering
<1>7. D \ {y} \notin Unwalked
  <2> HIDE DEF Unwalked
  <2>1. QED BY <1>3, <1>6
<1>8. Walked(D \ {y}) BY <1>3, <1>7
<1>9. Walked(D) BY <1>3, <1>5, <1>8, WalkGoesOn
<1>10. QED BY <1>3, <1>9

\* allocateAutomatically is a function of the candidates and the capacity: there is
\* exactly one selection it can make, for any candidates.
THEOREM WalkIsDetermined ==
    ASSUME NEW C \in SUBSET Orders, NEW limit \in Nat
    PROVE  \E S \in SUBSET C : /\ IsWalk(S, C, limit)
                               /\ \A T : IsWalk(T, C, limit) => T = S
<1>1. PICK S \in SUBSET C : IsWalk(S, C, limit) BY WalkExists
<1>2. \A T : IsWalk(T, C, limit) => T = S BY <1>1, WalksAgree
<1>3. QED BY <1>1, <1>2

\* createManifest answers nothing_to_allocate, "No pooled order fits this vehicle",
\* exactly when no candidate fits the vehicle alone: skipping never empties a load.
THEOREM NothingToAllocate ==
    ASSUME NEW C \in SUBSET Orders, NEW limit \in Nat, NEW S, IsWalk(S, C, limit)
    PROVE  S = {} <=> \A o \in C : Load({o}) > limit
<1>1. S \subseteq C BY DEF IsWalk
<1>2. ASSUME S = {}, NEW o \in C PROVE Load({o}) > limit
  <2>1. {p \in S : Age[p] < Age[o]} \cup {o} = {o} BY <1>2
  <2>2. ~(Load({o}) <= limit) BY <1>2, <2>1 DEF IsWalk
  <2>3. Load({o}) \in Nat BY LoadIsNat
  <2>4. QED BY <2>2, <2>3
<1>3. ASSUME NEW o \in S PROVE ~(Load({o}) > limit)
  <2> DEFINE U == {p \in S : Age[p] < Age[o]} \cup {o}
  <2>1. Load(U) <= limit BY <1>1 DEF IsWalk
  <2>2. U \in SUBSET Orders /\ {o} \in SUBSET U BY <1>1
  <2> HIDE DEF U
  <2>3. Load({o}) <= Load(U) BY <2>2, LoadIsMonotone
  <2>4. Load({o}) \in Nat /\ Load(U) \in Nat BY <2>2, LoadIsNat
  <2>5. QED BY <2>1, <2>3, <2>4
<1>4. QED BY <1>1, <1>2, <1>3

\* An order keeps its turn: orders confirmed after all of the others change nothing of
\* what the walk selects among those.
THEOREM YoungerDoNotDisplace ==
    ASSUME NEW D \in SUBSET Orders, NEW C \in SUBSET D, NEW limit \in Nat,
           \A o \in C, d \in D \ C : Age[o] < Age[d],
           NEW S, IsWalk(S, C, limit), NEW T, IsWalk(T, D, limit)
    PROVE  S = T \cap C
<1>1. T \subseteq D BY DEF IsWalk
<1>2. ASSUME NEW o \in C
      PROVE  o \in T \cap C <=> Load({p \in T \cap C : Age[p] < Age[o]} \cup {o}) <= limit
  <2>1. \A p \in D \ C : ~(Age[p] < Age[o]) BY OrderAttributes
  <2>2. {p \in T \cap C : Age[p] < Age[o]} = {p \in T : Age[p] < Age[o]} BY <1>1, <2>1
  <2>3. QED BY <2>2 DEF IsWalk
<1>3. IsWalk(T \cap C, C, limit) BY <1>2 DEF IsWalk
<1>4. QED BY <1>3, WalksAgree

----------------------------------------------------------------------------
(* What a step may do to trips.                                            *)

\* Nothing a trip, a stop or the outbox says changes.
Quiet == UNCHANGED <<manifestVars, stopVars, outbox>>

\* m is created for corridor c and vehicle v, with orders that fit.
Opened(m, c, v, planned, S) ==
    /\ OpenManifest(m, c, v, S, planned)
    /\ \A o \in S : Eligible(o, c)
    /\ Load(S) <= capacity[v]

TakenOff(m, o) == CancelAllocatedOrder(m, o) \/ RemoveOrder(m, o)

LEMMA StepCases ==
    ASSUME TypeOK, [Next]_vars
    PROVE  \/ Quiet
           \/ \E m \in Manifests :
                 \/ \E c \in Corridors, v \in Vehicles, planned \in 0..MaxDay,
                       S \in SUBSET Orders : Opened(m, c, v, planned, S)
                 \/ \E o \in Orders : TakenOff(m, o)
                 \/ CloseManifest(m) \/ DepartManifest(m) \/ CancelManifest(m)
                 \/ \E o \in Orders, outcome \in DeliveryOutcome : RecordDelivery(m, o, outcome)
<1>1. CASE UNCHANGED vars BY <1>1 DEF vars, Quiet
<1>2. CASE PoolStep
  BY <1>2 DEF PoolStep, IntakeOrder, CancelPooledOrder, OrphanOrder, SetState, ResolveCorridor,
     RecordResolution, Quiet, TakenOff
<1>3. CASE SetupStep
  BY <1>3 DEF SetupStep, UpdateGeometry, SetGeometry, UpdateCorridor, CaptureLocation,
     UpdateVehicle, Quiet
<1>4. CASE ManifestStep
  <2>1. ASSUME NEW m \in Manifests, NEW c \in Corridors, NEW v \in Vehicles,
               NEW planned \in 0..MaxDay, CreateAutomatically(m, c, v, planned)
        PROVE  \E S \in SUBSET Orders : Opened(m, c, v, planned, S)
    <3> DEFINE Candidates == {o \in Orders : Eligible(o, c)}
    <3>1. PICK S \in SUBSET Candidates :
                IsWalk(S, Candidates, capacity[v]) /\ OpenManifest(m, c, v, S, planned)
      BY <2>1 DEF CreateAutomatically
    <3>2. S # {} BY <3>1 DEF OpenManifest
    <3>3. capacity[v] \in Nat
      <4>1. capacity[v] \in Capacities BY DEF TypeOK
      <4>2. QED BY <4>1, Settings
    <3>4. Load(S) <= capacity[v]
      <4>1. Candidates \in SUBSET Orders /\ S \in SUBSET Orders OBVIOUS
      <4> HIDE DEF Candidates
      <4>2. QED BY <3>1, <3>2, <3>3, <4>1, WalkFits
    <3>5. QED BY <3>1, <3>4 DEF Opened
  <2>2. ASSUME NEW m \in Manifests, NEW c \in Corridors, NEW v \in Vehicles,
               NEW planned \in 0..MaxDay, NEW S \in SUBSET Orders,
               CreateExplicitly(m, c, v, S, planned)
        PROVE  Opened(m, c, v, planned, S)
    BY <2>2 DEF CreateExplicitly, Opened
  <2>3. QED BY <1>4, <2>1, <2>2 DEF ManifestStep, TakenOff
<1>5. CASE DeliveryStep BY <1>5 DEF DeliveryStep
<1>6. CASE EnvironmentStep
  BY <1>6 DEF EnvironmentStep, NextDay, LoseInvoice, Quiet
<1>7. QED BY <1>1, <1>2, <1>3, <1>4, <1>5, <1>6 DEF Next

----------------------------------------------------------------------------
(* Capacity.                                                               *)

Loaded(m) ==
    /\ status[m] = "OPEN" => total[m] = Load(Aboard(m))
    /\ Load(Aboard(m)) <= total[m]
    /\ total[m] <= manifest[m].capacity

\* A trip that is not opened and keeps its total can only get lighter.
LEMMA LoadedLighter ==
    ASSUME TypeOK, NEW m \in Manifests, Loaded(m),
           Aboard(m)' \subseteq Aboard(m), total'[m] = total[m], manifest'[m] = manifest[m],
           status'[m] = "OPEN" => status[m] = "OPEN" /\ Aboard(m)' = Aboard(m)
    PROVE  Loaded(m)'
<1>1. Aboard(m) \in SUBSET Orders /\ Aboard(m)' \in SUBSET Aboard(m) BY DEF Aboard
<1>2. Load(Aboard(m))' = Load(Aboard(m)') BY DEF Load
<1>3. Load(Aboard(m)') <= Load(Aboard(m)) BY <1>1, LoadIsMonotone
<1>4. Load(Aboard(m)') \in Nat /\ Load(Aboard(m)) \in Nat BY <1>1, LoadIsNat
<1>5. total[m] \in Nat BY DEF TypeOK
<1>6. QED BY <1>2, <1>3, <1>4, <1>5 DEF Loaded

LEMMA InitLoaded == Init => NeverOverloaded
<1> SUFFICES ASSUME Init, NEW m \in Manifests PROVE Loaded(m)
  BY DEF NeverOverloaded, Loaded
<1>1. Aboard(m) = {} BY DEF Init, Aboard
<1>2. {g \in {} \X (1..MaxWeight) : g[2] <= Weight[g[1]]} = {} OBVIOUS
<1>3. Load(Aboard(m)) = 0 BY <1>1, <1>2, FS_EmptySet DEF Load
<1>4. QED BY <1>3 DEF Init, Loaded, NoHeader

LEMMA NextLoaded ==
    ASSUME TypeOK, TypeOK', AllocationInv, NeverOverloaded, [Next]_vars
    PROVE  NeverOverloaded'
<1> SUFFICES ASSUME NEW n \in Manifests PROVE Loaded(n)'
  BY DEF NeverOverloaded, Loaded
<1>0. Loaded(n) BY DEF NeverOverloaded, Loaded
<1>1. CASE Quiet
  BY <1>0, <1>1, LoadedLighter DEF Quiet, manifestVars, stopVars, Aboard
<1>2. ASSUME NEW m \in Manifests, NEW c \in Corridors, NEW v \in Vehicles,
             NEW planned \in 0..MaxDay, NEW S \in SUBSET Orders, Opened(m, c, v, planned, S)
      PROVE  Loaded(n)'
  <2>1. \A k \in Manifests, p \in Orders :
           <<k, p>> \in allocated' <=> <<k, p>> \in allocated \/ (k = m /\ p \in S)
    BY <1>2 DEF Opened, OpenManifest, Open, TypeOK
  <2>2. CASE n # m
    <3>1. Aboard(n)' = Aboard(n) BY <2>1, <2>2 DEF Aboard
    <3>2. total'[n] = total[n] /\ manifest'[n] = manifest[n] /\ status'[n] = status[n]
      BY <1>2, <2>2 DEF Opened, OpenManifest, Open, TypeOK
    <3>3. QED BY <1>0, <3>1, <3>2, LoadedLighter
  <2>3. CASE n = m
    <3>1. Aboard(m)' = S
      <4>1. \A p \in Orders : <<m, p>> \notin allocated
        BY <1>2 DEF Opened, OpenManifest, AllocationInv, StopRows
      <4>2. QED BY <2>1, <4>1 DEF Aboard
    <3>2. Load(Aboard(m))' = Load(S) BY <3>1 DEF Load
    <3>3. total'[m] = Load(S) /\ manifest'[m].capacity = capacity[v]
      BY <1>2 DEF Opened, OpenManifest, Open, HeaderOf, TypeOK
    <3>4. Load(S) \in Nat BY LoadIsNat
    <3>5. Load(S) <= capacity[v] BY <1>2 DEF Opened
    <3>6. QED BY <2>3, <3>2, <3>3, <3>4, <3>5 DEF Loaded
  <2>4. QED BY <2>2, <2>3
<1>3. ASSUME NEW m \in Manifests, NEW o \in Orders, TakenOff(m, o)
      PROVE  Loaded(n)'
  <2>1. /\ allocated' = allocated \ {<<m, o>>}
        /\ total' = [total EXCEPT ![m] = Load(Aboard(m) \ {o})]
        /\ UNCHANGED <<status, manifest>>
    BY <1>3 DEF TakenOff, CancelAllocatedOrder, RemoveOrder, Unload, ReleaseStop
  <2>2. CASE n # m
    <3>1. Aboard(n)' = Aboard(n) BY <2>1, <2>2 DEF Aboard
    <3>2. total'[n] = total[n] BY <2>1, <2>2 DEF TypeOK
    <3>3. QED BY <1>0, <2>1, <3>1, <3>2, LoadedLighter
  <2>3. CASE n = m
    <3>1. Aboard(m)' = Aboard(m) \ {o} BY <2>1 DEF Aboard
    <3>2. Load(Aboard(m))' = Load(Aboard(m) \ {o}) BY <3>1 DEF Load
    <3>3. total'[m] = Load(Aboard(m) \ {o}) BY <2>1 DEF TypeOK
    <3>4. Aboard(m) \in SUBSET Orders /\ Aboard(m) \ {o} \in SUBSET Aboard(m) BY DEF Aboard
    <3>5. Load(Aboard(m) \ {o}) <= Load(Aboard(m)) BY <3>4, LoadIsMonotone
    <3>6. Load(Aboard(m) \ {o}) \in Nat /\ Load(Aboard(m)) \in Nat BY <3>4, LoadIsNat
    <3>7. total[m] \in Nat /\ manifest[m].capacity \in Nat BY DEF TypeOK, Header
    <3>8. Load(Aboard(m)) <= total[m] /\ total[m] <= manifest[m].capacity
      BY <1>0, <2>3 DEF Loaded
    <3>9. QED BY <2>1, <2>3, <3>2, <3>3, <3>5, <3>6, <3>7, <3>8 DEF Loaded
  <2>4. QED BY <2>2, <2>3
<1>4. ASSUME NEW m \in Manifests, CloseManifest(m) \/ DepartManifest(m)
      PROVE  Loaded(n)'
  <2>1. UNCHANGED <<total, manifest, allocated>> /\ status'[n] \in {status[n], "CLOSED", "DEPARTED"}
    BY <1>4 DEF CloseManifest, Close, DepartManifest, Depart, stopVars, TypeOK
  <2>2. QED BY <1>0, <2>1, LoadedLighter DEF Aboard
<1>5. ASSUME NEW m \in Manifests, CancelManifest(m)
      PROVE  Loaded(n)'
  <2>1. UNCHANGED <<total, manifest>> /\ allocated' = allocated \ ({m} \X Orders)
    BY <1>5 DEF CancelManifest, Cancel
  <2>2. status'[n] = IF n = m THEN "CANCELLED" ELSE status[n]
    BY <1>5 DEF CancelManifest, Cancel, TypeOK
  <2>3. Aboard(n)' \subseteq Aboard(n) /\ (n # m => Aboard(n)' = Aboard(n))
    BY <2>1 DEF Aboard
  <2>4. QED BY <1>0, <2>1, <2>2, <2>3, LoadedLighter
<1>6. ASSUME NEW m \in Manifests, NEW o \in Orders, NEW outcome \in DeliveryOutcome,
             RecordDelivery(m, o, outcome)
      PROVE  Loaded(n)'
  <2>1. UNCHANGED <<total, manifest>> /\ allocated' \in {allocated, allocated \ {<<m, o>>}}
    BY <1>6 DEF RecordDelivery, Record, ReleaseStop
  <2>2. status[m] # "OPEN" /\ status'[n] \in {status[n], "COMPLETED"}
    BY <1>6 DEF RecordDelivery, Recordable, Record, CompleteIfDone, TypeOK
  <2>3. Aboard(n)' \subseteq Aboard(n) /\ (n # m => Aboard(n)' = Aboard(n))
    BY <2>1 DEF Aboard
  <2>4. QED BY <1>0, <2>1, <2>2, <2>3, LoadedLighter
<1>7. QED BY <1>1, <1>2, <1>3, <1>4, <1>5, <1>6, StepCases

\* No sequence of transactions overloads a vehicle: createManifest's walk and its
\* explicit check keep the total within the capacity snapshot, and every later step
\* only makes the load lighter.
THEOREM LoadsFit == Spec => []NeverOverloaded
<1>1. Init => TypeOK /\ AllocationInv /\ NeverOverloaded
  BY InitTypeOK, InitAllocationInv, InitLoaded
<1>2. TypeOK /\ AllocationInv /\ NeverOverloaded /\ [Next]_vars
         => (TypeOK /\ AllocationInv /\ NeverOverloaded)'
  BY NextTypeOK, NextAllocationInv, NextLoaded
<1>3. QED BY <1>1, <1>2, PTL DEF Spec

----------------------------------------------------------------------------
(* What never comes back.                                                  *)

StayFinished ==
    \A o \in Orders : orderState[o] \in {"DELIVERED", "CANCELLED", "ORPHANED"}
          => orderState'[o] = orderState[o]

LEMMA NextStaysFinished == TypeOK /\ AllocationInv /\ [Next]_vars => StayFinished
<1> SUFFICES ASSUME TypeOK, AllocationInv, [Next]_vars PROVE StayFinished
  OBVIOUS
<1>1. CASE UNCHANGED vars BY <1>1 DEF StayFinished, vars, poolVars
<1>2. CASE PoolStep
  <2>1. ASSUME NEW o \in Orders,
               IntakeOrder(o) \/ CancelPooledOrder(o) \/ OrphanOrder(o)
                  \/ \E c \in Corridors : ResolveCorridor(o, c)
        PROVE  StayFinished
    BY <2>1 DEF StayFinished, IntakeOrder, CancelPooledOrder, OrphanOrder, SetState,
       ResolveCorridor, RecordResolution, Upserted, TypeOK
  <2>2. ASSUME NEW m \in Manifests, NEW o \in Orders, CancelAllocatedOrder(m, o)
        PROVE  StayFinished
    BY <2>2 DEF StayFinished, CancelAllocatedOrder, Unload, TypeOK
  <2>3. QED BY <1>2, <2>1, <2>2 DEF PoolStep
<1>3. CASE SetupStep
  BY <1>3 DEF StayFinished, SetupStep, UpdateGeometry, SetGeometry, UpdateCorridor,
     CaptureLocation, UpdateVehicle, poolVars
<1>4. CASE EnvironmentStep
  BY <1>4 DEF StayFinished, EnvironmentStep, NextDay, LoseInvoice, poolVars
<1>5. CASE ManifestStep
  <2>1. ASSUME NEW m \in Manifests, NEW c \in Corridors, NEW v \in Vehicles,
               NEW planned \in 0..MaxDay, NEW S \in SUBSET Orders,
               \A o \in S : Eligible(o, c), OpenManifest(m, c, v, S, planned)
        PROVE  StayFinished
    BY <2>1 DEF StayFinished, OpenManifest, Open, Eligible
  <2>2. ASSUME NEW m \in Manifests, NEW o \in Orders, RemoveOrder(m, o) PROVE StayFinished
    <3>1. <<m, o>> \in allocated /\ status[m] = "OPEN" BY <2>2 DEF RemoveOrder, Loadable
    <3>2. o \in OpenStops(m) BY <3>1 DEF AllocationInv, StopRows, OpenStops, Aboard
    <3>3. orderState[o] = "ALLOCATED" BY <3>2 DEF AllocationInv, AllocationCoherent
    <3>4. QED BY <2>2, <3>3 DEF StayFinished, RemoveOrder, Unload, TypeOK
  <2>3. ASSUME NEW m \in Manifests,
               CloseManifest(m) \/ DepartManifest(m) \/ CancelManifest(m)
        PROVE  StayFinished
    BY <2>3 DEF StayFinished, CloseManifest, Close, DepartManifest, Depart, CancelManifest,
       Cancel, Returned, poolVars
  <2>4. ASSUME NEW m \in Manifests, NEW c \in Corridors, NEW v \in Vehicles,
               NEW planned \in 0..MaxDay, CreateAutomatically(m, c, v, planned)
        PROVE  StayFinished
    <3>1. PICK S \in SUBSET {o \in Orders : Eligible(o, c)} : OpenManifest(m, c, v, S, planned)
      BY <2>4 DEF CreateAutomatically
    <3>2. QED BY <2>1, <3>1
  <2>5. QED BY <1>5, <2>1, <2>2, <2>3, <2>4 DEF ManifestStep, CreateExplicitly
<1>6. CASE DeliveryStep
  <2>1. PICK m \in Manifests, o \in Orders, outcome \in DeliveryOutcome :
                RecordDelivery(m, o, outcome)
    BY <1>6 DEF DeliveryStep
  <2>2. orderState[o] = "ALLOCATED"
    BY <2>1 DEF RecordDelivery, Recordable, AllocationInv, AllocationCoherent
  <2>3. QED BY <2>1, <2>2 DEF StayFinished, RecordDelivery, Record, TypeOK
<1>7. QED BY <1>1, <1>2, <1>3, <1>4, <1>5, <1>6 DEF Next

\* A repeated intake, a late resolution, a removal or a cancelled trip never brings a
\* delivered, cancelled or orphaned order back.  The removal and the delivery are safe
\* only because an order with a stop still open is ALLOCATED.
THEOREM FinishedIsFinal == Spec => FinishedOrdersStayFinished
<1>1. Init => TypeOK /\ AllocationInv BY InitTypeOK, InitAllocationInv
<1>2. TypeOK /\ AllocationInv /\ [Next]_vars => (TypeOK /\ AllocationInv)'
  BY NextTypeOK, NextAllocationInv
<1>3. TypeOK /\ AllocationInv /\ [Next]_vars => [StayFinished]_vars
  BY NextStaysFinished
<1>4. FinishedOrdersStayFinished <=> [][StayFinished]_vars
  BY DEF FinishedOrdersStayFinished, StayFinished
<1>5. QED BY <1>1, <1>2, <1>3, <1>4, PTL DEF Spec

----------------------------------------------------------------------------
(* The lifecycle of an order.                                              *)

Trips == [o \in Orders |-> TripOf(o)]

LEMMA CarriesIs ==
    \A m \in Manifests, o \in Orders : Carries(m, o) <=> o \in OpenStops(m)
  BY DEF Carries, OpenStops, Aboard

\* An order is on one trip, before a step and after it.
LEMMA TripIs ==
    ASSUME AllocationInv, NEW o \in Orders
    PROVE  /\ \A m \in Manifests : Carries(m, o) => TripOf(o) = status[m] /\ orderState[o] = "ALLOCATED"
           /\ orderState[o] # "ALLOCATED" => TripOf(o) = "NONE"
<1>1. \A m, n \in Manifests : Carries(m, o) /\ Carries(n, o) => m = n
  BY DEF AllocationInv, AllocationCoherent, Carries, Aboard
<1>2. \A m \in Manifests : Carries(m, o) => orderState[o] = "ALLOCATED"
  BY CarriesIs DEF AllocationInv, AllocationCoherent
<1>3. QED BY <1>1, <1>2 DEF TripOf

LEMMA TripBecomes ==
    ASSUME AllocationInv', NEW o \in Orders
    PROVE  /\ \A m \in Manifests : Carries(m, o)' => TripOf(o)' = status'[m]
           /\ (\A m \in Manifests : ~Carries(m, o)') => TripOf(o)' = "NONE"
<1>1. \A m, n \in Manifests : Carries(m, o)' /\ Carries(n, o)' => m = n
  BY DEF AllocationInv, AllocationCoherent, Carries, Aboard
<1>2. QED BY <1>1 DEF TripOf

\* The trip of an order that stays where it is, on a manifest that does.
LEMMA TripStays ==
    ASSUME AllocationInv, AllocationInv', NEW o \in Orders,
           \A m \in Manifests : Carries(m, o)' <=> Carries(m, o),
           \A m \in Manifests : Carries(m, o) => status'[m] = status[m]
    PROVE  TripOf(o)' = TripOf(o)
<1>1. CASE \E m \in Manifests : Carries(m, o) BY <1>1, TripIs, TripBecomes
<1>2. CASE \A m \in Manifests : ~Carries(m, o) BY <1>2, TripBecomes DEF TripOf
<1>3. QED BY <1>1, <1>2

LEMMA MoveIs ==
    ASSUME TypeOK, NEW S \in SUBSET Orders, NEW s, NEW t,
           \A o \in S : TripOf(o)' = t,
           \A o \in Orders \ S : TripOf(o)' = TripOf(o),
           orderState' = [o \in Orders |-> IF o \in S THEN s ELSE orderState[o]]
    PROVE  Lifecycle!Move(S, s, t)
<1>1. Trips' = [o \in Orders |-> IF o \in S THEN t ELSE Trips[o]] BY DEF Trips
<1>2. QED BY <1>1 DEF Lifecycle!Move, Trips

LEMMA InitLifecycle == Init => Lifecycle!Init
<1> SUFFICES ASSUME Init PROVE Lifecycle!Init OBVIOUS
<1>1. \A o \in Orders : TripOf(o) = "NONE" BY DEF Init, TripOf, Carries
<1>2. QED BY <1>1 DEF Init, Lifecycle!Init

\* A step on waiting orders leaves stops and manifests alone.
LEMMA AshoreMove ==
    ASSUME TypeOK, AllocationInv, UNCHANGED <<allocated, delivery, status>>,
           NEW o \in Orders, orderState[o] # "ALLOCATED", NEW s,
           orderState' = [orderState EXCEPT ![o] = s]
    PROVE  Lifecycle!Move({o}, s, "NONE")
<1>1. \A p \in Orders : TripOf(p)' = TripOf(p) BY DEF TripOf, Carries
<1>2. TripOf(o) = "NONE" BY TripIs
<1>3. orderState' = [p \in Orders |-> IF p \in {o} THEN s ELSE orderState[p]] BY DEF TypeOK
<1>4. QED BY <1>1, <1>2, <1>3, MoveIs

\* An order leaves its trip alone.
LEMMA LeavingMove ==
    ASSUME TypeOK, AllocationInv, AllocationInv',
           NEW m \in Manifests, NEW o \in Orders, Carries(m, o), NEW s,
           \A n \in Manifests, p \in Orders : Carries(n, p)' <=> Carries(n, p) /\ ~(n = m /\ p = o),
           \A n \in Manifests, p \in Orders : Carries(n, p)' => status'[n] = status[n],
           orderState' = [orderState EXCEPT ![o] = s]
    PROVE  Lifecycle!Move({o}, s, "NONE")
<1>1. \A n \in Manifests : ~Carries(n, o)'
  BY DEF AllocationInv, AllocationCoherent, Carries, Aboard
<1>2. TripOf(o)' = "NONE" BY <1>1, TripBecomes
<1>3. ASSUME NEW p \in Orders \ {o} PROVE TripOf(p)' = TripOf(p) BY TripStays
<1>4. orderState' = [p \in Orders |-> IF p \in {o} THEN s ELSE orderState[p]] BY DEF TypeOK
<1>5. QED BY <1>2, <1>3, <1>4, MoveIs

LEMMA PoolStepLifecycle ==
    ASSUME TypeOK, AllocationInv, AllocationInv', PoolStep
    PROVE  Lifecycle!Next \/ UNCHANGED <<orderState, Trips>>
<1> DEFINE Goal == Lifecycle!Next \/ UNCHANGED <<orderState, Trips>>
<1>1. ASSUME NEW o \in Orders, UNCHANGED <<allocated, delivery, status>>,
             orderState' = [orderState EXCEPT ![o] = "POOLED"], Upserted(o) = "POOLED"
      PROVE  Goal
  <2>1. CASE orderState[o] = "NONE"
    <3>1. Lifecycle!Move({o}, "POOLED", "NONE") BY <1>1, <2>1, AshoreMove
    <3>2. QED BY <2>1, <3>1 DEF Lifecycle!Pool, Lifecycle!In, Lifecycle!Next
  <2>2. CASE orderState[o] = "POOLED"
    <3>1. orderState' = orderState BY <1>1, <2>2 DEF TypeOK
    <3>2. \A p \in Orders : TripOf(p)' = TripOf(p) BY <1>1 DEF TripOf, Carries
    <3>3. QED BY <3>1, <3>2 DEF Trips
  <2>3. QED BY <1>1, <2>1, <2>2 DEF Upserted
<1>2. ASSUME NEW o \in Orders, IntakeOrder(o) PROVE Goal
  <2>1. /\ UNCHANGED <<allocated, delivery, status>>
        /\ orderState' = [orderState EXCEPT ![o] = Upserted(o)]
    BY <1>2 DEF IntakeOrder, SetState, stopVars, manifestVars
  <2>2. CASE Upserted(o) = "POOLED" BY <1>1, <2>1, <2>2
  <2>3. CASE Upserted(o) # "POOLED"
    <3>1. orderState' = orderState BY <2>1, <2>3 DEF Upserted, TypeOK
    <3>2. \A p \in Orders : TripOf(p)' = TripOf(p) BY <2>1 DEF TripOf, Carries
    <3>3. QED BY <3>1, <3>2 DEF Trips
  <2>4. QED BY <2>2, <2>3
<1>3. ASSUME NEW o \in Orders, NEW c \in Corridors, ResolveCorridor(o, c) PROVE Goal
  BY <1>1, <1>3 DEF ResolveCorridor, RecordResolution, stopVars, manifestVars
<1>4. ASSUME NEW o \in Orders, CancelPooledOrder(o) PROVE Goal
  <2>1. Lifecycle!Move({o}, "CANCELLED", "NONE") /\ orderState[o] = "POOLED"
    BY <1>4, AshoreMove DEF CancelPooledOrder, SetState, stopVars, manifestVars
  <2>2. QED BY <2>1 DEF Lifecycle!Cancel, Lifecycle!In, Lifecycle!Next
<1>5. ASSUME NEW o \in Orders, OrphanOrder(o) PROVE Goal
  <2>1. Lifecycle!Move({o}, "ORPHANED", "NONE") /\ orderState[o] = "POOLED"
    BY <1>5, AshoreMove DEF OrphanOrder, SetState, stopVars, manifestVars
  <2>2. QED BY <2>1 DEF Lifecycle!Orphan, Lifecycle!In, Lifecycle!Next
<1>6. ASSUME NEW m \in Manifests, NEW o \in Orders, CancelAllocatedOrder(m, o) PROVE Goal
  <2>1. <<m, o>> \in allocated /\ status[m] = "OPEN" /\ Unload(m, o, "CANCELLED", "ORDER_CANCELLED")
    BY <1>6 DEF CancelAllocatedOrder, Loadable
  <2>2. Carries(m, o) BY <2>1 DEF AllocationInv, StopRows, Carries
  <2>3. Lifecycle!Move({o}, "CANCELLED", "NONE")
    BY <2>1, <2>2, LeavingMove DEF Unload, ReleaseStop, Carries
  <2>4. TripOf(o) = "OPEN" BY <2>1, <2>2, TripIs
  <2>5. QED BY <2>3, <2>4 DEF Lifecycle!Cancel, Lifecycle!On, Lifecycle!Next
<1>7. QED BY <1>2, <1>3, <1>4, <1>5, <1>6 DEF PoolStep

\* A manifest's step takes the orders it carries along.
LEMMA TripMove ==
    ASSUME TypeOK, AllocationInv, AllocationInv', NEW m \in Manifests, NEW t,
           status' = [status EXCEPT ![m] = t], UNCHANGED <<orderState, allocated, delivery>>
    PROVE  Lifecycle!Move(OpenStops(m), "ALLOCATED", t)
<1>1. \A n \in Manifests, o \in Orders : Carries(n, o)' <=> Carries(n, o) BY DEF Carries
<1>2. ASSUME NEW o \in OpenStops(m) PROVE TripOf(o)' = t /\ orderState[o] = "ALLOCATED"
  BY <1>1, <1>2, CarriesIs, TripBecomes, TripIs DEF OpenStops, Aboard, TypeOK
<1>3. ASSUME NEW o \in Orders \ OpenStops(m) PROVE TripOf(o)' = TripOf(o)
  BY <1>1, <1>3, CarriesIs, TripStays DEF TypeOK
<1>4. OpenStops(m) \in SUBSET Orders BY DEF OpenStops, Aboard
<1>5. orderState' = [o \in Orders |-> IF o \in OpenStops(m) THEN "ALLOCATED" ELSE orderState[o]]
  BY <1>2 DEF TypeOK
<1>6. QED BY <1>2, <1>3, <1>4, <1>5, MoveIs

LEMMA OpenLifecycle ==
    ASSUME TypeOK, AllocationInv, AllocationInv',
           NEW m \in Manifests, NEW c \in Corridors, NEW v \in Vehicles,
           NEW planned \in 0..MaxDay, NEW S \in SUBSET Orders,
           \A o \in S : Eligible(o, c), OpenManifest(m, c, v, S, planned)
    PROVE  Lifecycle!Load(S)
<1>1. /\ status[m] = "NONE" /\ status' = [status EXCEPT ![m] = "OPEN"]
      /\ allocated' = allocated \cup ({m} \X S)
      /\ delivery' = [s \in DOMAIN delivery |-> IF s \in {m} \X S THEN "PENDING" ELSE delivery[s]]
      /\ orderState' = [o \in Orders |-> IF o \in S THEN "ALLOCATED" ELSE orderState[o]]
  BY DEF OpenManifest, Open
<1>2. \A o \in S : orderState[o] = "POOLED" BY DEF Eligible
<1>3. \A o \in Orders : ~Carries(m, o)
  BY <1>1 DEF AllocationInv, StopRows, Carries
<1>4. ASSUME NEW n \in Manifests, NEW o \in Orders
      PROVE  Carries(n, o)' <=> Carries(n, o) \/ (n = m /\ o \in S)
  BY <1>1, <1>3 DEF Carries, TypeOK
<1>5. ASSUME NEW o \in S PROVE TripOf(o)' = "OPEN"
  BY <1>1, <1>4, TripBecomes DEF TypeOK
<1>6. ASSUME NEW o \in Orders \ S PROVE TripOf(o)' = TripOf(o)
  BY <1>1, <1>3, <1>4, TripStays DEF TypeOK
<1>7. Lifecycle!Move(S, "ALLOCATED", "OPEN") BY <1>1, <1>5, <1>6, MoveIs
<1>8. QED BY <1>2, <1>7 DEF Lifecycle!Load, Lifecycle!In

LEMMA ManifestStepLifecycle ==
    ASSUME TypeOK, AllocationInv, AllocationInv', ManifestStep
    PROVE  Lifecycle!Next
<1>1. ASSUME NEW m \in Manifests, NEW c \in Corridors, NEW v \in Vehicles,
             NEW planned \in 0..MaxDay, NEW S \in SUBSET Orders,
             \A o \in S : Eligible(o, c), OpenManifest(m, c, v, S, planned)
      PROVE  Lifecycle!Next
  BY <1>1, OpenLifecycle DEF Lifecycle!Next
<1>2. ASSUME NEW m \in Manifests, NEW c \in Corridors, NEW v \in Vehicles,
             NEW planned \in 0..MaxDay, CreateAutomatically(m, c, v, planned)
      PROVE  Lifecycle!Next
  <2>1. PICK S \in SUBSET {o \in Orders : Eligible(o, c)} : OpenManifest(m, c, v, S, planned)
    BY <1>2 DEF CreateAutomatically
  <2>2. QED BY <1>1, <2>1
<1>3. ASSUME NEW m \in Manifests, NEW o \in Orders, RemoveOrder(m, o) PROVE Lifecycle!Next
  <2>1. <<m, o>> \in allocated /\ status[m] = "OPEN" /\ Unload(m, o, "POOLED", "REMOVED_BY_DISPATCHER")
    BY <1>3 DEF RemoveOrder, Loadable
  <2>2. Carries(m, o) BY <2>1 DEF AllocationInv, StopRows, Carries
  <2>3. Lifecycle!Move({o}, "POOLED", "NONE")
    BY <2>1, <2>2, LeavingMove DEF Unload, ReleaseStop, Carries
  <2>4. TripOf(o) = "OPEN" BY <2>1, <2>2, TripIs
  <2>5. Lifecycle!Return({o}) BY <2>3, <2>4 DEF Lifecycle!Return, Lifecycle!On
  <2>6. QED BY <2>5 DEF Lifecycle!Next
<1>4. ASSUME NEW m \in Manifests PROVE OpenStops(m) \in SUBSET Orders
                                       /\ \A o \in OpenStops(m) : TripOf(o) = status[m]
  BY CarriesIs, TripIs DEF OpenStops, Aboard
<1>5. ASSUME NEW m \in Manifests, CloseManifest(m) PROVE Lifecycle!Next
  <2>1. status[m] = "OPEN" /\ Lifecycle!Move(OpenStops(m), "ALLOCATED", "CLOSED")
    BY <1>5, TripMove DEF CloseManifest, Closable, Close, poolVars, stopVars
  <2>2. Lifecycle!Close(OpenStops(m)) BY <1>4, <2>1 DEF Lifecycle!Close, Lifecycle!On
  <2>3. QED BY <1>4, <2>2 DEF Lifecycle!Next
<1>6. ASSUME NEW m \in Manifests, DepartManifest(m) PROVE Lifecycle!Next
  <2>1. status[m] = "CLOSED" /\ Lifecycle!Move(OpenStops(m), "ALLOCATED", "DEPARTED")
    BY <1>6, TripMove
    DEF DepartManifest, Departable, Depart, CanTransition, poolVars, stopVars
  <2>2. Lifecycle!Depart(OpenStops(m)) BY <1>4, <2>1 DEF Lifecycle!Depart, Lifecycle!On
  <2>3. QED BY <1>4, <2>2 DEF Lifecycle!Next
<1>7. ASSUME NEW m \in Manifests, CancelManifest(m) PROVE Lifecycle!Next
  <2>1. /\ status[m] \in {"OPEN", "CLOSED"}
        /\ status' = [status EXCEPT ![m] = "CANCELLED"] /\ delivery' = delivery
        /\ allocated' = allocated \ ({m} \X Orders)
        /\ orderState' = [o \in Orders |-> IF o \in Returned(m) THEN "POOLED" ELSE orderState[o]]
    BY <1>7 DEF CancelManifest, Cancellable, Cancel, CanTransition
  <2>2. Returned(m) = OpenStops(m)
    <3>1. ASSUME NEW o \in Aboard(m), orderState[o] = "ALLOCATED" PROVE o \in OpenStops(m)
      <4>1. PICK n \in Manifests : o \in OpenStops(n)
        BY <3>1 DEF AllocationInv, AllocationCoherent, Aboard
      <4>2. n = m BY <3>1, <4>1 DEF AllocationInv, AllocationCoherent, OpenStops, Aboard
      <4>3. QED BY <4>1, <4>2
    <3>2. ASSUME NEW o \in OpenStops(m) PROVE o \in Aboard(m) /\ orderState[o] = "ALLOCATED"
      BY <3>2 DEF AllocationInv, AllocationCoherent, OpenStops, Aboard
    <3>3. QED BY <3>1, <3>2 DEF Returned
  <2>3. ASSUME NEW n \in Manifests, NEW o \in Orders
        PROVE  Carries(n, o)' <=> Carries(n, o) /\ n # m
    BY <2>1 DEF Carries
  <2>4. ASSUME NEW o \in OpenStops(m) PROVE TripOf(o)' = "NONE"
    <3>1. o \in Orders /\ \A n \in Manifests : Carries(n, o) => n = m
      BY <2>4 DEF AllocationInv, AllocationCoherent, Carries, OpenStops, Aboard
    <3>2. QED BY <2>3, <3>1, TripBecomes
  <2>5. ASSUME NEW o \in Orders \ OpenStops(m) PROVE TripOf(o)' = TripOf(o)
    <3>1. ~Carries(m, o) BY <2>5, CarriesIs
    <3>2. QED BY <2>1, <2>3, <3>1, TripStays DEF TypeOK
  <2>6. Lifecycle!Move(OpenStops(m), "POOLED", "NONE") BY <1>4, <2>1, <2>2, <2>4, <2>5, MoveIs
  <2>7. Lifecycle!Return(OpenStops(m)) BY <1>4, <2>1, <2>6 DEF Lifecycle!Return, Lifecycle!On
  <2>8. QED BY <1>4, <2>7 DEF Lifecycle!Next
<1>8. QED BY <1>1, <1>2, <1>3, <1>5, <1>6, <1>7 DEF ManifestStep, CreateExplicitly

LEMMA DeliveryStepLifecycle ==
    ASSUME TypeOK, AllocationInv, AllocationInv', DeliveryStep
    PROVE  Lifecycle!Next \/ UNCHANGED <<orderState, Trips>>
<1>1. PICK m \in Manifests, o \in Orders, outcome \in DeliveryOutcome :
              RecordDelivery(m, o, outcome)
  BY DEF DeliveryStep
<1>2. /\ status[m] \in {"CLOSED", "DEPARTED"} /\ Carries(m, o)
      /\ orderState' = [orderState EXCEPT ![o] = StateAfter(@, outcome)]
      /\ delivery' = [delivery EXCEPT ![<<m, o>>] = outcome]
      /\ IF outcome \in {"FAILED", "SKIPPED"} THEN allocated' = allocated \ {<<m, o>>}
         ELSE allocated' = allocated
      /\ status' = [status EXCEPT ![m] = IF OpenStops(m)' = {} THEN "COMPLETED" ELSE @]
  BY <1>1, CarriesIs
  DEF RecordDelivery, Recordable, Record, ReleaseStop, CompleteIfDone, TypeOK
<1>3. TripOf(o) = status[m] /\ orderState[o] = "ALLOCATED" BY <1>2, TripIs
<1>4. ASSUME NEW n \in Manifests, NEW p \in Orders, Carries(n, p)' PROVE status'[n] = status[n]
  BY <1>2, <1>4 DEF Carries, OpenStops, Aboard, TypeOK
<1>5. CASE outcome # "ARRIVED"
  <2>1. outcome \in {"DELIVERED", "FAILED", "SKIPPED"} BY <1>5 DEF DeliveryOutcome
  <2>2. ASSUME NEW n \in Manifests, NEW p \in Orders
        PROVE  Carries(n, p)' <=> Carries(n, p) /\ ~(n = m /\ p = o)
    BY <1>2, <2>1 DEF Carries, TypeOK
  <2>3. Lifecycle!Move({o}, StateAfter("ALLOCATED", outcome), "NONE")
    <3>1. orderState' = [orderState EXCEPT ![o] = StateAfter("ALLOCATED", outcome)]
      BY <1>2, <1>3
    <3>2. QED BY <1>2, <1>4, <2>2, <3>1, LeavingMove
  <2>4. CASE outcome = "DELIVERED"
    <3>1. Lifecycle!Deliver(o)
      BY <1>2, <1>3, <2>3, <2>4 DEF StateAfter, Lifecycle!Deliver, Lifecycle!On
    <3>2. QED BY <3>1 DEF Lifecycle!Next
  <2>5. CASE outcome # "DELIVERED"
    <3>1. Lifecycle!Fail(o)
      BY <1>2, <1>3, <1>5, <2>3, <2>5 DEF StateAfter, Lifecycle!Fail, Lifecycle!On
    <3>2. QED BY <3>1 DEF Lifecycle!Next
  <2>6. QED BY <2>4, <2>5
<1>6. CASE outcome = "ARRIVED"
  <2>1. orderState' = orderState BY <1>2, <1>3, <1>6 DEF StateAfter, TypeOK
  <2>2. ASSUME NEW n \in Manifests, NEW p \in Orders PROVE Carries(n, p)' <=> Carries(n, p)
    BY <1>2, <1>6 DEF Carries, TypeOK
  <2>3. ASSUME NEW p \in Orders PROVE TripOf(p)' = TripOf(p) BY <1>4, <2>2, TripStays
  <2>4. QED BY <2>1, <2>3 DEF Trips
<1>7. QED BY <1>5, <1>6

LEMMA NextLifecycle ==
    TypeOK /\ TypeOK' /\ AllocationInv /\ [Next]_vars => [Lifecycle!Next]_<<orderState, Trips>>
<1> SUFFICES ASSUME TypeOK, TypeOK', AllocationInv, [Next]_vars
             PROVE  Lifecycle!Next \/ UNCHANGED <<orderState, Trips>>
  OBVIOUS
<1>1. AllocationInv' BY NextAllocationInv
<1>2. CASE UNCHANGED <<orderState, allocated, delivery, status>>
  BY <1>2 DEF Trips, TripOf, Carries
<1>3. CASE UNCHANGED vars BY <1>2, <1>3 DEF vars, poolVars, stopVars, manifestVars
<1>4. CASE SetupStep
  BY <1>2, <1>4 DEF SetupStep, UpdateGeometry, SetGeometry, UpdateCorridor, CaptureLocation,
     UpdateVehicle, poolVars, stopVars, manifestVars
<1>5. CASE EnvironmentStep
  BY <1>2, <1>5 DEF EnvironmentStep, NextDay, LoseInvoice, poolVars, stopVars, manifestVars
<1>6. CASE PoolStep BY <1>1, <1>6, PoolStepLifecycle
<1>7. CASE ManifestStep BY <1>1, <1>7, ManifestStepLifecycle
<1>8. CASE DeliveryStep BY <1>1, <1>8, DeliveryStepLifecycle
<1>9. QED BY <1>3, <1>4, <1>5, <1>6, <1>7, <1>8 DEF Next

\* Fulfillment implements the lifecycle of its orders: whatever trips are planned, edited,
\* cancelled and delivered, each transaction moves the orders of one set by one legal step.
THEOREM OrdersFollowLifecycle == Spec => FollowsLifecycle
<1>1. Init => TypeOK /\ AllocationInv BY InitTypeOK, InitAllocationInv
<1>2. TypeOK /\ AllocationInv /\ [Next]_vars => (TypeOK /\ AllocationInv)'
  BY NextTypeOK, NextAllocationInv
<1>3. Init => Lifecycle!Init BY InitLifecycle
<1>4. TypeOK /\ AllocationInv /\ [Next]_vars => [Lifecycle!Next]_<<orderState, Trips>>
  BY <1>2, NextLifecycle
<1>5. QED BY <1>1, <1>2, <1>3, <1>4, PTL DEF Spec, FollowsLifecycle, Lifecycle!Spec, Trips

----------------------------------------------------------------------------
(* What was closed stays aboard.                                           *)

Frozen(m) ==
    status[m] \notin {"NONE", "OPEN"} =>
        /\ Aboard(m)' \subseteq Aboard(m)
        /\ total'[m] = total[m]
        /\ \A o \in Aboard(m) \ Aboard(m)' :
              status'[m] = "CANCELLED" \/ delivery'[<<m, o>>] \in {"FAILED", "SKIPPED"}

LEMMA NextFrozen ==
    ASSUME TypeOK, [Next]_vars, NEW n \in Manifests
    PROVE  Frozen(n)
<1>1. CASE Quiet BY <1>1 DEF Quiet, manifestVars, stopVars, Frozen, Aboard
<1>2. ASSUME NEW m \in Manifests, NEW c \in Corridors, NEW v \in Vehicles,
             NEW planned \in 0..MaxDay, NEW S \in SUBSET Orders, Opened(m, c, v, planned, S)
      PROVE  Frozen(n)
  <2>1. \A k \in Manifests, p \in Orders :
           <<k, p>> \in allocated' <=> <<k, p>> \in allocated \/ (k = m /\ p \in S)
    BY <1>2 DEF Opened, OpenManifest, Open, TypeOK
  <2>2. status[m] = "NONE" BY <1>2 DEF Opened, OpenManifest
  <2>3. n # m => total'[n] = total[n] BY <1>2 DEF Opened, OpenManifest, Open, TypeOK
  <2>4. n # m => Aboard(n)' = Aboard(n) BY <2>1 DEF Aboard
  <2>5. QED BY <2>2, <2>3, <2>4 DEF Frozen
<1>3. ASSUME NEW m \in Manifests, NEW o \in Orders, TakenOff(m, o) PROVE Frozen(n)
  <2>1. status[m] = "OPEN"
    BY <1>3 DEF TakenOff, CancelAllocatedOrder, RemoveOrder, Loadable
  <2>2. /\ allocated' = allocated \ {<<m, o>>}
        /\ total' = [total EXCEPT ![m] = Load(Aboard(m) \ {o})]
    BY <1>3 DEF TakenOff, CancelAllocatedOrder, RemoveOrder, Unload, ReleaseStop
  <2>3. n # m => Aboard(n)' = Aboard(n) /\ total'[n] = total[n] BY <2>2 DEF Aboard, TypeOK
  <2>4. QED BY <2>1, <2>3 DEF Frozen
<1>4. ASSUME NEW m \in Manifests, CloseManifest(m) \/ DepartManifest(m) PROVE Frozen(n)
  BY <1>4 DEF CloseManifest, Close, DepartManifest, Depart, stopVars, Frozen, Aboard
<1>5. ASSUME NEW m \in Manifests, CancelManifest(m) PROVE Frozen(n)
  <2>1. total' = total /\ allocated' = allocated \ ({m} \X Orders)
    BY <1>5 DEF CancelManifest, Cancel
  <2>2. status'[m] = "CANCELLED" BY <1>5 DEF CancelManifest, Cancel, TypeOK
  <2>3. Aboard(n)' \subseteq Aboard(n) /\ (n # m => Aboard(n)' = Aboard(n))
    BY <2>1 DEF Aboard
  <2>4. QED BY <2>1, <2>2, <2>3 DEF Frozen
<1>6. ASSUME NEW m \in Manifests, NEW o \in Orders, NEW outcome \in DeliveryOutcome,
             RecordDelivery(m, o, outcome)
      PROVE  Frozen(n)
  <2>1. total' = total
    BY <1>6 DEF RecordDelivery, Record
  <2>2. \A k \in Manifests, p \in Orders :
           <<k, p>> \in allocated' <=>
              <<k, p>> \in allocated /\ ~(k = m /\ p = o /\ outcome \in {"FAILED", "SKIPPED"})
    BY <1>6 DEF RecordDelivery, Record, ReleaseStop
  <2>3. delivery'[<<m, o>>] = outcome BY <1>6 DEF RecordDelivery, Record, TypeOK
  <2>4. Aboard(n)' \subseteq Aboard(n) BY <2>2 DEF Aboard
  <2>5. \A p \in Aboard(n) \ Aboard(n)' : n = m /\ p = o /\ outcome \in {"FAILED", "SKIPPED"}
    BY <2>2 DEF Aboard
  <2>6. QED BY <2>1, <2>3, <2>4, <2>5 DEF Frozen
<1>7. QED BY <1>1, <1>2, <1>3, <1>4, <1>5, <1>6, StepCases

\* What a closed manifest carries changes only by a recorded failure or the
\* cancellation of the trip, and its total never.
THEOREM LoadsFreeze == Spec => ClosedLoadFrozen
<1>1. TypeOK /\ [Next]_vars => [\A m \in Manifests : Frozen(m)]_vars
  BY NextFrozen
<1>2. ClosedLoadFrozen <=> [][\A m \in Manifests : Frozen(m)]_vars
  BY DEF ClosedLoadFrozen, Frozen
<1>3. QED BY <1>1, <1>2, TypeCorrectness, PTL DEF Spec

----------------------------------------------------------------------------
(* Routes.                                                                 *)

\* An order with a stop still to be delivered is never resolved again: a resolution
\* needs a pooled or new row.
LEMMA LoadedKeepsRoute ==
    ASSUME TypeOK, AllocationInv, [Next]_vars, NEW m \in Manifests, NEW o \in OpenStops(m)
    PROVE  resolution'[o] = resolution[o]
<1>1. o \in Orders /\ orderState[o] = "ALLOCATED"
  BY DEF AllocationInv, AllocationCoherent, OpenStops, Aboard
<1>2. CASE UNCHANGED vars BY <1>2 DEF vars, poolVars
<1>3. CASE PoolStep
  BY <1>1, <1>3 DEF PoolStep, IntakeOrder, CancelPooledOrder, OrphanOrder, SetState,
     ResolveCorridor, RecordResolution, Upserted, CancelAllocatedOrder, Unload, TypeOK
<1>4. CASE SetupStep
  BY <1>4 DEF SetupStep, UpdateGeometry, SetGeometry, UpdateCorridor, CaptureLocation,
     UpdateVehicle, poolVars
<1>5. CASE ManifestStep
  <2>1. ASSUME NEW n \in Manifests, NEW c \in Corridors, NEW v \in Vehicles,
               NEW planned \in 0..MaxDay, CreateAutomatically(n, c, v, planned)
        PROVE  resolution' = resolution
    BY <2>1 DEF CreateAutomatically, OpenManifest, Open
  <2>2. ASSUME NEW n \in Manifests, NEW c \in Corridors, NEW v \in Vehicles,
               NEW planned \in 0..MaxDay, NEW S \in SUBSET Orders,
               CreateExplicitly(n, c, v, S, planned)
        PROVE  resolution' = resolution
    BY <2>2 DEF CreateExplicitly, OpenManifest, Open
  <2>3. ASSUME NEW n \in Manifests, NEW p \in Orders, RemoveOrder(n, p)
        PROVE  resolution' = resolution
    BY <2>3 DEF RemoveOrder, Unload
  <2>4. ASSUME NEW n \in Manifests, CloseManifest(n) \/ DepartManifest(n) \/ CancelManifest(n)
        PROVE  resolution' = resolution
    BY <2>4 DEF CloseManifest, Close, DepartManifest, Depart, CancelManifest, Cancel, poolVars
  <2>5. QED BY <1>5, <2>1, <2>2, <2>3, <2>4 DEF ManifestStep
<1>6. CASE DeliveryStep
  BY <1>6 DEF DeliveryStep, RecordDelivery, Record
<1>7. CASE EnvironmentStep
  BY <1>7 DEF EnvironmentStep, NextDay, LoseInvoice, poolVars
<1>8. QED BY <1>2, <1>3, <1>4, <1>5, <1>6, <1>7 DEF Next

\* A step opens no stop but those of a manifest it creates, and changes the header
\* of no other.
LEMMA OpenStopsOnlyClose ==
    ASSUME TypeOK, [Next]_vars, NEW n \in Manifests, NEW o \in OpenStops(n)'
    PROVE  \/ o \in OpenStops(n) /\ manifest'[n] = manifest[n]
           \/ \E c \in Corridors, v \in Vehicles, planned \in 0..MaxDay, S \in SUBSET Orders :
                 o \in S /\ Opened(n, c, v, planned, S)
           \/ status[n] = "NONE" /\ o \in OpenStops(n)
<1>0. o \in Orders /\ <<n, o>> \in allocated' /\ delivery'[<<n, o>>] \in {"PENDING", "ARRIVED"}
  BY DEF OpenStops, Aboard
<1>1. CASE Quiet
  BY <1>0, <1>1 DEF Quiet, manifestVars, stopVars, OpenStops, Aboard
<1>2. ASSUME NEW m \in Manifests, NEW c \in Corridors, NEW v \in Vehicles,
             NEW planned \in 0..MaxDay, NEW S \in SUBSET Orders, Opened(m, c, v, planned, S),
             ~(n = m /\ o \in S)
      PROVE  o \in OpenStops(n) /\ (n # m => manifest'[n] = manifest[n]) /\ status[m] = "NONE"
  <2>1. <<n, o>> \in allocated BY <1>0, <1>2 DEF Opened, OpenManifest, Open
  <2>2. delivery'[<<n, o>>] = delivery[<<n, o>>]
    BY <1>0, <1>2 DEF Opened, OpenManifest, Open, TypeOK
  <2>3. n # m => manifest'[n] = manifest[n]
    BY <1>2 DEF Opened, OpenManifest, Open, TypeOK
  <2>4. status[m] = "NONE" BY <1>2 DEF Opened, OpenManifest
  <2>5. QED BY <1>0, <2>1, <2>2, <2>3, <2>4 DEF OpenStops, Aboard
<1>3. ASSUME NEW m \in Manifests, NEW p \in Orders, TakenOff(m, p)
      PROVE  o \in OpenStops(n) /\ manifest'[n] = manifest[n]
  BY <1>0, <1>3 DEF TakenOff, CancelAllocatedOrder, RemoveOrder, Unload, ReleaseStop, OpenStops,
     Aboard
<1>4. ASSUME NEW m \in Manifests, CloseManifest(m) \/ DepartManifest(m) \/ CancelManifest(m)
      PROVE  o \in OpenStops(n) /\ manifest'[n] = manifest[n]
  BY <1>0, <1>4 DEF CloseManifest, Close, DepartManifest, Depart, CancelManifest, Cancel,
     stopVars, OpenStops, Aboard
<1>5. ASSUME NEW m \in Manifests, NEW p \in Orders, NEW outcome \in DeliveryOutcome,
             RecordDelivery(m, p, outcome)
      PROVE  o \in OpenStops(n) /\ manifest'[n] = manifest[n]
  <2>1. manifest' = manifest /\ <<n, o>> \in allocated
    BY <1>0, <1>5 DEF RecordDelivery, Record, ReleaseStop
  <2>2. p \in OpenStops(m) BY <1>5 DEF RecordDelivery, Recordable
  <2>3. ~(n = m /\ o = p) => delivery'[<<n, o>>] = delivery[<<n, o>>]
    BY <1>0, <1>5 DEF RecordDelivery, Record, TypeOK
  <2>4. QED BY <1>0, <2>1, <2>2, <2>3 DEF OpenStops, Aboard
<1>6. QED BY <1>1, <1>2, <1>3, <1>4, <1>5, StepCases

LEMMA InitRouteIsCurrent == Init => RouteIsCurrent
  BY DEF Init, RouteIsCurrent, OpenStops, Aboard

LEMMA NextRouteIsCurrent ==
    ASSUME TypeOK, AllocationInv, RouteIsCurrent, [Next]_vars
    PROVE  RouteIsCurrent'
<1> SUFFICES ASSUME NEW n \in Manifests, NEW o \in OpenStops(n)'
             PROVE  /\ resolution'[o].corridor = manifest'[n].corridor
                    /\ resolution'[o].version = manifest'[n].version
  BY DEF RouteIsCurrent
<1>1. CASE o \in OpenStops(n) /\ manifest'[n] = manifest[n]
  BY <1>1, LoadedKeepsRoute DEF RouteIsCurrent
<1>2. ASSUME NEW c \in Corridors, NEW v \in Vehicles, NEW planned \in 0..MaxDay,
             NEW S \in SUBSET Orders, o \in S, Opened(n, c, v, planned, S)
      PROVE  /\ resolution'[o].corridor = manifest'[n].corridor
             /\ resolution'[o].version = manifest'[n].version
  <2>1. resolution' = resolution BY <1>2 DEF Opened, OpenManifest, Open
  <2>2. manifest'[n].corridor = c /\ manifest'[n].version = geometry[c]
    BY <1>2 DEF Opened, OpenManifest, Open, HeaderOf, TypeOK
  <2>3. resolution[o].corridor = c /\ ~Stale(o) BY <1>2 DEF Opened, Eligible
  <2>4. resolution[o] # Unassigned BY <2>3, DomainsAreFinite DEF Unassigned
  <2>5. resolution[o].version = geometry[c] BY <2>3, <2>4 DEF Stale
  <2>6. QED BY <2>1, <2>2, <2>3, <2>5
<1>3. CASE status[n] = "NONE" /\ o \in OpenStops(n)
  BY <1>3 DEF AllocationInv, NoStrandedTrip
<1>4. QED BY <1>1, <1>2, <1>3, OpenStopsOnlyClose

\* A loaded order's resolution stays that of its manifest, whatever happens to the
\* corridor, the shop and the other resolutions: an order is loaded only while its
\* resolution is fresh, and is not resolved again while it is loaded.
THEOREM RoutesStayCurrent == Spec => []RouteIsCurrent
<1>1. Init => TypeOK /\ AllocationInv /\ RouteIsCurrent
  BY InitTypeOK, InitAllocationInv, InitRouteIsCurrent
<1>2. TypeOK /\ AllocationInv /\ RouteIsCurrent /\ [Next]_vars
         => (TypeOK /\ AllocationInv /\ RouteIsCurrent)'
  BY NextTypeOK, NextAllocationInv, NextRouteIsCurrent
<1>3. QED BY <1>1, <1>2, PTL DEF Spec

----------------------------------------------------------------------------
(* Vehicles and days.                                                      *)

\* What the manifest's row, its reservation and the index entry say of each other.
ReservationRow(m) ==
    /\ status[m] = "NONE" => m \notin reserved /\ reservation[m] = NoReservation
    /\ status[m] = "CANCELLED" => m \notin reserved
    /\ status[m] = "DEPARTED" => m \in reserved
    /\ m \in reserved => reservation[m] # NoReservation
    /\ reservation[m] # NoReservation =>
          /\ reservation[m].vehicle = manifest[m].vehicle
          /\ status[m] # "CANCELLED" => m \in reserved

DayUnique ==
    \A m, n \in Manifests :
        m \in reserved /\ n \in reserved /\ reservation[m] = reservation[n] => m = n

ReservationInv == (\A m \in Manifests : ReservationRow(m)) /\ DayUnique

\* After reserving, m holds a day of v that no other trip holds.
LEMMA ReserveOwns ==
    ASSUME TypeOK, ReservationInv, NEW m \in Manifests, NEW v, NEW d \in Day, Reserve(m, v, d),
           reservation[m] # NoReservation => m \in reserved /\ reservation[m].vehicle = v
    PROVE  /\ m \in reserved' /\ reservation'[m] # NoReservation /\ reservation'[m].vehicle = v
           /\ \A n \in Manifests \ {m} :
                 reservation'[n] = reservation[n] /\ (n \in reserved' <=> n \in reserved)
           /\ DayUnique'
<1>1. CASE reservation[m] # NoReservation
  BY <1>1 DEF Reserve, ReservationInv, DayUnique
<1>2. CASE reservation[m] = NoReservation
  <2>1. /\ DayFree(v, d)
        /\ reservation' = [reservation EXCEPT ![m] = [vehicle |-> v, day |-> d]]
        /\ reserved' = reserved \cup {m}
    BY <1>2 DEF Reserve
  <2>2. reservation'[m] = [vehicle |-> v, day |-> d] BY <2>1 DEF TypeOK
  <2>3. d # 0 BY Settings DEF Day
  <2>4. [vehicle |-> v, day |-> d] # NoReservation BY <2>3 DEF NoReservation
  <2>5. \A n \in Manifests \ {m} :
           reservation'[n] = reservation[n] /\ (n \in reserved' <=> n \in reserved)
    BY <2>1 DEF TypeOK
  <2>6. \A n \in Manifests \ {m} : n \in reserved => reservation[n] # [vehicle |-> v, day |-> d]
    BY <2>1 DEF DayFree
  <2>7. DayUnique' BY <2>2, <2>5, <2>6 DEF ReservationInv, DayUnique
  <2>8. m \in reserved' BY <2>1
  <2>9. reservation'[m].vehicle = v BY <2>2
  <2>10. QED BY <2>2, <2>4, <2>5, <2>7, <2>8, <2>9
<1>3. QED BY <1>1, <1>2

LEMMA InitReservationInv == Init => ReservationInv
  BY DEF Init, ReservationInv, ReservationRow, DayUnique

\* A step that touches no reservation and neither cancels nor sends off a trip.
NoReservationMoves ==
    /\ UNCHANGED <<reservation, reserved, manifest>>
    /\ \A n \in Manifests : status'[n] # status[n] =>
          status[n] # "CANCELLED" /\ status'[n] \in {"CLOSED", "COMPLETED"}

LEMMA ReservationKept ==
    ASSUME ReservationInv, NoReservationMoves
    PROVE  ReservationInv'
<1> USE DEF NoReservationMoves
<1>1. DayUnique' BY DEF ReservationInv, DayUnique
<1>2. ASSUME NEW n \in Manifests PROVE ReservationRow(n)'
  <2>1. ReservationRow(n) BY DEF ReservationInv
  <2>2. CASE status'[n] = status[n] BY <2>1, <2>2 DEF ReservationRow
  <2>3. CASE status'[n] # status[n]
    BY <2>1, <2>3 DEF ReservationRow
  <2>4. QED BY <2>2, <2>3
<1>3. QED BY <1>1, <1>2 DEF ReservationInv

LEMMA NextReservationInv ==
    ASSUME TypeOK, TypeOK', ReservationInv, [Next]_vars
    PROVE  ReservationInv'
<1>1. CASE Quiet BY <1>1, ReservationKept DEF Quiet, manifestVars, NoReservationMoves
<1>2. ASSUME NEW m \in Manifests, NEW c \in Corridors, NEW v \in Vehicles,
             NEW planned \in 0..MaxDay, NEW S \in SUBSET Orders, Opened(m, c, v, planned, S)
      PROVE  ReservationInv'
  <2>1. /\ status[m] = "NONE" /\ status'[m] = "OPEN"
        /\ manifest'[m].vehicle = v
        /\ \A n \in Manifests \ {m} : status'[n] = status[n] /\ manifest'[n] = manifest[n]
    BY <1>2 DEF Opened, OpenManifest, Open, HeaderOf, TypeOK
  <2>2. m \notin reserved /\ reservation[m] = NoReservation
    BY <2>1 DEF ReservationInv, ReservationRow
  <2>3. CASE planned = 0
    <3>1. UNCHANGED <<reservation, reserved>>
      BY <1>2, <2>3 DEF Opened, OpenManifest, Open, HeaderOf
    <3>2. DayUnique' BY <3>1 DEF ReservationInv, DayUnique
    <3>3. ReservationRow(m)' BY <2>1, <2>2, <3>1 DEF ReservationRow
    <3>4. \A n \in Manifests \ {m} : ReservationRow(n)'
      BY <2>1, <3>1 DEF ReservationInv, ReservationRow
    <3>5. QED BY <3>2, <3>3, <3>4 DEF ReservationInv
  <2>4. CASE planned # 0
    <3>1. Reserve(m, v, planned) BY <1>2, <2>4 DEF Opened, OpenManifest, Open, HeaderOf
    <3>2. planned \in Day BY <2>4 DEF Day
    <3>3. /\ m \in reserved' /\ reservation'[m] # NoReservation /\ reservation'[m].vehicle = v
          /\ \A n \in Manifests \ {m} :
                reservation'[n] = reservation[n] /\ (n \in reserved' <=> n \in reserved)
          /\ DayUnique'
      BY <2>2, <3>1, <3>2, ReserveOwns
    <3>4. ReservationRow(m)' BY <2>1, <3>3 DEF ReservationRow
    <3>5. \A n \in Manifests \ {m} : ReservationRow(n)'
      BY <2>1, <3>3 DEF ReservationInv, ReservationRow
    <3>6. QED BY <3>3, <3>4, <3>5 DEF ReservationInv
  <2>5. QED BY <2>3, <2>4
<1>3. ASSUME NEW m \in Manifests, NEW o \in Orders, TakenOff(m, o) PROVE ReservationInv'
  BY <1>3, ReservationKept DEF TakenOff, CancelAllocatedOrder, RemoveOrder, Unload,
     NoReservationMoves
<1>4. ASSUME NEW m \in Manifests, CloseManifest(m) PROVE ReservationInv'
  <2>1. UNCHANGED <<reservation, reserved, manifest>> BY <1>4 DEF CloseManifest, Close
  <2>2. \A n \in Manifests : status'[n] # status[n] =>
           status[n] # "CANCELLED" /\ status'[n] \in {"CLOSED", "COMPLETED"}
    BY <1>4 DEF CloseManifest, Closable, Close, TypeOK
  <2>3. QED BY <2>1, <2>2, ReservationKept DEF NoReservationMoves
<1>5. ASSUME NEW m \in Manifests, DepartManifest(m) PROVE ReservationInv'
  <2> DEFINE v == manifest[m].vehicle
             d == ServiceDay(m)
  <2>1. /\ status[m] = "CLOSED" /\ status'[m] = "DEPARTED" /\ manifest' = manifest
        /\ \A n \in Manifests \ {m} : status'[n] = status[n]
        /\ Reserve(m, v, d)
    BY <1>5 DEF DepartManifest, Departable, Depart, CanTransition, TypeOK
  <2>2. d \in Day
    <3>1. manifest[m].planned \in 0..MaxDay BY DEF TypeOK, Header
    <3>2. QED BY <3>1, Settings DEF ServiceDay, TypeOK, Day
  <2>3. reservation[m] # NoReservation => m \in reserved /\ reservation[m].vehicle = v
    BY <2>1 DEF ReservationInv, ReservationRow
  <2>4. /\ m \in reserved' /\ reservation'[m] # NoReservation /\ reservation'[m].vehicle = v
        /\ \A n \in Manifests \ {m} :
              reservation'[n] = reservation[n] /\ (n \in reserved' <=> n \in reserved)
        /\ DayUnique'
    <3> HIDE DEF v, d
    <3>1. QED BY <2>1, <2>2, <2>3, ReserveOwns
  <2>5. ReservationRow(m)' BY <2>1, <2>4 DEF ReservationRow
  <2>6. \A n \in Manifests \ {m} : ReservationRow(n)'
    BY <2>1, <2>4 DEF ReservationInv, ReservationRow
  <2>7. QED BY <2>4, <2>5, <2>6 DEF ReservationInv
<1>6. ASSUME NEW m \in Manifests, CancelManifest(m) PROVE ReservationInv'
  <2>1. /\ reserved' = reserved \ {m} /\ UNCHANGED <<reservation, manifest>>
        /\ status'[m] = "CANCELLED"
        /\ \A n \in Manifests \ {m} : status'[n] = status[n]
    BY <1>6 DEF CancelManifest, Cancel, TypeOK
  <2>2. DayUnique' BY <2>1 DEF ReservationInv, DayUnique
  <2>3. status[m] \in {"OPEN", "CLOSED"}
    BY <1>6 DEF CancelManifest, Cancellable, CanTransition
  <2>4. ReservationRow(m)' BY <2>1, <2>3 DEF ReservationInv, ReservationRow
  <2>5. \A n \in Manifests \ {m} : ReservationRow(n)'
    BY <2>1 DEF ReservationInv, ReservationRow
  <2>6. QED BY <2>2, <2>4, <2>5 DEF ReservationInv
<1>7. ASSUME NEW m \in Manifests, NEW o \in Orders, NEW outcome \in DeliveryOutcome,
             RecordDelivery(m, o, outcome)
      PROVE  ReservationInv'
  <2>1. UNCHANGED <<reservation, reserved, manifest>> BY <1>7 DEF RecordDelivery, Record
  <2>2. \A n \in Manifests : status'[n] # status[n] =>
           status[n] # "CANCELLED" /\ status'[n] \in {"CLOSED", "COMPLETED"}
    BY <1>7 DEF RecordDelivery, Recordable, Record, CompleteIfDone, TypeOK
  <2>3. QED BY <2>1, <2>2, ReservationKept DEF NoReservationMoves
<1>8. QED BY <1>1, <1>2, <1>3, <1>4, <1>5, <1>6, <1>7, StepCases

\* No two trips own a vehicle's day, whether it was reserved when planned or on
\* departure, a departed trip owns one and a cancelled trip none.
THEOREM VehicleDaysOwned == Spec => []VehicleDayOwned
<1>1. Init => TypeOK /\ ReservationInv BY InitTypeOK, InitReservationInv
<1>2. TypeOK /\ ReservationInv /\ [Next]_vars => (TypeOK /\ ReservationInv)'
  BY NextTypeOK, NextReservationInv
<1>3. ReservationInv => VehicleDayOwned
  BY DEF ReservationInv, ReservationRow, DayUnique, VehicleDayOwned
<1>4. QED BY <1>1, <1>2, <1>3, PTL DEF Spec

----------------------------------------------------------------------------
(* The outbox.                                                             *)

TripTold(m) ==
    /\ <<"manifest.created", m>> \in outbox <=> status[m] # "NONE"
    /\ <<"manifest.departed", m>> \in outbox <=> departedOn[m] # 0
    /\ <<"manifest.cancelled", m>> \in outbox <=> status[m] = "CANCELLED"
    /\ <<"manifest.completed", m>> \in outbox <=> status[m] = "COMPLETED"
    /\ status[m] \in {"CLOSED", "DEPARTED", "COMPLETED"} => <<"manifest.closed", m>> \in outbox

StopTold(m, o) ==
    /\ <<"delivery.delivered", m, o>> \in outbox <=> delivery[<<m, o>>] = "DELIVERED"
    /\ <<"delivery.failed", m, o>> \in outbox <=> delivery[<<m, o>>] = "FAILED"

LEMMA InitOutbox == Init => OutboxMirrorsTrips
  BY DEF Init, OutboxMirrorsTrips

\* An event of a trip is not an event of a stop.
LEMMA EventsDiffer ==
    ASSUME NEW k, NEW m, NEW j, NEW n, NEW o
    PROVE  <<k, m>> # <<j, n, o>>
<1>1. Len(<<k, m>>) = 2 /\ Len(<<j, n, o>>) = 3 OBVIOUS
<1>2. QED BY <1>1

\* The events of a trip step leave what is said of other trips and of the stops.
LEMMA TripEventOnly ==
    ASSUME NEW m \in Manifests, NEW kind, outbox' = outbox \cup {<<kind, m>>}
    PROVE  /\ \A n \in Manifests \ {m} : \A k : <<k, n>> \in outbox' <=> <<k, n>> \in outbox
           /\ \A k : k # kind => (<<k, m>> \in outbox' <=> <<k, m>> \in outbox)
           /\ \A n \in Manifests, o \in Orders : \A k :
                 <<k, n, o>> \in outbox' <=> <<k, n, o>> \in outbox
  BY EventsDiffer

\* A step that writes the trip event kind of m and moves no stop's outcome.
LEMMA TripStepTold ==
    ASSUME TypeOK, OutboxMirrorsTrips, NEW m \in Manifests, NEW kind,
           outbox' = outbox \cup {<<kind, m>>}, TripTold(m)',
           \A n \in Manifests \ {m} : status'[n] = status[n] /\ departedOn'[n] = departedOn[n],
           \A n \in Manifests, o \in Orders :
              delivery'[<<n, o>>] # delivery[<<n, o>>] =>
                 /\ delivery[<<n, o>>] \notin {"DELIVERED", "FAILED"}
                 /\ delivery'[<<n, o>>] \notin {"DELIVERED", "FAILED"}
    PROVE  OutboxMirrorsTrips'
<1>1. ASSUME NEW n \in Manifests PROVE TripTold(n)'
  <2>1. TripTold(n) BY DEF OutboxMirrorsTrips, TripTold
  <2>2. CASE n # m
    <3>1. \A k : <<k, n>> \in outbox' <=> <<k, n>> \in outbox BY <2>2, TripEventOnly
    <3>2. QED BY <2>1, <2>2, <3>1 DEF TripTold
  <2>3. QED BY <2>2
<1>2. ASSUME NEW n \in Manifests, NEW o \in Orders PROVE StopTold(n, o)'
  <2>1. StopTold(n, o) BY DEF OutboxMirrorsTrips, StopTold
  <2>2. \A k : <<k, n, o>> \in outbox' <=> <<k, n, o>> \in outbox BY TripEventOnly
  <2>3. QED BY <2>1, <2>2 DEF StopTold
<1>3. QED BY <1>1, <1>2 DEF OutboxMirrorsTrips, TripTold, StopTold

LEMMA RecordTold ==
    ASSUME TypeOK, OutboxMirrorsTrips, NEW m \in Manifests, NEW o \in Orders,
           NEW outcome \in DeliveryOutcome, RecordDelivery(m, o, outcome)
    PROVE  OutboxMirrorsTrips'
<1> DEFINE done == OpenStops(m)' = {}
<1>1. /\ status[m] \in {"CLOSED", "DEPARTED"} /\ delivery[<<m, o>>] \in {"PENDING", "ARRIVED"}
      /\ departedOn' = departedOn
      /\ \A n \in Manifests : status'[n] = IF n = m /\ done THEN "COMPLETED" ELSE status[n]
  BY DEF RecordDelivery, Recordable, Record, CompleteIfDone, OpenStops, TypeOK
<1>2. \A n \in Manifests, p \in Orders :
         delivery'[<<n, p>>] = IF n = m /\ p = o THEN outcome ELSE delivery[<<n, p>>]
  BY DEF RecordDelivery, Record, TypeOK
<1>3. \A n \in Manifests : \A k :
         <<k, n>> \in outbox' <=> <<k, n>> \in outbox \/ (n = m /\ done /\ k = "manifest.completed")
  BY EventsDiffer DEF RecordDelivery, Record, CompleteIfDone, EventOf
<1>4. \A n \in Manifests, p \in Orders : \A k :
         <<k, n, p>> \in outbox' <=>
            \/ <<k, n, p>> \in outbox
            \/ /\ n = m /\ p = o
               /\ \/ outcome = "DELIVERED" /\ k = "delivery.delivered"
                  \/ outcome = "FAILED" /\ k = "delivery.failed"
  BY EventsDiffer DEF RecordDelivery, Record, CompleteIfDone, EventOf
<1> HIDE DEF done
<1>5. ASSUME NEW n \in Manifests PROVE TripTold(n)'
  <2>1. TripTold(n) BY DEF OutboxMirrorsTrips, TripTold
  <2>2. QED BY <1>1, <1>3, <2>1 DEF TripTold
<1>6. ASSUME NEW n \in Manifests, NEW p \in Orders PROVE StopTold(n, p)'
  <2>1. StopTold(n, p) BY DEF OutboxMirrorsTrips, StopTold
  <2>2. QED BY <1>1, <1>2, <1>4, <2>1 DEF StopTold
<1>7. QED BY <1>5, <1>6 DEF OutboxMirrorsTrips, TripTold, StopTold

LEMMA NextOutbox ==
    ASSUME TypeOK, AllocationInv, OutboxMirrorsTrips, [Next]_vars
    PROVE  OutboxMirrorsTrips'
<1>1. CASE Quiet
  BY <1>1 DEF Quiet, manifestVars, stopVars, OutboxMirrorsTrips
<1>2. ASSUME NEW m \in Manifests, NEW c \in Corridors, NEW v \in Vehicles,
             NEW planned \in 0..MaxDay, NEW S \in SUBSET Orders, Opened(m, c, v, planned, S)
      PROVE  OutboxMirrorsTrips'
  <2>1. /\ status[m] = "NONE" /\ status'[m] = "OPEN" /\ departedOn' = departedOn
        /\ \A n \in Manifests \ {m} : status'[n] = status[n]
        /\ outbox' = outbox \cup {<<"manifest.created", m>>}
    BY <1>2 DEF Opened, OpenManifest, Open, TypeOK
  <2>2. \A n \in Manifests, o \in Orders :
           delivery'[<<n, o>>] = IF n = m /\ o \in S THEN "PENDING" ELSE delivery[<<n, o>>]
    BY <1>2 DEF Opened, OpenManifest, Open, TypeOK
  <2>3. \A o \in Orders : delivery[<<m, o>>] = "NONE"
    BY <2>1 DEF AllocationInv, StopRows
  <2>4. TripTold(m)' BY <2>1, TripEventOnly DEF OutboxMirrorsTrips, TripTold
  <2>5. QED BY <2>1, <2>2, <2>3, <2>4, TripStepTold
<1>3. ASSUME NEW m \in Manifests, NEW o \in Orders, TakenOff(m, o) PROVE OutboxMirrorsTrips'
  <2>1. UNCHANGED <<status, departedOn, delivery, outbox>>
    BY <1>3 DEF TakenOff, CancelAllocatedOrder, RemoveOrder, Unload
  <2>2. QED BY <2>1 DEF OutboxMirrorsTrips
<1>4. ASSUME NEW m \in Manifests, CloseManifest(m) PROVE OutboxMirrorsTrips'
  <2>1. /\ status[m] = "OPEN" /\ status'[m] = "CLOSED" /\ UNCHANGED <<departedOn, delivery>>
        /\ \A n \in Manifests \ {m} : status'[n] = status[n]
        /\ outbox' = outbox \cup {<<"manifest.closed", m>>}
    BY <1>4 DEF CloseManifest, Closable, Close, stopVars, TypeOK
  <2>2. TripTold(m)' BY <2>1, TripEventOnly DEF OutboxMirrorsTrips, TripTold
  <2>3. QED BY <2>1, <2>2, TripStepTold
<1>5. ASSUME NEW m \in Manifests, DepartManifest(m) PROVE OutboxMirrorsTrips'
  <2>1. /\ status[m] = "CLOSED" /\ status'[m] = "DEPARTED" /\ delivery' = delivery
        /\ departedOn'[m] = today /\ today # 0
        /\ \A n \in Manifests \ {m} : status'[n] = status[n] /\ departedOn'[n] = departedOn[n]
        /\ outbox' = outbox \cup {<<"manifest.departed", m>>}
    BY <1>5, Settings DEF DepartManifest, Departable, Depart, CanTransition, stopVars, TypeOK, Day
  <2>2. TripTold(m)' BY <2>1, TripEventOnly DEF OutboxMirrorsTrips, TripTold
  <2>3. QED BY <2>1, <2>2, TripStepTold
<1>6. ASSUME NEW m \in Manifests, CancelManifest(m) PROVE OutboxMirrorsTrips'
  <2>1. /\ status[m] \in {"OPEN", "CLOSED"} /\ status'[m] = "CANCELLED"
        /\ UNCHANGED <<departedOn, delivery>>
        /\ \A n \in Manifests \ {m} : status'[n] = status[n]
        /\ outbox' = outbox \cup {<<"manifest.cancelled", m>>}
    BY <1>6 DEF CancelManifest, Cancellable, CanTransition, Cancel, TypeOK
  <2>2. TripTold(m)' BY <2>1, TripEventOnly DEF OutboxMirrorsTrips, TripTold
  <2>3. QED BY <2>1, <2>2, TripStepTold
<1>7. ASSUME NEW m \in Manifests, NEW o \in Orders, NEW outcome \in DeliveryOutcome,
             RecordDelivery(m, o, outcome)
      PROVE  OutboxMirrorsTrips'
  BY <1>7, RecordTold
<1>8. QED BY <1>1, <1>2, <1>3, <1>4, <1>5, <1>6, <1>7, StepCases

\* Consumers of the outbox learn of every creation, departure, cancellation,
\* completion and outcome that was committed, and of no other; a stop's events are
\* right because a manifest that does not exist has no stops.
THEOREM OutboxTellsTheTrip == Spec => []OutboxMirrorsTrips
<1>1. Init => TypeOK /\ AllocationInv /\ OutboxMirrorsTrips
  BY InitTypeOK, InitAllocationInv, InitOutbox
<1>2. TypeOK /\ AllocationInv /\ OutboxMirrorsTrips /\ [Next]_vars
         => (TypeOK /\ AllocationInv /\ OutboxMirrorsTrips)'
  BY NextTypeOK, NextAllocationInv, NextOutbox
<1>3. QED BY <1>1, <1>2, PTL DEF Spec

----------------------------------------------------------------------------
(* The status table.                                                       *)

\* What a status says of the day of departure.
DepartureDated ==
    \A m \in Manifests :
        /\ status[m] \in {"NONE", "OPEN", "CLOSED"} => departedOn[m] = 0
        /\ status[m] = "DEPARTED" => departedOn[m] # 0

\* The moves that the table of canTransitionManifest leaves out but recordDelivery
\* makes: the last stop of a closed trip is recorded before the trip has departed.
CompletesAtTheDepot(m) ==
    /\ status[m] = "CLOSED" /\ status'[m] = "COMPLETED"
    /\ OpenStops(m) # {} /\ OpenStops(m)' = {}
    /\ departedOn'[m] = 0

TransitionsButOne ==
    [][\A m \in Manifests : status[m] # "NONE" /\ status'[m] # status[m]
          => CanTransition(status[m], status'[m]) \/ CompletesAtTheDepot(m)]_vars

LEMMA NextStatus ==
    ASSUME TypeOK, DepartureDated, [Next]_vars
    PROVE  /\ DepartureDated'
           /\ \A m \in Manifests : status[m] # "NONE" /\ status'[m] # status[m]
                 => CanTransition(status[m], status'[m]) \/ CompletesAtTheDepot(m)
<1> DEFINE Moves == \A m \in Manifests : status[m] # "NONE" /\ status'[m] # status[m]
                       => CanTransition(status[m], status'[m]) \/ CompletesAtTheDepot(m)
<1>1. CASE Quiet BY <1>1 DEF Quiet, manifestVars, DepartureDated
<1>2. ASSUME NEW m \in Manifests, NEW c \in Corridors, NEW v \in Vehicles,
             NEW planned \in 0..MaxDay, NEW S \in SUBSET Orders, Opened(m, c, v, planned, S)
      PROVE  DepartureDated' /\ Moves
  BY <1>2 DEF Opened, OpenManifest, Open, DepartureDated, TypeOK
<1>3. ASSUME NEW m \in Manifests, NEW o \in Orders, TakenOff(m, o)
      PROVE  DepartureDated' /\ Moves
  BY <1>3 DEF TakenOff, CancelAllocatedOrder, RemoveOrder, Unload, DepartureDated
<1>4. ASSUME NEW m \in Manifests, CloseManifest(m) PROVE DepartureDated' /\ Moves
  BY <1>4 DEF CloseManifest, Closable, Close, DepartureDated, TypeOK, CanTransition
<1>5. ASSUME NEW m \in Manifests, DepartManifest(m) PROVE DepartureDated' /\ Moves
  <2>1. today # 0 BY Settings DEF TypeOK, Day
  <2>2. QED BY <1>5, <2>1 DEF DepartManifest, Departable, Depart, DepartureDated, TypeOK, CanTransition
<1>6. ASSUME NEW m \in Manifests, CancelManifest(m) PROVE DepartureDated' /\ Moves
  BY <1>6 DEF CancelManifest, Cancellable, Cancel, DepartureDated, TypeOK, CanTransition
<1>7. ASSUME NEW m \in Manifests, NEW o \in Orders, NEW outcome \in DeliveryOutcome,
             RecordDelivery(m, o, outcome)
      PROVE  DepartureDated' /\ Moves
  <2>1. /\ status[m] \in {"CLOSED", "DEPARTED"} /\ OpenStops(m) # {} /\ departedOn' = departedOn
    BY <1>7 DEF RecordDelivery, Recordable, Record
  <2>2. \/ status' = status
        \/ status' = [status EXCEPT ![m] = "COMPLETED"] /\ OpenStops(m)' = {}
    BY <1>7 DEF RecordDelivery, Record, CompleteIfDone
  <2>3. QED BY <2>1, <2>2 DEF DepartureDated, CompletesAtTheDepot, CanTransition, TypeOK
<1>8. QED BY <1>1, <1>2, <1>3, <1>4, <1>5, <1>6, <1>7, StepCases

\* A manifest's status moves along the table of canTransitionManifest, but for a
\* closed trip that is completed by its last recorded stop and never departs.
THEOREM OnlyDepartureIsSkipped == Spec => []DepartureDated /\ TransitionsButOne
<1>1. Init => TypeOK /\ DepartureDated BY InitTypeOK DEF Init, DepartureDated
<1>2. TypeOK /\ DepartureDated /\ [Next]_vars => (TypeOK /\ DepartureDated)'
  BY NextTypeOK, NextStatus
<1>3. TypeOK /\ DepartureDated /\ [Next]_vars
        => [\A m \in Manifests : status[m] # "NONE" /\ status'[m] # status[m]
               => CanTransition(status[m], status'[m]) \/ CompletesAtTheDepot(m)]_vars
  BY NextStatus
<1>4. QED BY <1>1, <1>2, <1>3, PTL DEF Spec, TransitionsButOne
=============================================================================
