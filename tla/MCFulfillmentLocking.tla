------------------------- MODULE MCFulfillmentLocking -------------------------
(***************************************************************************)
(* Small instances of FulfillmentLocking: the calls start from a state of  *)
(* FulfillmentDispatch in which one trip is loaded and orders wait.        *)
(***************************************************************************)
EXTENDS FulfillmentLocking

CONSTANTS o1, o2, o3, o4, m0, m1, m2, m3, v1, c1, c2, s1, p1, p2, p3

Ids == [p \in Callers |-> IF p = p1 THEN m1 ELSE IF p = p2 THEN m2 ELSE m3]
AllInOneShop == [o \in Orders |-> s1]
AgeInOrder == [o \in Orders |-> IF o = o1 THEN 1 ELSE IF o = o2 THEN 2 ELSE IF o = o3 THEN 3 ELSE 4]
EachAGram == [o \in Orders |-> 1]
RowIds == [x \in Corridors \cup Orders |->
              IF x = c1 THEN 1 ELSE IF x = c2 THEN 2 ELSE IF x \in Orders THEN 5 - Age[x] ELSE 0]

Waiting(c) == [corridor |-> c, version |-> 1, location |-> 1]

OnTrip(op) == [op |-> op, manifest |-> m0]
Removing(o) == [op |-> "remove", manifest |-> m0, order |-> o]
Recording(o, x) == [op |-> "record", manifest |-> m0, order |-> o, outcome |-> x]
Creating(c, planned) ==
    [op |-> "create", corridor |-> c, vehicle |-> v1, planned |-> planned,
     automatic |-> TRUE, orders |-> {}]
CreatingOf(c, S) ==
    [op |-> "create", corridor |-> c, vehicle |-> v1, planned |-> 0,
     automatic |-> FALSE, orders |-> S]
Releasing(o, state) == [op |-> "release", order |-> o, state |-> state]
Resolving(o, c, automatic) ==
    [op |-> "resolve", order |-> o, corridor |-> c, automatic |-> automatic]
Editing(c) == [op |-> "corridor", corridor |-> c, on |-> FALSE]
Redrawing(c) == [op |-> "geometry", corridor |-> c]
Retiring(v) == [op |-> "vehicle", vehicle |-> v, patch |-> "active", on |-> FALSE]
Resizing(v, grams) == [op |-> "vehicle", vehicle |-> v, patch |-> "capacity", grams |-> grams]

TripRequests ==
    <<OnTrip("close"), OnTrip("depart"), OnTrip("cancel"), Removing(o3),
      Recording(o3, "DELIVERED"), Recording(o4, "FAILED"), Releasing(o3, "CANCELLED")>>
PoolRequests ==
    <<Creating(c1, 1), Creating(c2, 0), CreatingOf(c1, {o1}), CreatingOf(c2, {o3, o4}),
      Releasing(o1, "CANCELLED"), Releasing(o1, "ORPHANED"), [op |-> "intake", order |-> o2],
      Resolving(o2, c1, TRUE), Resolving(o1, c2, FALSE)>>
SetupRequests == <<Editing(c1), Redrawing(c1), Retiring(v1), Resizing(v1, 1)>>
Listed == TripRequests \o PoolRequests \o SetupRequests
EveryRequest == {Listed[i] : i \in DOMAIN Listed}

\* The calls that are waited for in a cycle lock rows of one trip.
OrderRequests ==
    <<OnTrip("cancel"), OnTrip("depart"), Removing(o3), Releasing(o3, "CANCELLED"),
      CreatingOf(c2, {o3, o4}), Resolving(o1, c2, FALSE)>>

Begun(r, attempt) == [NoCall EXCEPT !.request = r, !.step = "reading", !.attempt = attempt]
Absent == [NoCall EXCEPT !.step = "refused"]
AreAdmitted == \A p \in Callers : call[p].step = "reading" => Admitted(call[p].request)

\* One call from its beginning.
SingleInit == call = [p \in Callers |-> IF p = p1 THEN NoCall ELSE Absent]

\* Two calls with all their attempts.  A call that has begun may take its first step
\* whenever it likes, and which caller asks for what makes no difference.
PairInit == \E i, j \in DOMAIN Listed :
    /\ i <= j
    /\ call = [p \in Callers |-> IF p = p1 THEN Begun(Listed[i], 1)
                                ELSE IF p = p2 THEN Begun(Listed[j], 1) ELSE Absent]
    /\ AreAdmitted

\* Three different calls in their last attempt; they do not touch o2, nor tell whether
\* the invoice of o1 is lost.
TripleInit == \E i, j, k \in DOMAIN OrderRequests :
    /\ orderState[o2] = "POOLED" /\ invoices = Orders
    /\ i < j /\ j < k
    /\ call = [p \in Callers |->
            Begun(OrderRequests[IF p = p1 THEN i ELSE IF p = p2 THEN j ELSE k], MaxAttempts)]

\* o1 waits on c1; o2 waits on c2 or has no row yet; o3 and o4 are aboard m0, open
\* or closed; the invoice of o1 may be lost.
LoadedInit ==
    /\ \E waits \in BOOLEAN :
          /\ orderState = [o \in Orders |->
                IF o \in {o3, o4} THEN "ALLOCATED"
                ELSE IF o = o1 \/ waits THEN "POOLED" ELSE "NONE"]
          /\ resolution = [o \in Orders |->
                IF o # o2 THEN Waiting(c1) ELSE IF waits THEN Waiting(c2) ELSE Unassigned]
    /\ invoices \in {Orders, Orders \ {o1}}
    /\ active = Corridors \cup Vehicles
    /\ geometry = [c \in Corridors |-> 1]
    /\ location = [s \in Shops |-> 1]
    /\ capacity = [v \in Vehicles |-> 2]
    /\ status \in {[m \in Manifests |-> IF m = m0 THEN s ELSE "NONE"] : s \in {"OPEN", "CLOSED"}}
    /\ manifest = [m \in Manifests |-> IF m = m0 THEN HeaderOf(c1, v1, 0) ELSE NoHeader]
    /\ total = [m \in Manifests |-> IF m = m0 THEN 2 ELSE 0]
    /\ departedOn = [m \in Manifests |-> 0]
    /\ allocated = {m0} \X {o3, o4}
    /\ delivery = [s \in Manifests \X Orders |-> IF s \in allocated THEN "PENDING" ELSE "NONE"]
    /\ released = [s \in Manifests \X Orders |-> "NONE"]
    /\ reservation = [m \in Manifests |-> NoReservation]
    /\ reserved = {}
    /\ outbox = {<<"manifest.created", m0>>} \cup
                (IF status[m0] = "CLOSED" THEN {<<"manifest.closed", m0>>} ELSE {})
    /\ today = 1
    /\ SingleInit \/ PairInit \/ TripleInit

LoadedSpec == LoadedInit /\ [][LockingNext]_lockingVars /\ Fairness
=============================================================================
