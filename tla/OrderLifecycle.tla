--------------------------- MODULE OrderLifecycle ---------------------------
(***************************************************************************)
(* What fulfillment promises about one order, whichever operation moves it *)
(* and whatever the in-memory store loses: an order enters the pool once,  *)
(* is loaded from it on an open trip, goes with that trip, returns to the  *)
(* pool, and leaves for good when it is delivered, cancelled or found      *)
(* orphaned.  It is handed over, or its delivery fails, only when its trip *)
(* has closed, and cancelled only before.                                  *)
(***************************************************************************)
CONSTANT Orders
VARIABLES
    state,   \* [Orders -> a state of fulfillment_orders]
    trip     \* [Orders -> the status of the trip the order is on, or "NONE"]

In(s) == {o \in Orders : state[o] = s}
On(t) == {o \in Orders : trip[o] = t}

Move(S, s, t) ==
    /\ state' = [o \in Orders |-> IF o \in S THEN s ELSE state[o]]
    /\ trip' = [o \in Orders |-> IF o \in S THEN t ELSE trip[o]]

Pool(o) == o \in In("NONE") /\ Move({o}, "POOLED", "NONE")
Load(S) == S \subseteq In("POOLED") /\ Move(S, "ALLOCATED", "OPEN")
Close(S) == S \subseteq On("OPEN") /\ Move(S, "ALLOCATED", "CLOSED")
Depart(S) == S \subseteq On("CLOSED") /\ Move(S, "ALLOCATED", "DEPARTED")
Return(S) == S \subseteq On("OPEN") \cup On("CLOSED") /\ Move(S, "POOLED", "NONE")
Fail(o) == o \in On("CLOSED") \cup On("DEPARTED") /\ Move({o}, "POOLED", "NONE")
Deliver(o) == o \in On("CLOSED") \cup On("DEPARTED") /\ Move({o}, "DELIVERED", "NONE")
Cancel(o) == o \in In("POOLED") \cup On("OPEN") /\ Move({o}, "CANCELLED", "NONE")
Orphan(o) == o \in In("POOLED") /\ Move({o}, "ORPHANED", "NONE")

Init ==
    /\ state \in [Orders -> {"NONE", "POOLED"}]
    /\ trip = [o \in Orders |-> "NONE"]

Next ==
    \/ \E o \in Orders : Pool(o) \/ Deliver(o) \/ Fail(o) \/ Cancel(o) \/ Orphan(o)
    \/ \E S \in SUBSET Orders : Load(S) \/ Close(S) \/ Depart(S) \/ Return(S)

Spec == Init /\ [][Next]_<<state, trip>>
=============================================================================
