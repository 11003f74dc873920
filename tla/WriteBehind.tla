------------------------------ MODULE WriteBehind ------------------------------
(***************************************************************************)
(* What the asynchronous persistence of the in-memory store promises: the  *)
(* database lags behind memory, but it only ever holds the whole content   *)
(* memory had at one instant, instants never go backwards, and a restart   *)
(* continues from what is stored.                                          *)
(***************************************************************************)
CONSTANT Contents

VARIABLES memory, copy, disk

contents == <<memory, copy, disk>>

Init == memory \in Contents /\ copy = memory /\ disk = memory

\* A store method changes memory.
Mutate == memory' \in Contents /\ UNCHANGED <<copy, disk>>

\* The next content to store is what memory holds now.
Take == copy' = memory /\ UNCHANGED <<memory, disk>>

\* The copy is stored as a whole or not at all.
Store == disk' = copy /\ UNCHANGED <<memory, copy>>

\* The process dies and boots from what is stored.
Restart == memory' = disk /\ copy' = disk /\ UNCHANGED disk

Next == Mutate \/ Take \/ Store \/ Restart

Spec == Init /\ [][Next]_contents
=============================================================================
