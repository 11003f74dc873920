------------------------ MODULE MCFulfillmentIntake ------------------------
(***************************************************************************)
(* Small instances of FulfillmentIntake for TLC.                           *)
(***************************************************************************)
EXTENDS FulfillmentIntake

CONSTANTS o1, o2

SentOut == {<<o1, "out_for_delivery">>}
=============================================================================
