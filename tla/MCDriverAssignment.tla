------------------------- MODULE MCDriverAssignment ------------------------
(***************************************************************************)
(* A small business for TLC: a founder, somebody with a phone and an       *)
(* email, and somebody with a phone.                                       *)
(***************************************************************************)
EXTENDS DriverAssignment, TLC

CONSTANTS boss, ann, ben, phoneA, emailA, phoneB, t1, t2, p1, p2

Holders == (phoneA :> ann) @@ (emailA :> ann) @@ (phoneB :> ben)
=============================================================================
