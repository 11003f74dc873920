------------------------ MODULE MCFulfillmentDispatch ------------------------
(***************************************************************************)
(* Small instances of FulfillmentDispatch for TLC.                         *)
(***************************************************************************)
EXTENDS FulfillmentDispatch, TLC

CONSTANTS o1, o2, o3, m1, m2, m3, v1, v2, c1, c2, s1, s2

AllInOneShop == [o \in Orders |-> s1]
AgeInOrder == [o \in Orders |-> IF o = o1 THEN 1 ELSE IF o = o2 THEN 2 ELSE 3]
Grams == [o \in Orders |-> IF o = o3 THEN 1 ELSE 2]
EachAGram == [o \in Orders |-> 1]
TwoShops == [o \in Orders |-> IF o = o1 THEN s1 ELSE s2]

ManifestSymmetry == Permutations(Manifests)
=============================================================================
