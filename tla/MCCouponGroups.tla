-------------------------- MODULE MCCouponGroups --------------------------
(* Instances of CouponGroups for TLC.                                       *)
EXTENDS CouponGroups, TLC

Symmetry == Permutations(Groups) \cup Permutations(Editors)
===========================================================================
