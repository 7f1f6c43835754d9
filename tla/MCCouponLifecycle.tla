-------------------------- MODULE MCCouponLifecycle --------------------------
(***************************************************************************)
(* Scenes of CouponLifecycle: requests one at a time, with every operation *)
(* and every coupon in the cached code list; and two workers at once, with *)
(* a list that later draws may have emptied.                               *)
(***************************************************************************)
EXTENDS CouponLifecycle, SequencesExt

CompleteLists == SetToSeqs(Coupons)

Serial == [serial |-> TRUE, requests |-> Operations \cup DOMAIN Category,
           lists |-> CompleteLists, max_version |-> 2, max_faults |-> 2]
Workers2 == [serial |-> FALSE, requests |-> Operations,
             lists |-> {<< >>} \cup CompleteLists, max_version |-> 1, max_faults |-> 1]
Freezers == [serial |-> FALSE, requests |-> {"freeze"},
             lists |-> CompleteLists, max_version |-> 1, max_faults |-> 0]

AllScenes == {Serial, Workers2}
FreezeScene == {Freezers}

WorkerSymmetry == Permutations(Workers)

=============================================================================
