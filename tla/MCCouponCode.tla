---------------------------- MODULE MCCouponCode ----------------------------
(* Samples for CouponCode: ids on both sides of every change of width and of  *)
(* the two limits, the ends of the random ranges, and words no server makes.  *)
EXTENDS CouponCode

MCGroupIds  == {0, 25, 26, 675, 676, 17575, 17576, 300000, 300001}
MCCouponIds == {0, 6, 7, 175, 176, 4569, 4570, 118813, 118814,
                3089157, 3089158, 10000000, 10000001}
MCNoise     == {0, 57, 75, 99}

Repeat(letter, len) == [j \in 1 .. len |-> letter]

(* the ends of the alphabet, and letters that are sentries elsewhere          *)
MCFillers == { [j \in 2 .. 7 |-> 0], [j \in 2 .. 7 |-> 25], [j \in 2 .. 7 |-> 18 + j] }

(* too short, too long, not a letter, a group beyond the limit, a coupon      *)
(* beyond the limit ('f' first, which is 5 * 26^6), zeros in front.           *)
MCTyped ==
    { <<>>, Repeat(0, 10), Repeat(0, 12), Repeat(26, 11), Repeat(-1, 8),
      Repeat(19, 8),
      [Repeat(0, 11) EXCEPT ![1] = 19],
      [Repeat(0, 11) EXCEPT ![5] = 5],
      [Repeat(0, 11) EXCEPT ![11] = 1] }

=============================================================================
