------------------------ MODULE MCCouponApportion ------------------------
(* Instances of CouponApportion for TLC: an order of three skus, two of     *)
(* seller 1 (wares 1 and 2) and one of seller 2 (ware 2 again).             *)
EXTENDS CouponApportion, TLC

MCSellerOf == <<1, 1, 2>>
MCWareOf == <<1, 2, 2>>

Coupon(scope, shop, sub, wares, full, favor) ==
  [scope_type |-> scope, seller_id |-> shop, sub_type |-> sub, wares |-> wares,
   favor_type |-> 0, full |-> full, favor |-> favor, when |-> "open",
   drawn |-> "lately"]
Plat(sub, wares, full, favor) == Coupon(0, 0, sub, wares, full, favor)
Shop(s, sub, wares, full, favor) == Coupon(1, s, sub, wares, full, favor)

\* Coupons that round in every direction, that ask for all a seller sells or for
\* more, and that are early, void, a rate, for wares elsewhere, or drawn over a
\* year ago.
MCOffers ==
  {Plat(2, {}, 3, 2), Plat(0, {2}, 101, 99), Plat(0, {3}, 1, 1), Plat(2, {}, 1000, 1),
   [Plat(1, {1}, 2, 1) EXCEPT !.when = "early"],
   [Plat(2, {}, 1, 1) EXCEPT !.favor_type = 1],
   [Plat(2, {}, 2, 2) EXCEPT !.drawn = "longAgo"],
   Plat(2, {}, 9, 10),
   Shop(1, 2, {}, 101, 50), Shop(1, 0, {2}, 100, 100),
   Shop(2, 2, {}, 3, 3)}

Symmetry == Permutations(Codes)
==========================================================================
