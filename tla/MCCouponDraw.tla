---------------------------- MODULE MCCouponDraw ----------------------------
(* Model values for the TLC runs of CouponDraw. *)
EXTENDS CouponDraw

CONSTANTS w1, w2, u1, u2

OneWorker == {w1}
TwoWorkers == {w1, w2}
OneUser == {u1}
TwoUsers == {u1, u2}
BothScenes == {"issue", "export"}
ExportScene == {"export"}

\* One draw per user is enough to race for in scene "export"; a list of codes
\* is only evicted from after two.
TwoOrOne == [issue |-> 2, export |-> 1]
TwoEach == [issue |-> 2, export |-> 2]

=============================================================================
