---------------------------- MODULE CouponLedger ----------------------------
(***************************************************************************)
(* What using a coupon promises: a drawn coupon is frozen by one order,    *)
(* which then pays with it for good or gives it back; once the time to use *)
(* it has passed it comes back expired.  An operation that fails half way  *)
(* may lose the coupon: nobody can use it any more.                        *)
(***************************************************************************)
CONSTANTS
  Coupons,
  Orders,
  None      \* no order

VARIABLES
  state,    \* state[c] = [status, order]
  late      \* has the time to use the coupons passed?

Is(c, status, o) == state[c] = [status |-> status, order |-> o]
Becomes(c, status, o) ==
  /\ state' = [state EXCEPT ![c] = [status |-> status, order |-> o]]
  /\ UNCHANGED late

Init ==
  /\ state = [c \in Coupons |-> [status |-> "DRAWN", order |-> None]]
  /\ late = FALSE

Freeze(c, o) == Is(c, "DRAWN", None) /\ Becomes(c, "FROZEN", o)
Pay(c, o) == Is(c, "FROZEN", o) /\ Becomes(c, "PAYED", o)
Rollback(c, o) ==
  /\ Is(c, "FROZEN", o)
  /\ \/ Becomes(c, "DRAWN", None)
     \/ late /\ Becomes(c, "EXPIRED", None)

\* Only an operation on the coupon can lose it: a payed or expired coupon has none.
Lose(c) ==
  /\ state[c].status \in {"DRAWN", "FROZEN"}
  /\ Becomes(c, "LOST", None)

Late == ~late /\ late' = TRUE /\ UNCHANGED state

Next ==
  \/ \E c \in Coupons, o \in Orders : Freeze(c, o) \/ Pay(c, o) \/ Rollback(c, o)
  \/ \E c \in Coupons : Lose(c)
  \/ Late

Spec == Init /\ [][Next]_<<state, late>>

=============================================================================
