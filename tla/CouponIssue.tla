---------------------------- MODULE CouponIssue ----------------------------
(***************************************************************************)
(* What issuing coupons of one group promises: a coupon is given to one    *)
(* user and stays his, at most Limit coupons are given out, and at most    *)
(* PerUser of them reach the wallet of one user.  Giving out a coupon and  *)
(* putting it into the wallet are two steps, and the second may never      *)
(* come.                                                                   *)
(***************************************************************************)
EXTENDS Integers, FiniteSets

CONSTANTS Coupons, Users, Limit, PerUser

VARIABLES
  owner,   \* owner[c] = the user a given-out coupon belongs to
  wallet   \* the coupons their owners can see and use

Init == owner = << >> /\ wallet = {}

Owned(u) == {c \in wallet : owner[c] = u}

Issue(c, u) ==
  /\ c \notin DOMAIN owner
  /\ Cardinality(DOMAIN owner) < Limit
  /\ owner' = [d \in DOMAIN owner \cup {c} |-> IF d = c THEN u ELSE owner[d]]
  /\ UNCHANGED wallet

Deposit(c) ==
  /\ c \in DOMAIN owner \ wallet
  /\ Cardinality(Owned(owner[c])) < PerUser
  /\ wallet' = wallet \cup {c}
  /\ UNCHANGED owner

Next ==
  \/ \E c \in Coupons, u \in Users : Issue(c, u)
  \/ \E c \in DOMAIN owner : Deposit(c)

Spec == Init /\ [][Next]_<<owner, wallet>>

=============================================================================
