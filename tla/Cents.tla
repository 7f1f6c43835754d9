------------------------------- MODULE Cents -------------------------------
(***************************************************************************)
(* Amounts of money.  The servers compute with doubles and round to two    *)
(* places; here an amount is an integer, in cents.  A quotient that lies   *)
(* exactly between two cents may come out on either side of the tie in a   *)
(* double, so a module that rounds chooses the side.                       *)
(***************************************************************************)
EXTENDS Integers, FiniteSetsExt

Sum(f, S) == MapThenSumSet(LAMBDA x : f[x], S)

Magnitude(d) == IF d < 0 THEN -d ELSE d

\* n / d lies between two cents.
Tie(n, d) == (2 * n + d) % (2 * d) = 0

\* n / d rounded to a cent; down says which way a tie goes.
RoundTo(n, d, down) ==
  IF Tie(n, d) /\ down THEN (2 * n + d) \div (2 * d) - 1 ELSE (2 * n + d) \div (2 * d)

=============================================================================
