----------------------------- MODULE BatchQueue -----------------------------
(***************************************************************************)
(* What a batch server promises of the requests that are put into its      *)
(* list: they are worked on one after the other, in the order in which     *)
(* they came, and of each one the items are done in order and at most      *)
(* once.  A request may be left before its last item, and then it is never *)
(* taken up again.                                                         *)
(***************************************************************************)
EXTENDS Integers, Sequences

CONSTANT Requests

VARIABLES
  size,       \* size[r] = number of items that r asks for
  accepted,   \* all requests that were put into the list
  taken,      \* how many of them were taken out
  open,       \* is the last one taken being worked on?
  work        \* the items done, each <<request, number>>

vars == <<size, accepted, taken, open, work>>

Init ==
  /\ size \in [Requests -> Int]
  /\ accepted = << >> /\ taken = 0 /\ open = FALSE /\ work = << >>

Accept(r) ==
  /\ \A i \in DOMAIN accepted : accepted[i] # r
  /\ accepted' = Append(accepted, r)
  /\ UNCHANGED <<size, taken, open, work>>

Take ==
  /\ ~open
  /\ taken < Len(accepted)
  /\ taken' = taken + 1
  /\ open' = TRUE
  /\ UNCHANGED <<size, accepted, work>>

\* An item of the open request: items may be passed over, but not repeated.
Do ==
  /\ open
  /\ \E i \in 1..size[accepted[taken]] :
       /\ \A k \in DOMAIN work : work[k][1] = accepted[taken] => work[k][2] < i
       /\ work' = Append(work, <<accepted[taken], i>>)
  /\ open' \in BOOLEAN
  /\ UNCHANGED <<size, accepted, taken>>

\* The request is left.
Close ==
  /\ open
  /\ open' = FALSE
  /\ UNCHANGED <<size, accepted, taken, work>>

Next ==
  \/ \E r \in Requests : Accept(r)
  \/ Take
  \/ Do
  \/ Close

Spec == Init /\ [][Next]_vars

=============================================================================
