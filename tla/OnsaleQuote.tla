---------------------------- MODULE OnsaleQuote ----------------------------
(***************************************************************************)
(* What the running on-sale activities take off an order: the EC server's  *)
(* getUsableOnsaleGroups finds the activity of every sku and the step of   *)
(* it that the order reaches, getApportion divides the discount over the   *)
(* skus.                                                                   *)
(*                                                                         *)
(* The handlers only read, each table once, so what they see is any        *)
(* combination of rows; the admin's changes between the selects add none.  *)
(* Presents are left out, and so are skus that cost nothing: an activity   *)
(* all of whose skus do divides by zero.  Steps are chosen and favors      *)
(* counted for every running activity that has steps, also for one none of *)
(* whose wares is in the order because another label took them: the amount *)
(* it has sold is then 0.                                                  *)
(***************************************************************************)
EXTENDS Cents, FiniteSets

CONSTANTS
  Skus,       \* the skus of the order, in the order of the sets of sku ids
  WareOf,     \* WareOf[k] = the ware of sku k
  Orders,     \* orders: [sale, count], what each sku costs in all, and how many
  Groups,     \* ids of the activities
  Deals,      \* what an activity may be: [label, favor_type, running]
  Filings,    \* what ware_label_wares may hold of the last 365 days: pairs <<label, ware>>
  Ladders,    \* the sets of steps an activity may have
  None

\* A step: reached from full_credit or full_count on, it takes off favor_credit or
\* leaves favor_rate percent to pay (a tenth of the rate in the code).
FavorStep == [full_credit : Nat, full_count : Nat, favor_credit : Nat, favor_rate : Nat]

ASSUME QuoteAssumption ==
  /\ Skus \subseteq Nat /\ IsFiniteSet(Skus) /\ IsFiniteSet(Groups)
  /\ DOMAIN WareOf = Skus
  /\ \A o \in Orders : /\ o.sale \in [Skus -> Nat \ {0}]
                       /\ o.count \in [Skus -> Nat \ {0}]
  /\ Deals \subseteq [label : Nat, favor_type : 0..5, running : BOOLEAN]
  /\ \A s \in UNION Ladders : s \in FavorStep
  /\ None \notin Groups /\ None \notin UNION Ladders

VARIABLES
  order,     \* the order asked for
  deal,      \* deal[g] = activity g
  filed,     \* the labels of the wares
  ladder,    \* ladder[g] = the steps of activity g
  stage,
  answer,
  group,     \* group[k] = the activity of sku k, or None
  curr,      \* curr[g] = the step the order reaches, or None
  next,      \* next[g] = the step above it, or None
  favor,     \* favor[g] = what activity g takes off
  total,     \* price of the order: [pay, favor]
  price      \* price[k] = price of sku k

data == <<order, deal, filed, ladder>>
quoteVars == <<data, stage, answer, group, curr, next, favor, total, price>>

\* Mutants: definitions below with a bug a change could bring in.
Share_OfOrder(g, k, down) ==
  RoundTo(order.sale[k] * favor[g], Sum(order.sale, Skus), down)
Rest_Dropped(g, share) == 0

-----------------------------------------------------------------------------
(* The activity of a sku. *)

WaresOrdered == {WareOf[k] : k \in Skus}

\* The rows of the order's wares.
Labelled == {r \in filed : r[2] \in WaresOrdered}

\* The approved activities of those labels that run now.
Running == {g \in Groups : deal[g].running /\ \E r \in Labelled : r[1] = deal[g].label}
Valid == {deal[g].label : g \in Running}

\* Of a ware's valid labels the largest counts.
LabelsOfSku(k) == {l \in Valid : <<l, WareOf[k]>> \in Labelled}

\* Activities of one label: the one the select returns last counts.
Owners == {own \in [Valid -> Running] : \A l \in Valid : deal[own[l]].label = l}

Bought(g) == {k \in Skus : group[k] = g}
Taking == {g \in Groups : Bought(g) # {}}

TotalSalePrice(g) == Sum(order.sale, Bought(g))
TotalCount(g) == Sum(order.count, Bought(g))

-----------------------------------------------------------------------------
(* The step the order reaches. *)

\* Types 0 to 2 count money, 3 to 5 pieces.
ByCredit(g) == deal[g].favor_type \in 0..2
Full(g, s) == IF ByCredit(g) THEN s.full_credit ELSE s.full_count
Amount(g) == IF ByCredit(g) THEN TotalSalePrice(g) ELSE TotalCount(g)

Reached(g, amount) == {s \in ladder[g] : Full(g, s) <= amount}
Highest(g, S) == {s \in S : \A t \in S : Full(g, t) <= Full(g, s)}
Lowest(g, S) == {s \in S : \A t \in S : Full(g, s) <= Full(g, t)}

\* The steps are sorted by full, downwards; the first one reached applies, the
\* one before it is next, the last one if none is reached.  Equal ones are in
\* any order.
CurrSteps(g) ==
  IF Reached(g, Amount(g)) = {} THEN {None} ELSE Highest(g, Reached(g, Amount(g)))

\* A mutant of NextSteps.
NextSteps_Top(g) ==
  LET above == ladder[g] \ Reached(g, Amount(g))
  IN  IF above = {} THEN {None} ELSE Highest(g, above)

NextSteps(g) ==
  LET above == ladder[g] \ Reached(g, Amount(g))
  IN  IF above = {} THEN {None} ELSE Lowest(g, above)

\* A rate above ten, and with it the whole request, is refused.
WrongRate(g) ==
  /\ curr'[g] # None
  /\ deal[g].favor_type = 1
  /\ curr'[g].favor_rate > 100

\* What the reached step takes off; only types 0 and 1 take off anything.
Cut(g) == TotalSalePrice(g) * (100 - curr'[g].favor_rate)
TotalFavorPrice(g, down) ==
  IF curr'[g] = None THEN 0
  ELSE CASE deal[g].favor_type = 0 -> curr'[g].favor_credit
         [] deal[g].favor_type = 1 -> RoundTo(Cut(g), 100, down)
         [] OTHER -> 0

\* How much more it takes to reach the next step (differ_credit, differ_count).
Missing(have, full) == IF full < have THEN 0 ELSE full - have
Differ(g) == Missing(Amount(g), Full(g, next[g]))

-----------------------------------------------------------------------------
(* Dividing the discount. *)

Share(g, k, down) == RoundTo(order.sale[k] * favor[g], TotalSalePrice(g), down)

\* What rounding leaves of an activity's discount, when its skus get share.
Rest(g, share) == favor[g] - Sum(share, Bought(g))

\* The sku that takes it.
First(k) == \A j \in Bought(group[k]) : k <= j

\* The shares as they are rounded, a tie as in down, and what a sku saves.
Shares(down) == [k \in Skus |->
  IF group[k] = None THEN 0
  ELSE Share(group[k], k, <<group[k], order.sale[k]>> \in down)]
Saved(k, share) ==
  IF group[k] = None THEN 0
  ELSE share[k] + (IF First(k) THEN Rest(group[k], share) ELSE 0)

-----------------------------------------------------------------------------
QuoteInit ==
  /\ order \in Orders
  /\ deal \in [Groups -> Deals]
  /\ filed \in Filings
  /\ ladder \in [Groups -> Ladders]
  /\ stage = "order"
  /\ answer = "none"
  /\ group = [k \in Skus |-> None]
  /\ curr = [g \in Groups |-> None]
  /\ next = [g \in Groups |-> None]
  /\ favor = [g \in Groups |-> 0]
  /\ total = [pay |-> Sum(order.sale, Skus), favor |-> 0]
  /\ price = [k \in Skus |-> [pay |-> order.sale[k], favor |-> 0]]

\* No label, no running activity or no step: no discount (getApportion answers
\* NO_USABLE_GROUP whatever the reason).
NoUsableGroup ==
  /\ answer' = "NO_USABLE_GROUP"
  /\ stage' = "done"
  /\ UNCHANGED <<favor, total, price>>

FindGroups ==
  /\ stage = "order"
  /\ \/ /\ Running = {} \/ \A g \in Running : ladder[g] = {}
        /\ NoUsableGroup
        /\ UNCHANGED group
     \/ /\ \E g \in Running : ladder[g] # {}
        /\ \E own \in Owners :
             group' = [k \in Skus |->
               IF LabelsOfSku(k) = {} THEN None ELSE own[Max(LabelsOfSku(k))]]
        /\ stage' = "grouped"
        /\ UNCHANGED <<answer, favor, total, price>>
  /\ UNCHANGED <<data, curr, next>>

ChooseSteps ==
  /\ stage = "grouped"
  /\ curr' \in {c \in [Groups -> {None} \cup UNION Ladders] :
                  \A g \in Groups : c[g] \in IF g \in Running THEN CurrSteps(g) ELSE {None}}
  /\ next' \in {n \in [Groups -> {None} \cup UNION Ladders] :
                  \A g \in Groups : n[g] \in IF g \in Running THEN NextSteps(g) ELSE {None}}
  /\ \/ (\E g \in Running : WrongRate(g)) /\ NoUsableGroup
     \/ /\ \A g \in Running : ~ WrongRate(g)
        /\ \E down \in [Running -> BOOLEAN] :
             favor' = [g \in Groups |->
               IF g \in Running THEN TotalFavorPrice(g, down[g]) ELSE 0]
        /\ stage' = "quoted"
        /\ UNCHANGED <<answer, total, price>>
  /\ UNCHANGED <<data, group>>

\* getApportion: each sku takes its rounded share, the first sku of an activity
\* takes what is left over.  The order saves what all activities take off, with
\* or without skus.
Divide ==
  /\ stage = "quoted"
  /\ \E down \in SUBSET {<<group[k], order.sale[k]>> : k \in {j \in Skus :
          group[j] # None /\ Tie(order.sale[j] * favor[group[j]], TotalSalePrice(group[j]))}} :
       LET share == Shares(down)
       IN  price' = [k \in Skus |-> [pay |-> order.sale[k] - Saved(k, share),
                                     favor |-> Saved(k, share)]]
  /\ total' = LET f == Sum(favor, Groups)
              IN  [pay |-> Sum(order.sale, Skus) - f, favor |-> f]
  /\ answer' = "OK"
  /\ stage' = "done"
  /\ UNCHANGED <<data, group, curr, next, favor>>

QuoteNext == FindGroups \/ ChooseSteps \/ Divide

QuoteSpec == QuoteInit /\ [][QuoteNext]_quoteVars

-----------------------------------------------------------------------------
\* The types of the variables.
QuoteTypeOK ==
  /\ stage \in {"order", "grouped", "quoted", "done"}
  /\ answer \in {"none", "OK", "NO_USABLE_GROUP"}
  /\ group \in [Skus -> Groups \cup {None}]
  /\ \A g \in Groups : {curr[g], next[g]} \subseteq ladder[g] \cup {None}
  /\ favor \in [Groups -> Nat]
  /\ total \in [pay : Int, favor : Int]
  /\ price \in [Skus -> [pay : Int, favor : Int]]

\* The prices of the skus make up the price of the order, to the cent, whatever the
\* shares were rounded to, but for what activities take off that sell nothing of it;
\* only one with a step of height 0 does.  And no activity makes the order dearer,
\* whatever rate was stored for its steps.
SharesAddUp ==
  answer = "OK" =>
    LET unsold == Sum(favor, Groups \ Taking)
    IN  /\ total.favor = Sum([k \in Skus |-> price[k].favor], Skus) + unsold
        /\ total.pay = Sum([k \in Skus |-> price[k].pay], Skus) - unsold
        /\ total.pay + total.favor = Sum(order.sale, Skus)
        /\ \A g \in Groups : favor[g] >= 0
        /\ \A g \in Groups \ Taking :
             favor[g] # 0 => \E s \in ladder[g] : s.full_credit = 0

\* Every sku of an activity saves in proportion to its price, to half a cent; the
\* first one makes up for the others and may miss by half a cent for each of
\* them.  A sku of no activity saves nothing, whatever the others do.  (Half a
\* cent may be more than the first sku costs: it is then sold for more than its
\* price.)
FairShare ==
  answer = "OK" =>
    \A k \in Skus :
      LET g == group[k]
          n == Cardinality(Bought(g))
      IN  IF g = None THEN price[k].favor = 0
          ELSE 2 * Magnitude(price[k].favor * TotalSalePrice(g) - order.sale[k] * favor[g])
                 <= TotalSalePrice(g) * (IF First(k) THEN n - 1 ELSE 1)

\* What the shop is told is missing to the next step is what is missing: with so
\* much more the order reaches that step, with less it keeps the present one,
\* and without a next step no order of the activity's wares reaches more.
NextReached ==
  stage = "quoted" =>
    \A g \in Taking :
      LET have == Amount(g)
          got(amount) == Highest(g, Reached(g, amount))
      IN  IF next[g] = None THEN got(have) = Highest(g, ladder[g])
          ELSE /\ next[g] \in got(have + Differ(g))
               /\ \A d \in 0..(Differ(g) - 1) : got(have + d) = got(have)

=============================================================================
