--------------------------- MODULE MCOnsaleQuote ---------------------------
(* Instances of OnsaleQuote for TLC: four skus of three wares, two           *)
(* activities.                                                               *)
EXTENDS OnsaleQuote

MCWareOf == <<1, 2, 3, 3>>

\* Prices that round in every direction, the first sku cheap or dear.
Prices == {<<1, 33, 33, 33>>, <<1, 50, 50, 99>>, <<100, 100, 100, 300>>,
           <<33, 34, 33, 1>>, <<99, 1, 1, 2>>, <<50, 50, 100, 200>>}
MCOrders == {[sale |-> p, count |-> c] : p \in Prices, c \in {<<1, 1, 1, 1>>, <<1, 2, 1, 3>>}}

\* A ware under one label, under both, under none.
MCFilings == {{}, {1} \X {1, 2, 3}, ({1} \X {1, 2}) \cup ({2} \X {3}),
              ({1} \X {1, 2, 3}) \cup ({2} \X {2, 3}), {2} \X {1, 3}, {<<2, 4>>}}

MCDeals == {[label |-> l, favor_type |-> t, running |-> r] :
              l \in {1, 2}, t \in {0, 1, 4}, r \in {TRUE}}
           \cup {[label |-> 1, favor_type |-> 0, running |-> FALSE]}

Rung(credit, count, cut, rate) ==
  [full_credit |-> credit, full_count |-> count, favor_credit |-> cut, favor_rate |-> rate]

\* No step, one, several, two of one height, one with a rate out of range, one that
\* every order reaches.
MCLadders == {{}, {Rung(50, 2, 10, 85)},
              {Rung(1, 1, 1, 99), Rung(100, 3, 7, 90), Rung(200, 5, 67, 33)},
              {Rung(100, 4, 20, 80), Rung(100, 4, 30, 70)},
              {Rung(300, 3, 5, 110)}, {Rung(0, 0, 10, 95), Rung(150, 2, 20, 85)}}
=============================================================================
