----------------------- MODULE CouponApportionProofs -----------------------
(***************************************************************************)
(* Theorems about CouponApportion, for every order, every wallet and every *)
(* way to round.                                                           *)
(***************************************************************************)
EXTENDS CouponApportion, CentsProofs

-----------------------------------------------------------------------------
(***************************************************************************)
(* A discount stays on the skus its coupon covers.  Each sku's share is    *)
(* given by a test of the coupon that is shared; the corrections give it   *)
(* by a test of all chosen coupons, the platform's and the seller's.  The  *)
(* invariant says that a reduced sku has a chosen coupon that covers it,   *)
(* and that nothing is chosen before the choice: until then coupons may    *)
(* begin and end.                                                          *)
(***************************************************************************)

Helped(k) == \E c \in Chosen : Covers(c, k)

Unchosen ==
  pc \in {"order", "listed", "moved", "explained"} =>
    plat_code = NoCode /\ \A s \in Sellers : shop_code[s] = NoCode

Inv ==
  /\ shop_code \in [Sellers -> Codes \cup {NoCode}]
  /\ Unchosen
  /\ \A k \in Skus : sku[k].favor = 0 \/ Helped(k)

-----------------------------------------------------------------------------
\* A sku that may bear a correction is covered by a chosen coupon: code_can_use
\* looks for the platform's code and for the code of the sku's own seller.
LEMMA BearerHelped ==
  ASSUME Inv, NEW k \in Skus, MayBear(k)
  PROVE  Helped(k)
<1>1. SellerOf[k] \in Sellers
  BY DEF Sellers
<1>2. CASE plat_code # NoCode /\ Covers(plat_code, k)
  BY <1>2 DEF Helped, Chosen
<1>3. CASE shop_code[SellerOf[k]] # NoCode /\ Covers(shop_code[SellerOf[k]], k)
  <2>1. shop_code[SellerOf[k]] \in Range(shop_code)
    BY <1>1 DEF Inv, Range
  <2> QED BY <1>3, <2>1 DEF Helped, Chosen
<1> QED BY <1>2, <1>3 DEF MayBear

\* While the chosen codes and the wallet stand, a covered sku stays covered.
LEMMA HelpedStands ==
  ASSUME UNCHANGED <<wallet, plat_code, shop_code>>, NEW k \in Skus
  PROVE  Helped(k)' <=> Helped(k)
BY DEF Helped, Chosen, Covers, Offer

\* Before the choice no sku is reduced.
LEMMA NothingChosen ==
  ASSUME Inv, pc \in {"order", "listed", "moved", "explained"}, NEW k \in Skus
  PROVE  sku[k].favor = 0
<1>1. Chosen = {}
  BY DEF Inv, Unchosen, Chosen, Range
<1> QED BY <1>1 DEF Inv, Helped

-----------------------------------------------------------------------------
LEMMA InvInit == Init => Inv
BY DEF Init, Inv, Unchosen, Helped

\* The steps up to the choice leave every price alone.
LEMMA EarlyStep ==
  ASSUME Inv, pc \in {"order", "listed", "moved", "explained"}, UNCHANGED sku,
         shop_code' \in [Sellers -> Codes \cup {NoCode}], Unchosen'
  PROVE  Inv'
BY NothingChosen DEF Inv

\* The steps after it leave the choice alone.
LEMMA LateStep ==
  ASSUME Inv, UNCHANGED <<wallet, plat_code, shop_code>>,
         pc' \notin {"order", "listed", "moved", "explained"},
         \A k \in Skus : sku'[k] = sku[k] \/ Helped(k)
  PROVE  Inv'
<1>1. ASSUME NEW k \in Skus PROVE sku'[k].favor = 0 \/ Helped(k)'
  <2>1. CASE sku'[k] = sku[k]
    BY <2>1, HelpedStands DEF Inv
  <2>2. CASE Helped(k)
    BY <2>2, HelpedStands
  <2> QED BY <2>1, <2>2
<1>2. Unchosen'
  BY DEF Unchosen
<1>3. shop_code' \in [Sellers -> Codes \cup {NoCode}]
  BY DEF Inv
<1> QED BY <1>1, <1>2, <1>3 DEF Inv

LEMMA InvNext == Inv /\ [Next]_vars => Inv'
<1> SUFFICES ASSUME Inv, [Next]_vars PROVE Inv'
  OBVIOUS
<1>1. CASE GetUsableCoupons
  BY <1>1, EarlyStep DEF GetUsableCoupons, Inv, Unchosen, data, choice, prices
<1>2. CASE TimePasses
  BY <1>2, EarlyStep DEF TimePasses, Inv, Unchosen, lists, choice, prices
<1>3. CASE GetNotUsableCoupons
  BY <1>3, EarlyStep DEF GetNotUsableCoupons, Inv, Unchosen, data, choice, prices
<1>4. CASE GetApportion
  <2>1. /\ pc \in {"order", "listed", "moved", "explained"}
        /\ UNCHANGED sku
        /\ shop_code' \in [Sellers -> Codes \cup {NoCode}]
        /\ pc' \notin {"order", "listed", "moved", "explained"}
    BY <1>4 DEF GetApportion, prices
  <2>2. Unchosen'
    BY <2>1 DEF Unchosen
  <2> QED BY <2>1, <2>2, EarlyStep
<1>5. CASE SharePlat
  <2>1. ASSUME NEW k \in Skus PROVE sku'[k] = sku[k] \/ Helped(k)
    <3>1. CASE plat_code = NoCode
      BY <1>5, <3>1 DEF SharePlat, prices
    <3>2. CASE plat_code # NoCode /\ Covers(plat_code, k)
      BY <3>2 DEF Helped, Chosen
    <3>3. CASE plat_code # NoCode /\ ~ Covers(plat_code, k)
      BY <1>5, <3>3 DEF SharePlat
    <3> QED BY <3>1, <3>2, <3>3
  <2> QED BY <1>5, <2>1, LateStep DEF SharePlat, data, choice
<1>6. CASE ShareShop
  <2>1. ASSUME NEW k \in Skus PROVE sku'[k] = sku[k] \/ Helped(k)
    <3>1. CASE shop_code[SellerOf[k]] # NoCode /\ Covers(shop_code[SellerOf[k]], k)
      BY <3>1, BearerHelped DEF MayBear
    <3>2. CASE ~ (shop_code[SellerOf[k]] # NoCode /\ Covers(shop_code[SellerOf[k]], k))
      BY <1>6, <3>2 DEF ShareShop
    <3> QED BY <3>1, <3>2
  <2> QED BY <1>6, <2>1, LateStep DEF ShareShop, data, choice
<1>7. CASE CorrectSellers
  <2>1. ASSUME NEW k \in Skus PROVE sku'[k] = sku[k] \/ Helped(k)
    <3>1. CASE MayBear(k)
      BY <3>1, BearerHelped
    <3>2. CASE ~ MayBear(k)
      BY <1>7, <3>2 DEF CorrectSellers, First, Bearers
    <3> QED BY <3>1, <3>2
  <2> QED BY <1>7, <2>1, LateStep DEF CorrectSellers, data, choice
<1>8. CASE CorrectSkus
  <2>1. ASSUME NEW k \in Skus PROVE sku'[k] = sku[k] \/ Helped(k)
    <3>1. CASE MayBear(k)
      BY <3>1, BearerHelped
    <3>2. CASE ~ MayBear(k)
      BY <1>8, <3>2 DEF CorrectSkus, First, Bearers
    <3> QED BY <3>1, <3>2
  <2> QED BY <1>8, <2>1, LateStep DEF CorrectSkus, data, choice
<1>9. CASE UNCHANGED vars
  BY <1>9, HelpedStands DEF Inv, Unchosen, vars
<1> QED
  BY <1>1, <1>2, <1>3, <1>4, <1>5, <1>6, <1>7, <1>8, <1>9 DEF Next

\* Whatever the order, the prices and the coupons: only skus a chosen coupon
\* covers are reduced (getApportion).
THEOREM OnlyCoveredHolds == Spec => []OnlyCovered
<1>1. Inv => OnlyCovered
  BY DEF Inv, OnlyCovered, Helped
<1> QED BY InvInit, InvNext, <1>1, PTL DEF Spec
-----------------------------------------------------------------------------
(***************************************************************************)
(* Types, and which coupons may be used.                                   *)
(***************************************************************************)

Typed ==
  /\ wallet \in [Codes -> OfferType]
  /\ sale \in [Skus -> Prices]

LEMMA Order ==
  /\ IsFiniteSet(Skus) /\ Skus \subseteq Nat /\ Skus # {}
  /\ IsFiniteSet(Sellers) /\ Sellers \subseteq Nat \ {0}
  /\ \A k \in Skus : SellerOf[k] \in Sellers
  /\ Prices \subseteq Nat \ {0} /\ NoCode \notin Codes /\ Offers \subseteq OfferType
<1>1. IsFiniteSet(Skus) /\ Skus \subseteq Nat /\ Skus # {}
  BY OrderAssumption
<1>2. \A k \in Skus : SellerOf[k] \in Sellers
  BY DEF Sellers
<1>3. Sellers \subseteq Nat \ {0}
  BY OrderAssumption DEF Sellers
<1>4. IsFiniteSet(Sellers)
  <2>1. PICK f : f = [k \in Skus |-> SellerOf[k]]
    OBVIOUS
  <2>2. f \in [Skus -> Sellers] /\ \A s \in Sellers : \E k \in Skus : f[k] = s
    BY <2>1 DEF Sellers
  <2>3. f \in Surjection(Skus, Sellers)
    BY <2>2 DEF Surjection
  <2>4. QED
    BY <1>1, <2>3, FS_Surjection
<1>5. QED
  BY <1>1, <1>2, <1>3, <1>4, OrderAssumption

LEMMA TypedNext == Typed /\ [Next]_vars => Typed'
<1> SUFFICES ASSUME Typed, [Next]_vars PROVE Typed'
  OBVIOUS
<1>1. CASE TimePasses
  <2>1. UNCHANGED sale /\ \E c \in Codes : \/ wallet' = [wallet EXCEPT ![c].when = "late"]
                                            \/ wallet' = [wallet EXCEPT ![c].when = "open"]
                                            \/ wallet' = [wallet EXCEPT ![c].drawn = "longAgo"]
    BY <1>1 DEF TimePasses
  <2>2. PICK c \in Codes : \/ wallet' = [wallet EXCEPT ![c].when = "late"]
                           \/ wallet' = [wallet EXCEPT ![c].when = "open"]
                           \/ wallet' = [wallet EXCEPT ![c].drawn = "longAgo"]
    BY <2>1
  <2>3. wallet' \in [Codes -> OfferType]
    BY <2>2 DEF Typed, OfferType
  <2>4. QED
    BY <2>1, <2>3 DEF Typed
<1>2. CASE UNCHANGED <<wallet, sale>>
  BY <1>2 DEF Typed
<1>3. QED
  BY <1>1, <1>2 DEF Next, GetUsableCoupons, GetNotUsableCoupons, GetApportion, SharePlat, ShareShop,
                    CorrectSellers, CorrectSkus, vars, data

LEMMA UsableStands ==
  ASSUME UNCHANGED sale, NEW c \in Codes, wallet'[c] = wallet[c]
  PROVE  c \in UsableCodes' <=> c \in UsableCodes
BY DEF UsableCodes, Candidates, Queried, Concerns, Sensible, Platform, Offer, Covered, Covers, Total, Filled

\* What skus cost together.
LEMMA SaleSums ==
  ASSUME Typed, NEW T \in SUBSET Skus
  PROVE  /\ IsFiniteSet(T) /\ \A k \in Skus : sale[k] \in Nat \ {0}
         /\ Sum(sale, T) \in Nat /\ Sum(sale, T) <= Sum(sale, Skus)
         /\ \A k \in T : sale[k] <= Sum(sale, T)
         /\ T # {} => Sum(sale, T) > 0
<1>1. PICK a : a = sale
  OBVIOUS
<1>2. IsFiniteSet(Skus) /\ IsFiniteSet(T) /\ \A k \in Skus : a[k] \in Nat \ {0} /\ a[k] \in Int
  <2>1. IsFiniteSet(Skus) /\ IsFiniteSet(T)
    BY Order, FS_Subset
  <2>2. a \in [Skus -> Prices] /\ Prices \subseteq Nat \ {0}
    BY <1>1, Order DEF Typed
  <2>3. \A k \in Skus : a[k] \in Nat \ {0}
    BY <2>2
  <2>4. QED
    BY <2>1, <2>3
<1>3. Sum(a, T) \in Int /\ 0 <= Sum(a, T) /\ Sum(a, T) <= Sum(a, Skus)
  BY <1>2, SumFold, SumWithin
<1>4. ASSUME NEW k \in T PROVE a[k] <= Sum(a, T)
  <2>1. Sum(a, T) = a[k] + Sum(a, T \ {k})
    BY <1>2, SumTakes
  <2>2. T \ {k} \in SUBSET Skus
    OBVIOUS
  <2>3. 0 <= Sum(a, T \ {k}) /\ Sum(a, T \ {k}) \in Int
    BY <1>2, <2>2, SumWithin, SumFold
  <2>4. QED
    BY <1>2, <2>1, <2>3
<1>5. T # {} => Sum(a, T) > 0
  BY <1>2, <1>3, <1>4
<1>6. QED
  BY <1>1, <1>2, <1>3, <1>4, <1>5

-----------------------------------------------------------------------------
(***************************************************************************)
(* Offered or explained.  What the user was told he may use is what may be *)
(* used now, but for coupons whose time has ended since, or that turned.    *)
(***************************************************************************)

Listed ==
  /\ pc \in {"order", "listed"} => turned = {}
  /\ pc \in {"listed", "moved"} =>
       \A c \in Codes \ turned : Offer(c).when # "late" => (c \in usable <=> c \in UsableCodes)

LEMMA NoneListed == Listing # "OK" => UsableCodes = {}
BY DEF Listing, UsableCodes, Candidates

LEMMA ListedNext == Typed /\ Listed /\ [Next]_vars => Listed'
<1> SUFFICES ASSUME Typed, Listed, [Next]_vars PROVE Listed'
  OBVIOUS
<1>1. CASE GetUsableCoupons
  <2>1. UNCHANGED <<wallet, sale, turned>> /\ pc = "order" /\ pc' = "listed" /\ usable' = UsableCodes
    BY <1>1, NoneListed DEF GetUsableCoupons, data
  <2>2. \A c \in Codes : c \in UsableCodes' <=> c \in UsableCodes
    BY <2>1, UsableStands
  <2>3. QED
    BY <2>1, <2>2 DEF Listed
<1>2. CASE TimePasses
  <2>1. UNCHANGED <<sale, usable>> /\ pc = "listed" /\ pc' = "moved" /\ turned = {}
    BY <1>2 DEF TimePasses, Listed, lists
  <2>2. PICK e \in Codes :
          \/ Offer(e).when = "open" /\ wallet' = [wallet EXCEPT ![e].when = "late"] /\ turned' = turned
          \/ Offer(e).when = "early" /\ wallet' = [wallet EXCEPT ![e].when = "open"] /\ turned' = {e}
          \/ wallet' = [wallet EXCEPT ![e].drawn = "longAgo"] /\ turned' = {e}
    BY <1>2 DEF TimePasses
  <2>3. ASSUME NEW c \in Codes \ turned', wallet'[c].when # "late"
        PROVE  c \in usable' <=> c \in UsableCodes'
    <3>1. c # e
      <4>1. wallet[e] \in OfferType /\ wallet \in [Codes -> OfferType]
        BY DEF Typed
      <4>2. QED
        BY <2>2, <2>3, <4>1 DEF OfferType
    <3>2. wallet'[c] = wallet[c]
      BY <2>2, <3>1 DEF Typed
    <3>3. c \in UsableCodes' <=> c \in UsableCodes
      BY <2>1, <3>2, UsableStands
    <3>4. c \in usable <=> c \in UsableCodes
      BY <2>1, <2>3, <3>2 DEF Listed, Offer
    <3>5. QED
      BY <2>1, <3>3, <3>4
  <2>4. QED
    BY <2>1, <2>3 DEF Listed, Offer
<1>3. CASE UNCHANGED vars
  <2>1. \A c \in Codes : c \in UsableCodes' <=> c \in UsableCodes
    BY <1>3, UsableStands DEF vars
  <2>2. QED
    BY <1>3, <2>1 DEF Listed, vars, Offer
<1>4. CASE GetNotUsableCoupons \/ GetApportion \/ SharePlat \/ ShareShop \/ CorrectSellers \/ CorrectSkus
  BY <1>4 DEF Listed, GetNotUsableCoupons, GetApportion, SharePlat, ShareShop, CorrectSellers, CorrectSkus
<1>5. QED
  BY <1>1, <1>2, <1>3, <1>4 DEF Next

\* A coupon that may not be used has a reason, among those that could be used.
LEMMA ReasonFound ==
  ASSUME Typed, NEW c \in Codes, Concerns(c), Offer(c).favor_type = 0,
         Offer(c).full >= Offer(c).favor, Offer(c).when # "late", Offer(c).drawn = "lately",
         c \notin UsableCodes
  PROVE  Reason(c) \in {"TIME", "LIST", "MONEY"}
<1>1. Offer(c) \in OfferType
  BY DEF Typed, Offer
<1>2. CASE Offer(c).when = "early"
  BY <1>2 DEF Reason
<1>3. CASE Covered(c) = {}
  BY <1>3 DEF Reason
<1>4. CASE Offer(c).when = "open" /\ Covered(c) # {}
  <2>1. Total(c) \in Nat /\ Total(c) <= Sum(sale, Skus) /\ Sum(sale, Skus) \in Nat
    BY SaleSums DEF Total, Covered
  <2>2. Offer(c).full \in Nat
    BY <1>1 DEF OfferType
  <2>3. ASSUME Offer(c).full <= Total(c) PROVE FALSE
    <3>1. Sensible(c)
      BY <2>1, <2>2, <2>3 DEF Sensible
    <3>2. QED
      BY <1>4, <2>1, <2>2, <2>3, <3>1 DEF UsableCodes, Candidates, Queried, Filled
  <2>4. Total(c) < Offer(c).full
    BY <2>1, <2>2, <2>3
  <2>5. QED
    BY <1>4, <2>4 DEF Reason
<1>5. QED
  BY <1>1, <1>2, <1>3, <1>4 DEF OfferType

LEMMA ExplainedNext == Typed /\ Listed /\ Explained /\ [Next]_vars => Explained'
<1> SUFFICES ASSUME Typed, Listed, Explained, [Next]_vars PROVE Explained'
  OBVIOUS
<1>1. CASE GetNotUsableCoupons
  <2>1. UNCHANGED <<wallet, sale, turned, usable>> /\ pc \in {"listed", "moved"}
    BY <1>1 DEF GetNotUsableCoupons, data
  <2>2. \A c \in Codes : reason'[c] = IF c \in NotUsableCoupons(usable) THEN Reason(c) ELSE "none"
    BY <1>1 DEF GetNotUsableCoupons
  <2>3. ASSUME NEW c \in Codes \ turned, Concerns(c), Offer(c).favor_type = 0,
               Offer(c).full >= Offer(c).favor, Offer(c).when # "late"
        PROVE  IF Offer(c).drawn = "lately" THEN c \in usable <=> reason'[c] = "none"
               ELSE c \notin usable
    <3>1. CASE c \in usable
      <4>1. c \in UsableCodes
        BY <2>1, <2>3, <3>1 DEF Listed
      <4>2. Offer(c).drawn = "lately"
        BY <4>1 DEF UsableCodes, Candidates, Queried
      <4>3. QED
        BY <2>2, <3>1, <4>2 DEF NotUsableCoupons, Others
    <3>2. CASE c \notin usable /\ Offer(c).drawn = "lately"
      <4>1. c \notin UsableCodes
        BY <2>1, <2>3, <3>2 DEF Listed
      <4>2. Reason(c) \in {"TIME", "LIST", "MONEY"}
        BY <2>3, <3>2, <4>1, ReasonFound
      <4>3. c \in NotUsableCoupons(usable)
        BY <2>3, <3>2, <4>2 DEF NotUsableCoupons, Others
      <4>4. QED
        BY <2>2, <3>2, <4>2, <4>3
    <3>3. QED
      BY <3>1, <3>2
  <2>4. \A c \in Codes : (Concerns(c)' <=> Concerns(c)) /\ Offer(c)' = Offer(c)
    BY <2>1 DEF Concerns, Platform, Offer
  <2>5. QED
    BY <2>1, <2>3, <2>4 DEF Explained
<1>2. CASE UNCHANGED vars
  <2>1. \A c \in Codes : (Concerns(c)' <=> Concerns(c)) /\ Offer(c)' = Offer(c)
    BY <1>2 DEF Concerns, Platform, Offer, vars
  <2>2. QED
    BY <1>2, <2>1 DEF Explained, vars
<1>3. CASE \/ GetUsableCoupons \/ TimePasses \/ GetApportion \/ SharePlat \/ ShareShop
           \/ CorrectSellers \/ CorrectSkus
  <2>1. pc' # "explained"
    BY <1>3 DEF GetUsableCoupons, TimePasses, GetApportion, SharePlat, ShareShop, CorrectSellers, CorrectSkus
  <2>2. QED
    BY <2>1 DEF Explained
<1>4. QED
  BY <1>1, <1>2, <1>3 DEF Next

LEMMA InitListed == Init => Typed /\ Listed /\ Explained
<1> SUFFICES ASSUME Init PROVE Typed /\ Listed /\ Explained
  OBVIOUS
<1>1. wallet \in [Codes -> OfferType]
  BY Order DEF Init
<1>2. QED
  BY <1>1 DEF Init, Typed, Listed, Explained

\* A drawn coupon that could be used is offered or its refusal explained, and not
\* both, for every order and wallet (getUsableCoupons, getNotUsableCoupons).
THEOREM OfferedOrExplained == Spec => []Explained
<1> DEFINE I == Typed /\ Listed /\ Explained
<1>1. Init => I
  BY InitListed
<1>2. I /\ [Next]_vars => I'
  BY TypedNext, ListedNext, ExplainedNext
<1>3. I => Explained
  OBVIOUS
<1> HIDE DEF I
<1>4. QED
  BY <1>1, <1>2, <1>3, PTL DEF Spec

-----------------------------------------------------------------------------
(***************************************************************************)
(* The shares of one coupon.                                               *)
(***************************************************************************)

\* What of a price a coupon counts.
Weights(c) == [k \in Skus |-> IF Covers(c, k) THEN sale[k] ELSE 0]

\* A coupon that may be used gives no more than what it counts.
LEMMA Gives ==
  ASSUME Typed, NEW c \in UsableCodes
  PROVE  /\ Offer(c).favor \in Nat \ {0} /\ Total(c) \in Nat \ {0}
         /\ Offer(c).favor <= Total(c) /\ Total(c) <= Sum(sale, Skus)
<1>1. c \in Codes /\ Offer(c) \in OfferType
  BY DEF UsableCodes, Candidates, Typed, Offer
<1>2. Offer(c).favor \in Nat \ {0} /\ Offer(c).full \in Nat \ {0}
  BY <1>1 DEF OfferType
<1>3. Offer(c).full >= Offer(c).favor /\ Total(c) >= Offer(c).full
  BY DEF UsableCodes, Candidates, Sensible, Filled
<1>4. Covered(c) \in SUBSET Skus
  BY DEF Covered
<1>5. Total(c) \in Nat /\ Total(c) <= Sum(sale, Skus)
  BY <1>4, SaleSums DEF Total
<1>6. QED
  BY <1>2, <1>3, <1>5

LEMMA WeightsType ==
  ASSUME Typed, NEW c, NEW k \in Skus
  PROVE  Weights(c)[k] \in Nat /\ Weights(c)[k] <= sale[k] /\ sale[k] \in Nat \ {0}
<1>1. sale[k] \in Nat \ {0}
  BY SaleSums
<1>2. QED
  BY <1>1 DEF Weights

\* The weights of a set of skus are the prices of those the coupon covers.
LEMMA WeightsTogether ==
  ASSUME Typed, NEW c, NEW T \in SUBSET Skus
  PROVE  Sum(Weights(c), T) = Sum(sale, Covered(c) \cap T)
<1>1. PICK w, a : w = Weights(c) /\ a = sale
  OBVIOUS
<1>2. \A k \in Skus : w[k] \in Int /\ a[k] \in Int
  BY <1>1, WeightsType
<1>3. PICK A, B : A = Covered(c) \cap T /\ B = T \ Covered(c)
  OBVIOUS
<1>4. A \cap B = {} /\ A \cup B = T /\ A \in SUBSET Skus /\ B \in SUBSET Skus
  BY <1>3
<1>5. IsFiniteSet(A) /\ IsFiniteSet(B)
  BY <1>4, SaleSums
<1>6. \A k \in A \cup B : w[k] \in Int
  BY <1>2, <1>4
<1>7. Sum(w, A \cup B) = Sum(w, A) + Sum(w, B)
  BY <1>4, <1>5, <1>6, SumTwo
<1>8. \A k \in A : w[k] \in Int /\ w[k] = a[k]
  BY <1>1, <1>2, <1>3, <1>4 DEF Weights, Covered
<1>9. Sum(w, A) = Sum(a, A)
  BY <1>5, <1>8, SumSame
<1>10. \A k \in B : w[k] = 0
  BY <1>1, <1>3, <1>4 DEF Weights, Covered
<1>11. Sum(w, B) = 0
  <2>1. Sum(w, B) = 0 * Cardinality(B)
    BY <1>5, <1>10, SumConstant
  <2>2. Cardinality(B) \in Nat
    BY <1>5, FS_CardinalityType
  <2>3. QED
    BY <2>1, <2>2
<1>12. Sum(a, A) \in Int
  BY <1>1, <1>4, SaleSums
<1>13. Sum(w, T) = Sum(a, A)
  <2>1. Sum(w, T) = Sum(w, A \cup B)
    BY <1>4, Zenon
  <2>2. QED
    BY <1>7, <1>9, <1>11, <1>12, <2>1
<1>14. QED
  BY <1>1, <1>3, <1>13

\* r[k] is the share of sku k, rounded by itself.
ShareOf(c, r, k) ==
  /\ Covers(c, k) => \E down : r[k] = RoundTo(sale[k] * Offer(c).favor, Total(c), down)
  /\ ~ Covers(c, k) => r[k] = 0

LEMMA SkuShares ==
  ASSUME Typed, NEW c \in UsableCodes, NEW r, NEW k \in Skus, ShareOf(c, r, k)
  PROVE  /\ r[k] \in Int /\ IsShare(r[k], Weights(c)[k], Offer(c).favor, Total(c))
         /\ 0 <= r[k] /\ r[k] <= Weights(c)[k]
<1>1. PICK f \in Nat \ {0}, t \in Nat \ {0}, w \in Nat :
        f = Offer(c).favor /\ t = Total(c) /\ w = Weights(c)[k]
  BY Gives, WeightsType
<1>2. r[k] \in Int /\ IsShare(r[k], w, f, t)
  <2>1. CASE Covers(c, k)
    <3>1. w = sale[k]
      BY <1>1, <2>1 DEF Weights
    <3>2. PICK n \in Int : n = w * f
      OBVIOUS
    <3>3. PICK down : r[k] = RoundTo(n, t, down)
      BY <1>1, <2>1, <3>1, <3>2 DEF ShareOf
    <3>4. RoundTo(n, t, down) \in Int /\ 2 * (t * RoundTo(n, t, down)) <= 2 * n + t
          /\ 2 * n - t <= 2 * (t * RoundTo(n, t, down))
      BY Rounded
    <3>5. QED
      BY <3>2, <3>3, <3>4 DEF IsShare
  <2>2. CASE ~ Covers(c, k)
    <3>1. w = 0 /\ r[k] = 0
      BY <1>1, <2>2 DEF Weights, ShareOf
    <3>2. QED
      BY <3>1 DEF IsShare
  <2>3. QED
    BY <2>1, <2>2
<1>3. f <= t
  BY <1>1, Gives
<1>4. 0 <= r[k] /\ r[k] <= w
  BY <1>2, <1>3, ShareWithin
<1>5. QED
  BY <1>1, <1>2, <1>4

\* What a coupon counts of each seller's part.
WeightsOf(c) == [s \in Sellers |-> Sum(sale, Covered(c) \cap Of(s))]

LEMMA SellersWeights ==
  ASSUME Typed, NEW c
  PROVE  /\ \A s \in Sellers :
              /\ Of(s) \in SUBSET Skus /\ IsFiniteSet(Of(s))
              /\ WeightsOf(c)[s] = Sum(Weights(c), Of(s))
              /\ WeightsOf(c)[s] \in Nat /\ WeightsOf(c)[s] <= Sum(sale, Of(s))
         /\ Sum(WeightsOf(c), Sellers) = Total(c)
<1>1. PICK w, h, a : w = Weights(c) /\ h = WeightsOf(c) /\ a = sale
  OBVIOUS
<1>2. ASSUME NEW s \in Sellers
      PROVE  /\ Of(s) \in SUBSET Skus /\ IsFiniteSet(Of(s))
             /\ h[s] = Sum(w, Of(s))
             /\ h[s] \in Nat /\ h[s] <= Sum(a, Of(s))
  <2>1. Of(s) \in SUBSET Skus /\ Covered(c) \cap Of(s) \in SUBSET Skus
    BY DEF Of
  <2>2. IsFiniteSet(Of(s))
    BY <2>1, SaleSums
  <2>3. h[s] = Sum(sale, Covered(c) \cap Of(s))
    BY <1>1 DEF WeightsOf
  <2>4. Sum(w, Of(s)) = Sum(sale, Covered(c) \cap Of(s))
    BY <1>1, <2>1, WeightsTogether
  <2>5. h[s] \in Nat
    BY <2>1, <2>3, SaleSums
  <2>6. \A k \in Of(s) : w[k] \in Int /\ a[k] \in Int /\ w[k] <= a[k]
    BY <1>1, <2>1, WeightsType
  <2>7. Sum(w, Of(s)) <= Sum(a, Of(s))
    BY <2>2, <2>6, SumCompare
  <2>8. QED
    BY <2>1, <2>2, <2>3, <2>4, <2>5, <2>7
<1>3. Sum(h, Sellers) = Sum(w, Skus)
  <2>1. IsFiniteSet(Skus) /\ IsFiniteSet(Sellers) /\ \A k \in Skus : SellerOf[k] \in Sellers
    BY Order
  <2>2. \A k \in Skus : w[k] \in Int
    BY <1>1, WeightsType
  <2>3. PICK G : G = [s \in Sellers |-> Of(s)]
    OBVIOUS
  <2>4. \A s \in Sellers : G[s] \in SUBSET Skus /\ \A k \in Skus : k \in G[s] <=> SellerOf[k] = s
    BY <2>3 DEF Of
  <2>5. \A s \in Sellers : h[s] = Sum(w, G[s])
    BY <1>2, <2>3
  <2>6. QED
    BY <2>1, <2>2, <2>4, <2>5, SumGrouped
<1>4. Sum(w, Skus) = Total(c)
  <2>1. Sum(w, Skus) = Sum(sale, Covered(c) \cap Skus)
    BY <1>1, WeightsTogether
  <2>2. Covered(c) \cap Skus = Covered(c)
    BY DEF Covered
  <2>3. Sum(sale, Covered(c) \cap Skus) = Sum(sale, Covered(c))
    BY <2>2, Zenon
  <2>4. QED
    BY <2>1, <2>3 DEF Total
<1>5. QED
  BY <1>1, <1>2, <1>3, <1>4

\* The shares of the sellers and of the skus; down holds the ties rounded down.
PlatSharesOf(c, down, x, y) ==
  /\ \A s \in Sellers :
       x[s] = RoundTo(WeightsOf(c)[s] * Offer(c).favor, Total(c),
                      WeightsOf(c)[s] * Offer(c).favor \in down)
  /\ \A k \in Skus :
       /\ Covers(c, k) => y[k] = RoundTo(sale[k] * Offer(c).favor, Total(c),
                                         sale[k] * Offer(c).favor \in down)
       /\ ~ Covers(c, k) => y[k] = 0

\* The platform's coupon: what the sellers' shares miss, what the skus' shares
\* miss of their seller's, and that a sku has no more than its seller of what is
\* saved and of what is left to pay.
LEMMA PlatShares ==
  ASSUME Typed, NEW c \in UsableCodes, NEW down, NEW x, NEW y, PlatSharesOf(c, down, x, y)
  PROVE  /\ 2 * Magnitude(Offer(c).favor - Sum(x, Sellers)) <= Cardinality(Sellers)
         /\ \A s \in Sellers :
              /\ x[s] \in Int /\ 0 <= x[s] /\ x[s] <= Sum(sale, Of(s))
              /\ 2 * Magnitude(x[s] - Sum(y, Of(s))) <= Cardinality(Of(s)) + 1
         /\ \A k \in Skus :
              /\ y[k] \in Int /\ 0 <= y[k] /\ y[k] <= sale[k]
              /\ Covers(c, k) =>
                   /\ y[k] <= x[SellerOf[k]]
                   /\ sale[k] - y[k] <= Sum(sale, Of(SellerOf[k])) - x[SellerOf[k]]
<1>1. PICK f, t, w, h, a :
        f = Offer(c).favor /\ t = Total(c) /\ w = Weights(c) /\ h = WeightsOf(c) /\ a = sale
  OBVIOUS
<1>2. f \in Nat \ {0} /\ t \in Nat \ {0} /\ f <= t /\ f \in Int /\ f \in Nat
  BY <1>1, Gives
<1>3. \A k \in Skus : ShareOf(c, y, k)
  BY DEF ShareOf, PlatSharesOf
<1>4. ASSUME NEW k \in Skus
      PROVE  /\ y[k] \in Int /\ IsShare(y[k], w[k], f, t) /\ 0 <= y[k] /\ y[k] <= w[k]
             /\ w[k] \in Nat /\ w[k] \in Int /\ w[k] <= a[k] /\ a[k] \in Nat
  BY <1>1, <1>3, SkuShares, WeightsType
<1>5. ASSUME NEW s \in Sellers
      PROVE  /\ x[s] \in Int /\ IsShare(x[s], h[s], f, t) /\ 0 <= x[s] /\ x[s] <= h[s]
             /\ h[s] \in Nat /\ h[s] \in Int /\ h[s] <= Sum(a, Of(s)) /\ h[s] = Sum(w, Of(s))
             /\ IsFiniteSet(Of(s)) /\ Of(s) \in SUBSET Skus
  <2>1. /\ h[s] \in Nat /\ h[s] \in Int /\ h[s] <= Sum(a, Of(s)) /\ h[s] = Sum(w, Of(s))
        /\ IsFiniteSet(Of(s)) /\ Of(s) \in SUBSET Skus
    BY <1>1, SellersWeights
  <2>2. PICK v \in Nat : v = h[s]
    BY <2>1
  <2>3. PICK n \in Int : n = v * f
    BY <1>2
  <2>4. x[s] = RoundTo(n, t, n \in down)
    BY <1>1, <2>2, <2>3 DEF PlatSharesOf
  <2>5. PICK b : b = (n \in down)
    OBVIOUS
  <2>6. RoundTo(n, t, b) \in Int /\ 2 * (t * RoundTo(n, t, b)) <= 2 * n + t
        /\ 2 * n - t <= 2 * (t * RoundTo(n, t, b))
    BY <1>2, Rounded
  <2>7. x[s] \in Int /\ IsShare(x[s], v, f, t)
    BY <2>3, <2>4, <2>5, <2>6 DEF IsShare
  <2>8. 0 <= x[s] /\ x[s] <= v
    BY <1>2, <2>7, ShareWithin
  <2>9. QED
    BY <2>1, <2>2, <2>7, <2>8
<1>6. 2 * Magnitude(f - Sum(x, Sellers)) <= Cardinality(Sellers)
  <2>1. IsFiniteSet(Sellers) /\ Sum(h, Sellers) = t
    BY <1>1, Order, SellersWeights
  <2>2. \A s \in Sellers : h[s] \in Int /\ x[s] \in Int /\ IsShare(x[s], h[s], f, t)
    BY <1>5
  <2>3. QED
    BY <1>2, <2>1, <2>2, SharesOfAll
<1>7. ASSUME NEW s \in Sellers
      PROVE  2 * Magnitude(x[s] - Sum(y, Of(s))) <= Cardinality(Of(s)) + 1
  <2>1. \A k \in Of(s) : w[k] \in Int /\ y[k] \in Int /\ IsShare(y[k], w[k], f, t)
    BY <1>4, <1>5
  <2>2. IsFiniteSet(Of(s)) /\ x[s] \in Int /\ IsShare(x[s], Sum(w, Of(s)), f, t)
    BY <1>5
  <2>3. QED
    BY <1>2, <2>1, <2>2, SharesOfGroup
<1>8. ASSUME NEW k \in Skus, Covers(c, k)
      PROVE  /\ y[k] <= x[SellerOf[k]]
             /\ a[k] - y[k] <= Sum(a, Of(SellerOf[k])) - x[SellerOf[k]]
  <2>1. PICK s \in Sellers : s = SellerOf[k]
    BY Order
  <2>2. PICK v \in Nat, u \in Nat, q \in Int, r \in Int, b \in Int :
          v = a[k] /\ u = h[s] /\ q = y[k] /\ r = x[s] /\ b = Sum(a, Of(s))
    <3>1. Sum(a, Of(s)) \in Nat
      BY <1>1, <1>5, SaleSums
    <3>2. QED
      BY <1>4, <1>5, <3>1
  <2>3. IsShare(q, v, f, t) /\ IsShare(r, u, f, t) /\ u <= b
    <3>1. w[k] = a[k]
      BY <1>1, <1>8 DEF Weights
    <3>2. QED
      BY <1>4, <1>5, <2>2, <3>1
  <2>4. v <= u
    <3>1. PICK T : T = Covered(c) \cap Of(s)
      OBVIOUS
    <3>2. k \in T /\ T \in SUBSET Skus
      BY <1>8, <2>1, <3>1 DEF Covered, Of
    <3>3. a[k] <= Sum(a, T)
      BY <1>1, <3>2, SaleSums
    <3>4. h[s] = Sum(a, T)
      BY <1>1, <3>1 DEF WeightsOf
    <3>5. QED
      BY <2>2, <3>3, <3>4
  <2>5. CASE v = u
    <3>1. q = r
      BY <1>1, <1>8, <2>2, <2>5 DEF PlatSharesOf
    <3>2. QED
      BY <2>1, <2>2, <2>3, <2>5, <3>1
  <2>6. CASE v < u
    <3>1. q <= r /\ v - q <= u - r
      BY <1>2, <2>3, <2>6, ShareGrows
    <3>2. QED
      BY <2>1, <2>2, <2>3, <3>1
  <2>7. QED
    BY <2>4, <2>5, <2>6
<1>9. ASSUME NEW s \in Sellers PROVE x[s] <= Sum(a, Of(s))
  <2>1. Sum(a, Of(s)) \in Nat
    BY <1>1, <1>5, SaleSums
  <2>2. QED
    BY <1>5, <2>1
<1>10. ASSUME NEW k \in Skus PROVE y[k] <= a[k]
  BY <1>4
<1>11. QED
  BY <1>1, <1>4, <1>5, <1>6, <1>7, <1>8, <1>9, <1>10

\* A seller's coupon: what its skus' shares miss.
LEMMA ShopShares ==
  ASSUME Typed, NEW s \in Sellers, NEW c \in UsableCodes, ~ Platform(c), Offer(c).seller_id = s,
         NEW r, \A k \in Of(s) : ShareOf(c, r, k)
  PROVE  /\ 2 * Magnitude(Offer(c).favor - Sum(r, Of(s))) <= Cardinality(Of(s))
         /\ Offer(c).favor \in Nat /\ Offer(c).favor <= Sum(sale, Of(s))
         /\ \A k \in Of(s) : r[k] \in Int /\ 0 <= r[k] /\ r[k] <= sale[k]
<1>1. PICK f, t, w : f = Offer(c).favor /\ t = Total(c) /\ w = Weights(c)
  OBVIOUS
<1>2. f \in Nat \ {0} /\ t \in Nat \ {0} /\ f <= t /\ f \in Int
  BY <1>1, Gives
<1>3. Of(s) \in SUBSET Skus /\ IsFiniteSet(Of(s)) /\ Sum(sale, Of(s)) \in Nat
  BY SellersWeights, SaleSums
<1>4. ASSUME NEW k \in Of(s)
      PROVE  /\ r[k] \in Int /\ IsShare(r[k], w[k], f, t) /\ 0 <= r[k] /\ r[k] <= sale[k]
             /\ w[k] \in Int
  <2>1. k \in Skus /\ ShareOf(c, r, k)
    BY <1>3
  <2>2. w[k] \in Nat /\ w[k] <= sale[k] /\ sale[k] \in Nat \ {0}
    BY <1>1, <2>1, WeightsType
  <2>3. r[k] \in Int /\ IsShare(r[k], w[k], f, t) /\ 0 <= r[k] /\ r[k] <= w[k]
    BY <1>1, <2>1, SkuShares
  <2>4. QED
    BY <2>2, <2>3
<1>5. Sum(w, Of(s)) = t
  <2>1. Sum(w, Of(s)) = Sum(sale, Covered(c) \cap Of(s))
    BY <1>1, <1>3, WeightsTogether
  <2>2. Offer(c) \in OfferType
    BY DEF UsableCodes, Candidates, Typed, Offer
  <2>3. Offer(c).scope_type = 1
    BY <2>2 DEF Platform, OfferType
  <2>4. Covered(c) \cap Of(s) = Covered(c)
    BY <2>3 DEF Covered, Covers, Of
  <2>5. Sum(sale, Covered(c) \cap Of(s)) = Sum(sale, Covered(c))
    BY <2>4, Zenon
  <2>6. QED
    BY <1>1, <2>1, <2>5 DEF Total
<1>6. 2 * Magnitude(f - Sum(r, Of(s))) <= Cardinality(Of(s))
  <2>1. \A k \in Of(s) : w[k] \in Int /\ r[k] \in Int /\ IsShare(r[k], w[k], f, t)
    BY <1>4
  <2>2. QED
    BY <1>2, <1>3, <1>5, <2>1, SharesOfAll
<1>7. t <= Sum(sale, Of(s))
  <2>1. \A k \in Of(s) : w[k] \in Int /\ sale[k] \in Int /\ w[k] <= sale[k]
    BY <1>1, <1>3, WeightsType
  <2>2. PICK a : a = sale
    OBVIOUS
  <2>3. Sum(w, Of(s)) <= Sum(a, Of(s))
    BY <1>3, <2>1, <2>2, SumCompare
  <2>4. QED
    BY <1>5, <2>2, <2>3
<1>8. QED
  BY <1>1, <1>2, <1>3, <1>4, <1>6, <1>7

-----------------------------------------------------------------------------
(***************************************************************************)
(* What prices have been reduced by.                                       *)
(***************************************************************************)

Amount == [pay : Int, favor : Int]

LEMMA FavorsAre ==
  ASSUME NEW p, NEW S, IsFiniteSet(S), NEW g, \A x \in S : g[x] \in Int /\ p[x].favor = g[x]
  PROVE  Favors(p, S) = Sum(g, S) /\ Favors(p, S) \in Int
<1>1. PICK f : f = [x \in S |-> p[x].favor]
  OBVIOUS
<1>2. \A x \in S : g[x] \in Int /\ g[x] = f[x]
  BY <1>1
<1>3. Sum(g, S) = Sum(f, S) /\ Sum(g, S) \in Int
  BY <1>2, SumSame, SumFold
<1>4. QED
  BY <1>1, <1>3 DEF Favors

LEMMA FavorsMoved ==
  ASSUME NEW p, NEW q, NEW S, IsFiniteSet(S), NEW g,
         \A x \in S : g[x] \in Int /\ p[x].favor \in Int /\ q[x].favor = p[x].favor + g[x]
  PROVE  Favors(q, S) = Favors(p, S) + Sum(g, S)
<1>1. PICK f, h : f = [x \in S |-> p[x].favor] /\ h = [x \in S |-> q[x].favor]
  OBVIOUS
<1>2. \A x \in S : f[x] \in Int /\ g[x] \in Int /\ h[x] = f[x] + g[x]
  BY <1>1
<1>3. Sum(h, S) = Sum(f, S) + Sum(g, S)
  BY <1>2, SumPlus
<1>4. QED
  BY <1>1, <1>3 DEF Favors

LEMMA FavorsOne ==
  ASSUME NEW p, NEW q, NEW S, IsFiniteSet(S), NEW a \in S, NEW d \in Int,
         \A x \in S : p[x].favor \in Int /\ q[x].favor = IF x = a THEN p[x].favor + d ELSE p[x].favor
  PROVE  Favors(q, S) = Favors(p, S) + d
<1>1. PICK f, h : f = [x \in S |-> p[x].favor] /\ h = [x \in S |-> q[x].favor]
  OBVIOUS
<1>2. \A x \in S : f[x] \in Int /\ h[x] \in Int /\ (x # a => h[x] = f[x])
  BY <1>1
<1>3. Sum(h, S) = Sum(f, S) + (h[a] - f[a])
  BY <1>2, SumChanged
<1>4. h[a] - f[a] = d
  BY <1>1
<1>5. QED
  BY <1>1, <1>3, <1>4 DEF Favors

LEMMA FavorsSame ==
  ASSUME NEW p, NEW q, NEW S, IsFiniteSet(S),
         \A x \in S : p[x].favor \in Int /\ q[x].favor = p[x].favor
  PROVE  Favors(q, S) = Favors(p, S)
<1>1. PICK f : f = [x \in S |-> p[x].favor]
  OBVIOUS
<1>2. \A x \in S : f[x] \in Int /\ p[x].favor = f[x] /\ q[x].favor = f[x]
  BY <1>1
<1>3. Favors(p, S) = Sum(f, S) /\ Favors(q, S) = Sum(f, S)
  BY <1>2, FavorsAre
<1>4. QED
  BY <1>3

LEMMA FavorsNone ==
  ASSUME NEW p, NEW S, IsFiniteSet(S), \A x \in S : p[x].favor = 0
  PROVE  Favors(p, S) = 0
<1>1. PICK z : z = [x \in S |-> 0]
  OBVIOUS
<1>2. \A x \in S : z[x] \in Int /\ p[x].favor = z[x] /\ z[x] = 0
  BY <1>1
<1>3. Favors(p, S) = Sum(z, S)
  BY <1>2, FavorsAre
<1>4. Sum(z, S) = 0 * Cardinality(S)
  BY <1>2, SumConstant
<1>5. Cardinality(S) \in Nat
  BY FS_CardinalityType
<1>6. QED
  BY <1>3, <1>4, <1>5

-----------------------------------------------------------------------------
(***************************************************************************)
(* The discount shared out.  What the parts miss of the whole is bounded   *)
(* by the roundings made so far (Missed, MissedOf), and a correction takes *)
(* it away unless no sku can bear it (Borne).  As long as one coupon at    *)
(* most reduces a price, everything stays between nothing and its price    *)
(* (Within); the correction of a sku goes to its seller too, who has room  *)
(* for it as he has more than the sku of both amounts (Leads).             *)
(***************************************************************************)

Priced ==
  /\ order \in Amount /\ seller \in [Sellers -> Amount] /\ sku \in [Skus -> Amount]
  /\ order.pay + order.favor = Sum(sale, Skus)
  /\ \A s \in Sellers : seller[s].pay + seller[s].favor = Sum(sale, Of(s))
  /\ \A k \in Skus : sku[k].pay + sku[k].favor = sale[k]

Full == order.favor = 0 /\ (\A s \in Sellers : seller[s].favor = 0) /\ \A k \in Skus : sku[k].favor = 0

Unshared == pc \in {"order", "listed", "moved", "explained", "sharePlat"} => Full

\* The chosen codes are what they were tested for.
Agreed ==
  /\ plat_code \in Codes \cup {NoCode} /\ shop_code \in [Sellers -> Codes \cup {NoCode}]
  /\ pc \in {"sharePlat", "shareShop", "correctSellers", "correctSkus"} \/ Divided =>
       /\ plat_code # NoCode => plat_code \in UsableCodes /\ Platform(plat_code)
       /\ \A s \in Sellers : shop_code[s] # NoCode =>
            /\ shop_code[s] \in UsableCodes
            /\ ~ Platform(shop_code[s]) /\ Offer(shop_code[s]).seller_id = s

Missed == order.favor - Favors(seller, Sellers)
MissedOf(s) == seller[s].favor - Favors(sku, Of(s))

Within ==
  /\ order.pay >= 0 /\ order.favor >= 0
  /\ \A s \in Sellers : seller[s].pay >= 0 /\ seller[s].favor >= 0
  /\ \A k \in Skus : sku[k].pay >= 0 /\ sku[k].favor >= 0

Leads ==
  \A k \in Skus : plat_code # NoCode /\ Covers(plat_code, k) =>
    sku[k].favor <= seller[SellerOf[k]].favor /\ sku[k].pay <= seller[SellerOf[k]].pay

NoShopCode == \A s \in Sellers : shop_code[s] = NoCode

AfterPlat ==
  pc = "shareShop" =>
    /\ 2 * Magnitude(Missed) <= Cardinality(Sellers)
    /\ \A s \in Sellers : 2 * Magnitude(MissedOf(s)) <= Cardinality(Of(s)) + 1
    /\ Within /\ Leads
    /\ plat_code = NoCode => Full

AfterShop ==
  pc = "correctSellers" =>
    /\ 2 * Magnitude(Missed) <= Cardinality(Sellers)
    /\ \A s \in Sellers : 2 * Magnitude(MissedOf(s)) <= 2 * Cardinality(Of(s)) + 1
    /\ plat_code = NoCode => Missed = 0 /\ Within
    /\ NoShopCode => Within /\ Leads

LEMMA PricedTypes ==
  ASSUME Priced
  PROVE  /\ order.pay \in Int /\ order.favor \in Int
         /\ \A s \in Sellers : seller[s].pay \in Int /\ seller[s].favor \in Int
         /\ \A k \in Skus : sku[k].pay \in Int /\ sku[k].favor \in Int
BY DEF Priced, Amount

LEMMA DiscountedAmount ==
  ASSUME NEW p \in Amount, NEW d \in Int
  PROVE  /\ Discounted(p, d) \in Amount /\ Corrected(p, d) \in Amount
         /\ Discounted(p, d).pay = p.pay - d /\ Discounted(p, d).favor = p.favor + d
         /\ Corrected(p, d).pay = p.pay - d /\ Corrected(p, d).favor = p.favor + d
         /\ p.pay \in Int /\ p.favor \in Int
BY DEF Amount, Discounted, Corrected

\* Nothing is missed of nothing.
LEMMA FullMisses ==
  ASSUME Full
  PROVE  Missed = 0 /\ \A s \in Sellers : MissedOf(s) = 0
<1>1. PICK p, q : p = seller /\ q = sku
  OBVIOUS
<1>2. Favors(p, Sellers) = 0
  <2>1. IsFiniteSet(Sellers) /\ \A s \in Sellers : p[s].favor = 0
    BY <1>1, Order DEF Full
  <2>2. QED
    BY <2>1, FavorsNone
<1>3. ASSUME NEW s \in Sellers PROVE Favors(q, Of(s)) = 0
  <2>1. IsFiniteSet(Of(s)) /\ \A k \in Of(s) : q[k].favor = 0
    <3>1. Of(s) \in SUBSET Skus /\ IsFiniteSet(Skus)
      BY Order DEF Of
    <3>2. IsFiniteSet(Of(s))
      BY <3>1, FS_Subset
    <3>3. QED
      BY <1>1, <3>1, <3>2 DEF Full
  <2>2. QED
    BY <2>1, FavorsNone
<1>4. QED
  BY <1>1, <1>2, <1>3 DEF Full, Missed, MissedOf

\* An order nothing has been taken off.
LEMMA FullWithin ==
  ASSUME Typed, Priced, Full PROVE Within /\ Leads
<1>1. Sum(sale, Skus) \in Nat /\ \A k \in Skus : sale[k] \in Nat \ {0}
  BY SaleSums
<1>2. \A s \in Sellers : Sum(sale, Of(s)) \in Nat
  BY SellersWeights, SaleSums
<1>3. /\ order.pay = Sum(sale, Skus) /\ order.favor = 0
      /\ \A s \in Sellers : seller[s].pay = Sum(sale, Of(s)) /\ seller[s].favor = 0
      /\ \A k \in Skus : sku[k].pay = sale[k] /\ sku[k].favor = 0
  <2>1. order.pay = Sum(sale, Skus)
    BY PricedTypes DEF Priced, Full
  <2>2. ASSUME NEW s \in Sellers PROVE seller[s].pay = Sum(sale, Of(s))
    BY PricedTypes DEF Priced, Full
  <2>3. ASSUME NEW k \in Skus PROVE sku[k].pay = sale[k]
    BY PricedTypes DEF Priced, Full
  <2>4. QED
    BY <2>1, <2>2, <2>3 DEF Full
<1>4. ASSUME NEW k \in Skus PROVE sale[k] <= Sum(sale, Of(SellerOf[k]))
  <2>1. SellerOf[k] \in Sellers /\ k \in Of(SellerOf[k])
    BY Order DEF Of
  <2>2. Of(SellerOf[k]) \in SUBSET Skus
    BY <2>1, SellersWeights
  <2>3. QED
    BY <2>1, <2>2, SaleSums
<1>5. \A k \in Skus : SellerOf[k] \in Sellers
  BY Order
<1>6. QED
  BY <1>1, <1>2, <1>3, <1>4, <1>5 DEF Within, Leads

LEMMA SellersAndSkus ==
  ASSUME Typed
  PROVE  /\ IsFiniteSet(Sellers) /\ Cardinality(Sellers) \in Nat /\ Cardinality(Skus) \in Nat
         /\ \A k \in Skus : SellerOf[k] \in Sellers /\ k \in Of(SellerOf[k]) /\ sale[k] \in Nat \ {0}
         /\ \A s \in Sellers : /\ Of(s) \in SUBSET Skus /\ IsFiniteSet(Of(s))
                               /\ Cardinality(Of(s)) \in Nat /\ Sum(sale, Of(s)) \in Nat
         /\ Sum(sale, Skus) \in Nat
<1>1. IsFiniteSet(Sellers) /\ IsFiniteSet(Skus) /\ \A k \in Skus : SellerOf[k] \in Sellers
  BY Order
<1>2. Cardinality(Sellers) \in Nat /\ Cardinality(Skus) \in Nat
  BY <1>1, FS_CardinalityType
<1>3. \A s \in Sellers : Of(s) \in SUBSET Skus /\ IsFiniteSet(Of(s)) /\ Sum(sale, Of(s)) \in Nat
  BY SellersWeights, SaleSums
<1>4. \A s \in Sellers : Cardinality(Of(s)) \in Nat
  BY <1>3, FS_CardinalityType
<1>5. \A k \in Skus : k \in Of(SellerOf[k]) /\ sale[k] \in Nat \ {0}
  BY SaleSums DEF Of
<1>6. Sum(sale, Skus) \in Nat
  BY SaleSums
<1>7. QED
  BY <1>1, <1>2, <1>3, <1>4, <1>5, <1>6

LEMMA SharePlatDoes ==
  ASSUME Typed, Priced, Unshared, Agreed, SharePlat
  PROVE  Priced' /\ AfterPlat'
<1>1. pc = "sharePlat" /\ UNCHANGED <<wallet, sale, plat_code, shop_code>> /\ Full /\ pc' = "shareShop"
  BY DEF SharePlat, Unshared, data, choice
<1>2. CASE plat_code = NoCode
  <2>1. UNCHANGED <<order, seller, sku>>
    BY <1>2 DEF SharePlat, prices
  <2>2. Missed = 0 /\ (\A s \in Sellers : MissedOf(s) = 0) /\ Within /\ Leads
    BY <1>1, FullMisses, FullWithin
  <2>3. Cardinality(Sellers) \in Nat /\ \A s \in Sellers : Cardinality(Of(s)) \in Nat
    BY SellersAndSkus
  <2>4. Missed' = Missed /\ \A s \in Sellers : MissedOf(s)' = MissedOf(s)
    BY <2>1 DEF Missed, MissedOf
  <2>5. Within' /\ Leads' /\ Full' /\ Priced'
    BY <1>1, <2>1, <2>2 DEF Within, Leads, Full, Priced, Covers, Offer
  <2>6. Magnitude(0) = 0
    BY DEF Magnitude
  <2>7. QED
    BY <2>2, <2>3, <2>4, <2>5, <2>6 DEF AfterPlat
<1>3. CASE plat_code # NoCode
  <2>1. PICK c, f, t : c = plat_code /\ f = Offer(c).favor /\ t = Total(c)
    OBVIOUS
  <2>2. c \in UsableCodes
    BY <1>1, <1>3, <2>1 DEF Agreed
  <2>3. PICK down :
          /\ order' = Discounted(order, f)
          /\ seller' = [s \in Sellers |->
               Discounted(seller[s], RoundTo(Sum(sale, Covered(c) \cap Of(s)) * f, t,
                                             Sum(sale, Covered(c) \cap Of(s)) * f \in down))]
          /\ sku' = [k \in Skus |->
               IF Covers(c, k) THEN Discounted(sku[k], RoundTo(sale[k] * f, t, sale[k] * f \in down))
               ELSE sku[k]]
    <3>1. PICK part : part = [s \in Sellers |-> Sum(sale, Covered(c) \cap Of(s)) * f]
      OBVIOUS
    <3>2. \E down :
          /\ order' = Discounted(order, f)
          /\ seller' = [s \in Sellers |-> Discounted(seller[s], RoundTo(part[s], t, part[s] \in down))]
          /\ sku' = [k \in Skus |->
               IF Covers(c, k) THEN Discounted(sku[k], RoundTo(sale[k] * f, t, sale[k] * f \in down))
               ELSE sku[k]]
      BY <1>3, <2>1, <3>1 DEF SharePlat
    <3>3. QED
      BY <3>1, <3>2
  <2>4. PICK x : x = [s \in Sellers |-> RoundTo(WeightsOf(c)[s] * f, t, WeightsOf(c)[s] * f \in down)]
    OBVIOUS
  <2>5. PICK y : y = [k \in Skus |-> IF Covers(c, k) THEN RoundTo(sale[k] * f, t, sale[k] * f \in down) ELSE 0]
    OBVIOUS
  <2>6. /\ 2 * Magnitude(f - Sum(x, Sellers)) <= Cardinality(Sellers)
        /\ \A s \in Sellers :
             /\ x[s] \in Int /\ 0 <= x[s] /\ x[s] <= Sum(sale, Of(s))
             /\ 2 * Magnitude(x[s] - Sum(y, Of(s))) <= Cardinality(Of(s)) + 1
        /\ \A k \in Skus :
             /\ y[k] \in Int /\ 0 <= y[k] /\ y[k] <= sale[k]
             /\ Covers(c, k) =>
                  /\ y[k] <= x[SellerOf[k]]
                  /\ sale[k] - y[k] <= Sum(sale, Of(SellerOf[k])) - x[SellerOf[k]]
    <3>1. \A s \in Sellers :
            x[s] = RoundTo(WeightsOf(c)[s] * Offer(c).favor, Total(c),
                           WeightsOf(c)[s] * Offer(c).favor \in down)
      BY <2>1, <2>4
    <3>2. \A k \in Skus :
            /\ Covers(c, k) => y[k] = RoundTo(sale[k] * Offer(c).favor, Total(c),
                                              sale[k] * Offer(c).favor \in down)
            /\ ~ Covers(c, k) => y[k] = 0
      BY <2>1, <2>5
    <3>3. PlatSharesOf(c, down, x, y)
      BY <3>1, <3>2 DEF PlatSharesOf
    <3>4. QED
      BY <2>1, <2>2, <3>3, PlatShares
  <2>7. f \in Nat \ {0} /\ f <= Sum(sale, Skus) /\ f \in Int
    BY <2>1, <2>2, Gives, SaleSums
  <2>8. order' \in Amount /\ order'.pay = order.pay - f /\ order'.favor = f
    <3>1. PICK p \in Amount : p = order
      BY DEF Priced
    <3>2. p.favor = 0
      BY <1>1, <3>1 DEF Full
    <3>3. QED
      BY <2>3, <2>7, <3>1, <3>2 DEF Discounted, Amount
  <2>9. ASSUME NEW s \in Sellers
        PROVE  seller'[s] \in Amount /\ seller'[s].pay = seller[s].pay - x[s] /\ seller'[s].favor = x[s]
    <3>1. seller'[s] = Discounted(seller[s], x[s])
      BY <2>3, <2>4 DEF WeightsOf
    <3>2. PICK p \in Amount, d \in Int : p = seller[s] /\ d = x[s] /\ p.favor = 0
      BY <1>1, <2>6 DEF Priced, Full
    <3>3. QED
      BY <3>1, <3>2 DEF Discounted, Amount
  <2>10. ASSUME NEW k \in Skus
         PROVE  sku'[k] \in Amount /\ sku'[k].pay = sku[k].pay - y[k] /\ sku'[k].favor = y[k]
    <3>1. sku[k] \in Amount /\ y[k] \in Int /\ sku[k].favor = 0 /\ sku[k].pay \in Int
      BY <1>1, <2>6, PricedTypes DEF Priced, Full
    <3>2. CASE Covers(c, k)
      <4>1. sku'[k] = Discounted(sku[k], y[k])
        BY <2>3, <2>5, <3>2
      <4>2. PICK p \in Amount, d \in Int : p = sku[k] /\ d = y[k] /\ p.favor = 0
        BY <3>1
      <4>3. QED
        BY <4>1, <4>2 DEF Discounted, Amount
    <3>3. CASE ~ Covers(c, k)
      <4>1. sku'[k] = sku[k] /\ y[k] = 0
        BY <2>3, <2>5, <3>3
      <4>2. QED
        BY <3>1, <4>1
    <3>4. QED
      BY <3>2, <3>3
  <2>11. /\ order.pay = Sum(sale, Skus)
         /\ \A s \in Sellers : seller[s].pay = Sum(sale, Of(s))
         /\ \A k \in Skus : sku[k].pay = sale[k]
    <3>1. order.pay = Sum(sale, Skus)
      BY <1>1, PricedTypes DEF Priced, Full
    <3>2. ASSUME NEW s \in Sellers PROVE seller[s].pay = Sum(sale, Of(s))
      BY <1>1, PricedTypes DEF Priced, Full
    <3>3. ASSUME NEW k \in Skus PROVE sku[k].pay = sale[k]
      BY <1>1, PricedTypes DEF Priced, Full
    <3>4. QED
      BY <3>1, <3>2, <3>3
  <2>12. /\ Sum(sale, Skus) \in Nat /\ \A k \in Skus : sale[k] \in Nat \ {0} /\ SellerOf[k] \in Sellers
         /\ \A s \in Sellers : Sum(sale, Of(s)) \in Nat /\ IsFiniteSet(Of(s)) /\ Of(s) \in SUBSET Skus
         /\ IsFiniteSet(Sellers)
    BY SellersAndSkus
  <2>13. PICK o, p, q, a : o = order' /\ p = seller' /\ q = sku' /\ a = sale
    OBVIOUS
  <2>14. Priced'
    <3>1. seller' \in [Sellers -> Amount] /\ sku' \in [Skus -> Amount]
      BY <2>3, <2>9, <2>10
    <3>2. order'.pay + order'.favor = Sum(sale, Skus)
      BY <2>7, <2>8, <2>11, <2>12
    <3>3. ASSUME NEW s \in Sellers PROVE seller'[s].pay + seller'[s].favor = Sum(sale, Of(s))
      BY <2>6, <2>9, <2>11, <2>12
    <3>4. ASSUME NEW k \in Skus PROVE sku'[k].pay + sku'[k].favor = sale[k]
      BY <2>6, <2>10, <2>11, <2>12
    <3>5. QED
      BY <1>1, <2>8, <3>1, <3>2, <3>3, <3>4 DEF Priced
  <2>15. Missed' = f - Sum(x, Sellers)
    <3>1. \A s \in Sellers : x[s] \in Int /\ p[s].favor = x[s]
      BY <2>6, <2>9, <2>13
    <3>2. Favors(p, Sellers) = Sum(x, Sellers)
      BY <2>12, <3>1, FavorsAre
    <3>3. QED
      BY <2>8, <2>13, <3>2 DEF Missed
  <2>16. ASSUME NEW s \in Sellers PROVE MissedOf(s)' = x[s] - Sum(y, Of(s))
    <3>1. \A k \in Of(s) : y[k] \in Int /\ q[k].favor = y[k]
      BY <2>6, <2>10, <2>12, <2>13
    <3>2. Favors(q, Of(s)) = Sum(y, Of(s))
      BY <2>12, <3>1, FavorsAre
    <3>3. QED
      BY <2>9, <2>13, <3>2 DEF MissedOf
  <2>17. Within'
    BY <2>6, <2>7, <2>8, <2>9, <2>10, <2>11, <2>12 DEF Within
  <2>18. Leads'
    <3>1. ASSUME NEW k \in Skus, Covers(c, k)
          PROVE  sku'[k].favor <= seller'[SellerOf[k]].favor /\ sku'[k].pay <= seller'[SellerOf[k]].pay
      BY <2>6, <2>9, <2>10, <2>11, <2>12, <3>1
    <3>2. \A k \in Skus : Covers(plat_code, k)' <=> Covers(c, k)
      BY <1>1, <2>1 DEF Covers, Offer
    <3>3. QED
      BY <3>1, <3>2 DEF Leads
  <2>19. QED
    BY <1>1, <1>3, <2>6, <2>14, <2>15, <2>16, <2>17, <2>18 DEF AfterPlat
<1>4. QED
  BY <1>2, <1>3

\* What the skus of all sellers cost.
LEMMA SaleOfSellers ==
  ASSUME Typed, NEW h, \A s \in Sellers : h[s] = Sum(sale, Of(s))
  PROVE  Sum(h, Sellers) = Sum(sale, Skus)
<1>1. PICK a : a = sale
  OBVIOUS
<1>2. IsFiniteSet(Skus) /\ IsFiniteSet(Sellers) /\ \A k \in Skus : SellerOf[k] \in Sellers
  BY Order
<1>3. \A k \in Skus : a[k] \in Int
  BY <1>1, SellersAndSkus
<1>4. PICK G : G = [s \in Sellers |-> Of(s)]
  OBVIOUS
<1>5. \A s \in Sellers : G[s] \in SUBSET Skus /\ \A k \in Skus : k \in G[s] <=> SellerOf[k] = s
  BY <1>4 DEF Of
<1>6. \A s \in Sellers : h[s] = Sum(a, G[s])
  BY <1>1, <1>4
<1>7. Sum(h, Sellers) = Sum(a, Skus)
  BY <1>2, <1>3, <1>5, <1>6, SumGrouped
<1>8. QED
  BY <1>1, <1>7

\* The discounts of the sellers' coupons, and their skus' shares.
ShopFavors == [s \in Sellers |-> IF shop_code[s] = NoCode THEN 0 ELSE Offer(shop_code[s]).favor]
ShopSharesOf(z) ==
  \A s \in Sellers : \A k \in Of(s) :
    /\ shop_code[s] = NoCode => z[k] = 0
    /\ shop_code[s] # NoCode => ShareOf(shop_code[s], z, k)

LEMMA ShopSharesEach ==
  ASSUME Typed, NEW z, ShopSharesOf(z), NEW s \in Sellers,
         shop_code[s] # NoCode => /\ shop_code[s] \in UsableCodes
                                  /\ ~ Platform(shop_code[s]) /\ Offer(shop_code[s]).seller_id = s
  PROVE  /\ ShopFavors[s] \in Nat /\ ShopFavors[s] <= Sum(sale, Of(s))
         /\ 2 * Magnitude(ShopFavors[s] - Sum(z, Of(s))) <= Cardinality(Of(s))
         /\ \A k \in Of(s) : z[k] \in Int /\ 0 <= z[k] /\ z[k] <= sale[k]
<1>1. /\ IsFiniteSet(Of(s)) /\ Cardinality(Of(s)) \in Nat /\ Sum(sale, Of(s)) \in Nat
      /\ \A k \in Of(s) : sale[k] \in Nat
  BY SellersAndSkus
<1>2. CASE shop_code[s] = NoCode
  <2>1. ShopFavors[s] = 0 /\ \A k \in Of(s) : z[k] = 0
    BY <1>2 DEF ShopFavors, ShopSharesOf
  <2>2. Sum(z, Of(s)) = 0 * Cardinality(Of(s))
    BY <1>1, <2>1, SumConstant
  <2>3. Magnitude(0) = 0
    BY DEF Magnitude
  <2>4. ShopFavors[s] - Sum(z, Of(s)) = 0
    BY <1>1, <2>1, <2>2
  <2>5. QED
    BY <1>1, <2>1, <2>3, <2>4
<1>3. CASE shop_code[s] # NoCode
  <2>1. PICK c : c = shop_code[s]
    OBVIOUS
  <2>2. ShopFavors[s] = Offer(c).favor
    BY <1>3, <2>1 DEF ShopFavors
  <2>3. c \in UsableCodes /\ ~ Platform(c) /\ Offer(c).seller_id = s
    BY <1>3, <2>1
  <2>4. \A k \in Of(s) : ShareOf(c, z, k)
    BY <1>3, <2>1 DEF ShopSharesOf
  <2>5. QED
    BY <2>2, <2>3, <2>4, ShopShares
<1>4. QED
  BY <1>2, <1>3

LEMMA Triangle ==
  ASSUME NEW a \in Int, NEW b \in Int
  PROVE  Magnitude(a + b) <= Magnitude(a) + Magnitude(b) /\ Magnitude(a) \in Nat
BY DEF Magnitude

LEMMA ShareShopDoes ==
  ASSUME Typed, Priced, AfterPlat, Agreed, ShareShop
  PROVE  Priced' /\ AfterShop'
<1>1. pc = "shareShop" /\ UNCHANGED <<wallet, sale, plat_code, shop_code>> /\ pc' = "correctSellers"
  BY DEF ShareShop, data, choice
<1>2. /\ 2 * Magnitude(Missed) <= Cardinality(Sellers)
      /\ \A s \in Sellers : 2 * Magnitude(MissedOf(s)) <= Cardinality(Of(s)) + 1
      /\ Within /\ Leads
      /\ plat_code = NoCode => Full
  BY <1>1 DEF AfterPlat
<1>3. /\ IsFiniteSet(Sellers) /\ Cardinality(Sellers) \in Nat
      /\ \A k \in Skus : SellerOf[k] \in Sellers /\ k \in Of(SellerOf[k]) /\ sale[k] \in Nat \ {0}
      /\ \A s \in Sellers : /\ Of(s) \in SUBSET Skus /\ IsFiniteSet(Of(s))
                            /\ Cardinality(Of(s)) \in Nat /\ Sum(sale, Of(s)) \in Nat
      /\ Sum(sale, Skus) \in Nat
  BY SellersAndSkus
<1>4. PICK f : f = ShopFavors
  OBVIOUS
<1>5. PICK z, o, p, q :
        /\ o = order' /\ p = seller' /\ q = sku'
        /\ o = Discounted(order, Sum(f, Sellers))
        /\ p = [s \in Sellers |-> Discounted(seller[s], f[s])]
        /\ ShopSharesOf(z)
        /\ q \in [Skus -> {q[k] : k \in Skus}]
        /\ \A k \in Skus : q[k] = Discounted(sku[k], z[k]) \/ (q[k] = sku[k] /\ z[k] = 0)
  <2>1. PICK favor : favor = [s \in Sellers |->
                    IF shop_code[s] = NoCode THEN 0 ELSE Offer(shop_code[s]).favor]
    OBVIOUS
  <2>2. /\ order' = Discounted(order, Sum(favor, Sellers))
        /\ seller' = [s \in Sellers |-> Discounted(seller[s], favor[s])]
        /\ \E down :
             sku' = [k \in Skus |->
               IF shop_code[SellerOf[k]] # NoCode /\ Covers(shop_code[SellerOf[k]], k)
               THEN Discounted(sku[k], RoundTo(sale[k] * favor[SellerOf[k]], Total(shop_code[SellerOf[k]]),
                                <<SellerOf[k], sale[k] * favor[SellerOf[k]]>> \in down))
               ELSE sku[k]]
    BY <2>1 DEF ShareShop
  <2>3. PICK down :
             sku' = [k \in Skus |->
               IF shop_code[SellerOf[k]] # NoCode /\ Covers(shop_code[SellerOf[k]], k)
               THEN Discounted(sku[k], RoundTo(sale[k] * favor[SellerOf[k]], Total(shop_code[SellerOf[k]]),
                                <<SellerOf[k], sale[k] * favor[SellerOf[k]]>> \in down))
               ELSE sku[k]]
    BY <2>2
  <2>4. PICK r : r = [k \in Skus |->
               IF shop_code[SellerOf[k]] # NoCode /\ Covers(shop_code[SellerOf[k]], k)
               THEN RoundTo(sale[k] * favor[SellerOf[k]], Total(shop_code[SellerOf[k]]),
                            <<SellerOf[k], sale[k] * favor[SellerOf[k]]>> \in down)
               ELSE 0]
    OBVIOUS
  <2>5. ASSUME NEW k \in Skus
        PROVE  sku'[k] = Discounted(sku[k], r[k]) \/ (sku'[k] = sku[k] /\ r[k] = 0)
    BY <2>3, <2>4
  <2>6. ShopSharesOf(r)
    <3>1. ASSUME NEW s \in Sellers, NEW k \in Of(s), shop_code[s] = NoCode PROVE r[k] = 0
      BY <2>4, <3>1 DEF Of
    <3>2. ASSUME NEW s \in Sellers, NEW k \in Of(s), shop_code[s] # NoCode
          PROVE  ShareOf(shop_code[s], r, k)
      <4>1. k \in Skus /\ SellerOf[k] = s /\ favor[s] = Offer(shop_code[s]).favor
        BY <2>1, <3>2 DEF Of
      <4>2. QED
        BY <2>4, <3>2, <4>1 DEF ShareOf
    <3>3. QED
      BY <3>1, <3>2 DEF ShopSharesOf
  <2>7. favor = f
    BY <1>4, <2>1 DEF ShopFavors
  <2>8. PICK o, p, q : o = order' /\ p = seller' /\ q = sku'
    OBVIOUS
  <2>9. q \in [Skus -> {q[k] : k \in Skus}]
    BY <2>3, <2>8
  <2>10. o = Discounted(order, Sum(f, Sellers)) /\ p = [s \in Sellers |-> Discounted(seller[s], f[s])]
    BY <2>2, <2>7, <2>8
  <2>11. \A k \in Skus : q[k] = Discounted(sku[k], r[k]) \/ (q[k] = sku[k] /\ r[k] = 0)
    BY <2>5, <2>8
  <2>12. QED
    BY <2>6, <2>8, <2>9, <2>10, <2>11
<1>6. \A s \in Sellers :
        /\ f[s] \in Nat /\ f[s] <= Sum(sale, Of(s))
        /\ 2 * Magnitude(f[s] - Sum(z, Of(s))) <= Cardinality(Of(s))
        /\ \A k \in Of(s) : z[k] \in Int /\ 0 <= z[k] /\ z[k] <= sale[k]
  <2>1. \A s \in Sellers : shop_code[s] # NoCode =>
               /\ shop_code[s] \in UsableCodes
               /\ ~ Platform(shop_code[s]) /\ Offer(shop_code[s]).seller_id = s
    BY <1>1 DEF Agreed
  <2>2. QED
    BY <1>4, <1>5, <2>1, ShopSharesEach
<1>7. PICK F \in Nat : F = Sum(f, Sellers) /\ F <= Sum(sale, Skus)
  <2>1. PICK h : h = [s \in Sellers |-> Sum(sale, Of(s))]
    OBVIOUS
  <2>2. \A s \in Sellers : f[s] \in Int /\ h[s] \in Int /\ f[s] <= h[s] /\ f[s] \in Nat
    BY <1>3, <1>6, <2>1
  <2>3. Sum(f, Sellers) <= Sum(h, Sellers)
    BY <1>3, <2>2, SumCompare
  <2>4. Sum(h, Sellers) = Sum(sale, Skus)
    BY <2>1, SaleOfSellers
  <2>5. 0 <= Sum(f, Sellers) /\ Sum(f, Sellers) \in Int
    BY <1>3, <2>2, SumWithin, SumFold
  <2>6. QED
    BY <2>3, <2>4, <2>5
<1>8. /\ order.pay \in Int /\ order.favor \in Int
      /\ \A s \in Sellers : seller[s].pay \in Int /\ seller[s].favor \in Int
      /\ \A k \in Skus : sku[k].pay \in Int /\ sku[k].favor \in Int
      /\ \A k \in Skus : z[k] \in Int /\ 0 <= z[k] /\ z[k] <= sale[k]
  <2>1. \A k \in Skus : z[k] \in Int /\ 0 <= z[k] /\ z[k] <= sale[k]
    BY <1>3, <1>6
  <2>2. QED
    BY <2>1, PricedTypes
<1>9. o \in Amount /\ o.pay = order.pay - F /\ o.favor = order.favor + F
  BY <1>5, <1>7, <1>8 DEF Discounted, Amount
<1>10. ASSUME NEW s \in Sellers
       PROVE  p[s] \in Amount /\ p[s].pay = seller[s].pay - f[s] /\ p[s].favor = seller[s].favor + f[s]
  <2>1. p[s] = Discounted(seller[s], f[s]) /\ f[s] \in Int
    BY <1>5, <1>6
  <2>2. QED
    BY <1>8, <2>1 DEF Discounted, Amount
<1>11. ASSUME NEW k \in Skus
       PROVE  q[k] \in Amount /\ q[k].pay = sku[k].pay - z[k] /\ q[k].favor = sku[k].favor + z[k]
  <2>1. sku[k] \in Amount
    BY DEF Priced
  <2>2. CASE q[k] = sku[k] /\ z[k] = 0
    BY <1>8, <2>1, <2>2
  <2>3. CASE q[k] = Discounted(sku[k], z[k])
    BY <1>8, <2>3 DEF Discounted, Amount
  <2>4. QED
    BY <1>5, <2>2, <2>3
<1>12. Priced'
  <2>1. p \in [Sellers -> Amount] /\ q \in [Skus -> Amount]
    BY <1>5, <1>10, <1>11
  <2>2. o.pay + o.favor = Sum(sale, Skus)
    BY <1>7, <1>8, <1>9 DEF Priced
  <2>3. ASSUME NEW s \in Sellers PROVE p[s].pay + p[s].favor = Sum(sale, Of(s))
    BY <1>6, <1>8, <1>10 DEF Priced
  <2>4. ASSUME NEW k \in Skus PROVE q[k].pay + q[k].favor = sale[k]
    BY <1>8, <1>11 DEF Priced
  <2>5. QED
    BY <1>1, <1>5, <1>9, <2>1, <2>2, <2>3, <2>4 DEF Priced
<1>13. PICK b, e : b = seller /\ e = sku
  OBVIOUS
<1>14. Missed' = Missed /\ Missed \in Int
  <2>1. \A s \in Sellers : f[s] \in Int /\ b[s].favor \in Int /\ p[s].favor = b[s].favor + f[s]
    BY <1>6, <1>8, <1>10, <1>13
  <2>2. Favors(p, Sellers) = Favors(b, Sellers) + F
    BY <1>3, <1>7, <2>1, FavorsMoved
  <2>3. Favors(b, Sellers) \in Int
    <3>1. PICK g : g = [s \in Sellers |-> b[s].favor]
      OBVIOUS
    <3>2. \A s \in Sellers : g[s] \in Int /\ b[s].favor = g[s]
      BY <2>1, <3>1
    <3>3. QED
      BY <1>3, <3>2, FavorsAre
  <2>4. Missed = order.favor - Favors(b, Sellers) /\ Missed' = o.favor - Favors(p, Sellers)
    BY <1>5, <1>13 DEF Missed
  <2>5. QED
    BY <1>8, <1>9, <2>2, <2>3, <2>4
<1>15. ASSUME NEW s \in Sellers
       PROVE  2 * Magnitude(MissedOf(s)') <= 2 * Cardinality(Of(s)) + 1
  <2>1. \A k \in Of(s) : z[k] \in Int /\ e[k].favor \in Int /\ q[k].favor = e[k].favor + z[k]
    BY <1>3, <1>8, <1>11, <1>13
  <2>2. Favors(q, Of(s)) = Favors(e, Of(s)) + Sum(z, Of(s))
    BY <1>3, <2>1, FavorsMoved
  <2>3. Favors(e, Of(s)) \in Int /\ Sum(z, Of(s)) \in Int
    <3>1. PICK g : g = [k \in Of(s) |-> e[k].favor]
      OBVIOUS
    <3>2. \A k \in Of(s) : g[k] \in Int /\ e[k].favor = g[k]
      BY <2>1, <3>1
    <3>3. Favors(e, Of(s)) \in Int
      BY <1>3, <3>2, FavorsAre
    <3>4. Sum(z, Of(s)) \in Int
      BY <1>3, <2>1, SumFold
    <3>5. QED
      BY <3>3, <3>4
  <2>4. PICK m \in Int, n \in Int : m = MissedOf(s) /\ n = f[s] - Sum(z, Of(s))
    BY <1>6, <1>8, <1>13, <2>3 DEF MissedOf
  <2>5. MissedOf(s)' = m + n
    <3>1. MissedOf(s)' = p[s].favor - Favors(q, Of(s)) /\ MissedOf(s) = b[s].favor - Favors(e, Of(s))
      BY <1>5, <1>13 DEF MissedOf
    <3>2. QED
      BY <1>6, <1>8, <1>10, <1>13, <2>2, <2>3, <2>4, <3>1
  <2>6. 2 * Magnitude(m) <= Cardinality(Of(s)) + 1 /\ 2 * Magnitude(n) <= Cardinality(Of(s))
    BY <1>2, <1>6, <2>4
  <2>7. Magnitude(m + n) <= Magnitude(m) + Magnitude(n) /\ Magnitude(m) \in Nat /\ Magnitude(n) \in Nat
        /\ Magnitude(m + n) \in Nat
    BY Triangle
  <2>8. QED
    BY <1>3, <2>5, <2>6, <2>7
<1>16. ASSUME plat_code = NoCode PROVE Missed = 0 /\ Within'
  <2>1. Full
    BY <1>2, <1>16
  <2>2. Missed = 0
    BY <2>1, FullMisses
  <2>3. o.pay >= 0 /\ o.favor >= 0
    BY <1>7, <1>8, <1>9, <2>1 DEF Full, Priced
  <2>4. ASSUME NEW s \in Sellers PROVE p[s].pay >= 0 /\ p[s].favor >= 0
    BY <1>6, <1>8, <1>10, <2>1 DEF Full, Priced
  <2>5. ASSUME NEW k \in Skus PROVE q[k].pay >= 0 /\ q[k].favor >= 0
    BY <1>8, <1>11, <2>1 DEF Full, Priced
  <2>6. QED
    BY <1>5, <2>2, <2>3, <2>4, <2>5 DEF Within
<1>17. ASSUME NoShopCode PROVE Within' /\ Leads'
  <2>1. \A s \in Sellers : f[s] = 0
    BY <1>4, <1>17 DEF NoShopCode, ShopFavors
  <2>2. \A k \in Skus : z[k] = 0
    BY <1>3, <1>5, <1>17 DEF NoShopCode, ShopSharesOf
  <2>3. F = 0
    <3>1. F = 0 * Cardinality(Sellers)
      BY <1>3, <1>7, <2>1, SumConstant
    <3>2. QED
      BY <1>3, <3>1
  <2>4. /\ o.pay = order.pay /\ o.favor = order.favor
        /\ \A s \in Sellers : p[s].pay = seller[s].pay /\ p[s].favor = seller[s].favor
        /\ \A k \in Skus : q[k].pay = sku[k].pay /\ q[k].favor = sku[k].favor
    BY <1>8, <1>9, <1>10, <1>11, <2>1, <2>2, <2>3
  <2>5. Within'
    BY <1>2, <1>5, <2>4 DEF Within
  <2>6. \A k \in Skus : Covers(plat_code, k)' <=> Covers(plat_code, k)
    BY <1>1 DEF Covers, Offer
  <2>7. Leads'
    BY <1>1, <1>2, <1>3, <1>5, <2>4, <2>6 DEF Leads
  <2>8. QED
    BY <2>5, <2>7
<1>18. NoShopCode' <=> NoShopCode
  BY <1>1 DEF NoShopCode
<1>19. QED
  BY <1>1, <1>2, <1>12, <1>14, <1>15, <1>16, <1>17, <1>18 DEF AfterShop

\* What is missed is corrected, or nobody could bear it.
Borne(S, d) ==
  d = 0 \/ Cardinality(Skus) >= UpLimit \/ \A k \in S : MayBear(k) => Margin(k, d) <= 0

AfterSellers ==
  pc = "correctSkus" =>
    /\ 2 * Magnitude(Missed) <= Cardinality(Sellers)
    /\ Borne(Skus, Missed)
    /\ \A s \in Sellers : 2 * Magnitude(MissedOf(s)) <= 2 * Cardinality(Of(s)) + 1
    /\ plat_code = NoCode \/ NoShopCode => Within

\* The first of some skus, in the order the maps are walked.
LEMMA FirstOne ==
  ASSUME NEW T \in SUBSET Skus, T # {}
  PROVE  \E a \in T : \A k \in Skus : First(k, T) <=> k = a
<1>1. T \in SUBSET Nat
  BY Order
<1>2. PICK a \in T : \A k \in T : a <= k
  BY <1>1, Smallest
<1>3. ASSUME NEW k \in Skus PROVE First(k, T) <=> k = a
  <2>1. First(a, T)
    BY <1>2 DEF First
  <2>2. ASSUME First(k, T) PROVE k = a
    <3>1. k \in T /\ k <= a /\ a <= k
      BY <1>2, <2>2 DEF First
    <3>2. k \in Nat /\ a \in Nat
      BY <1>1, <3>1
    <3>3. QED
      BY <3>1, <3>2
  <2>3. QED
    BY <2>1, <2>2
<1>4. QED
  BY <1>3

\* Every seller has a sku.
LEMMA SellersFewer ==
  /\ Cardinality(Sellers) <= Cardinality(Skus)
  /\ \A s \in Sellers : Cardinality(Of(s)) + Cardinality(Sellers) <= Cardinality(Skus) + 1
  /\ Cardinality(Sellers) >= 1
  /\ \A s \in Sellers : Cardinality(Of(s)) >= 1
<1>1. IsFiniteSet(Skus) /\ IsFiniteSet(Sellers) /\ Skus # {} /\ \A k \in Skus : SellerOf[k] \in Sellers
  BY Order
<1>2. \A s \in Sellers : Of(s) \in SUBSET Skus /\ IsFiniteSet(Of(s)) /\ Of(s) # {}
  <2>1. \A s \in Sellers : Of(s) \in SUBSET Skus /\ Of(s) # {}
    BY DEF Of, Sellers
  <2>2. QED
    BY <1>1, <2>1, FS_Subset
<1>3. ASSUME NEW s \in Sellers
      PROVE  /\ Cardinality(Of(s)) + Cardinality(Sellers) <= Cardinality(Skus) + 1
             /\ Cardinality(Of(s)) >= 1 /\ Cardinality(Sellers) >= 1
  <2>1. PICK A, B : A = Skus \ Of(s) /\ B = Sellers \ {s}
    OBVIOUS
  <2>2. IsFiniteSet(A) /\ Cardinality(A) = Cardinality(Skus) - Cardinality(Skus \cap Of(s))
    BY <1>1, <2>1, FS_Difference
  <2>3. Cardinality(Skus \cap Of(s)) = Cardinality(Of(s))
    <3>1. Skus \cap Of(s) = Of(s)
      BY <1>2
    <3>2. QED
      BY <3>1, Zenon
  <2>4. IsFiniteSet(B) /\ Cardinality(B) = Cardinality(Sellers) - 1
    BY <1>1, <2>1, FS_RemoveElement
  <2>5. Cardinality(B) <= Cardinality(A)
    <3>1. PICK f : f = [k \in A |-> SellerOf[k]]
      OBVIOUS
    <3>2. f \in [A -> B]
      BY <1>1, <2>1, <3>1 DEF Of
    <3>3. \A t \in B : \E k \in A : f[k] = t
      BY <2>1, <3>1 DEF Sellers, Of
    <3>4. f \in Surjection(A, B)
      BY <3>2, <3>3 DEF Surjection
    <3>5. QED
      BY <2>2, <3>4, FS_Surjection
  <2>6. /\ Cardinality(Skus) \in Nat /\ Cardinality(Sellers) \in Nat /\ Cardinality(Of(s)) \in Nat
        /\ Cardinality(A) \in Nat /\ Cardinality(B) \in Nat
    BY <1>1, <1>2, <2>2, <2>4, FS_CardinalityType
  <2>7. Cardinality(Of(s)) # 0
    BY <1>2, FS_EmptySet
  <2>8. Cardinality(Sellers) # 0
    BY <1>1, FS_EmptySet
  <2>9. QED
    BY <2>2, <2>3, <2>4, <2>5, <2>6, <2>7, <2>8
<1>4. PICK s \in Sellers : TRUE
  BY <1>1
<1>5. /\ Cardinality(Skus) \in Nat /\ Cardinality(Sellers) \in Nat
      /\ Cardinality(Of(s)) \in Nat
  BY <1>1, <1>2, FS_CardinalityType
<1>6. Cardinality(Of(s)) + Cardinality(Sellers) <= Cardinality(Skus) + 1 /\ Cardinality(Of(s)) >= 1
  BY <1>3
<1>7. Cardinality(Sellers) <= Cardinality(Skus)
  BY <1>5, <1>6
<1>8. QED
  BY <1>3, <1>7, <1>4

\* Nobody may bear a difference that is within the limit.
LEMMA NobodyBears ==
  ASSUME Priced, NEW S \in SUBSET Skus, NEW d \in Int, NEW amount, NEW lucky,
         2 * Magnitude(d) <= 2 * Cardinality(Skus) + 1,
         InLimit(d, amount) => Bearers(S, d, lucky) = {}
  PROVE  Borne(S, d)
<1>1. SUFFICES ASSUME d # 0, ~ (Cardinality(Skus) >= UpLimit), NEW k \in S, MayBear(k)
               PROVE  Margin(k, d) <= 0
  BY DEF Borne
<1>2. Cardinality(Skus) \in Nat
  BY Order, FS_CardinalityType
<1>3. Magnitude(d) \in Nat
  BY DEF Magnitude
<1>4. InLimit(d, amount)
  BY <1>1, <1>2, <1>3 DEF InLimit, UpLimit
<1>5. ~ (Margin(k, d) > 0)
  BY <1>1, <1>4 DEF Bearers
<1>6. Margin(k, d) \in Int
  BY PricedTypes DEF Margin
<1>7. QED
  BY <1>5, <1>6

\* Who bears a correction stays on this side of zero.
LEMMA BearerStays ==
  ASSUME Priced, Within, NEW S \in SUBSET Skus, NEW d \in Int, NEW lucky,
         \A k \in lucky \cap S : Margin(k, d) = 0, NEW k \in Bearers(S, d, lucky)
  PROVE  /\ k \in S /\ MayBear(k)
         /\ Corrected(sku[k], d).pay >= 0 /\ Corrected(sku[k], d).favor >= 0
<1>1. k \in S /\ MayBear(k) /\ (Margin(k, d) > 0 \/ Margin(k, d) = 0)
  BY DEF Bearers
<1>2. sku[k].pay \in Int /\ sku[k].favor \in Int /\ sku[k].pay >= 0 /\ sku[k].favor >= 0
  BY <1>1, PricedTypes DEF Within
<1>3. Corrected(sku[k], d).pay = sku[k].pay - d /\ Corrected(sku[k], d).favor = sku[k].favor + d
  BY DEF Corrected
<1>4. QED
  BY <1>1, <1>2, <1>3 DEF Margin

LEMMA MissedType ==
  ASSUME Typed, Priced
  PROVE  /\ Missed \in Int /\ Favors(seller, Sellers) \in Int
         /\ \A s \in Sellers : MissedOf(s) \in Int /\ Favors(sku, Of(s)) \in Int
<1>1. PICK p, q : p = seller /\ q = sku
  OBVIOUS
<1>2. /\ order.favor \in Int /\ \A s \in Sellers : p[s].favor \in Int
      /\ \A k \in Skus : q[k].favor \in Int
  BY <1>1, PricedTypes
<1>3. Favors(p, Sellers) \in Int
  <2>1. PICK g : g = [s \in Sellers |-> p[s].favor]
    OBVIOUS
  <2>2. IsFiniteSet(Sellers) /\ \A s \in Sellers : g[s] \in Int /\ p[s].favor = g[s]
    BY <1>2, <2>1, SellersAndSkus
  <2>3. QED
    BY <2>2, FavorsAre
<1>4. ASSUME NEW s \in Sellers PROVE Favors(q, Of(s)) \in Int
  <2>1. PICK g : g = [k \in Of(s) |-> q[k].favor]
    OBVIOUS
  <2>2. IsFiniteSet(Of(s)) /\ Of(s) \in SUBSET Skus
    BY SellersAndSkus
  <2>3. \A k \in Of(s) : g[k] \in Int /\ q[k].favor = g[k]
    BY <1>2, <2>1, <2>2
  <2>4. QED
    BY <2>2, <2>3, FavorsAre
<1>5. QED
  BY <1>1, <1>2, <1>3, <1>4 DEF Missed, MissedOf

LEMMA CorrectSellersDoes ==
  ASSUME Typed, Priced, AfterShop, Agreed, CorrectSellers
  PROVE  Priced' /\ AfterSellers'
<1>1. /\ pc = "correctSellers" /\ UNCHANGED <<wallet, sale, plat_code, shop_code, order>>
      /\ pc' = "correctSkus"
  BY DEF CorrectSellers, data, choice
<1>2. /\ 2 * Magnitude(Missed) <= Cardinality(Sellers)
      /\ \A s \in Sellers : 2 * Magnitude(MissedOf(s)) <= 2 * Cardinality(Of(s)) + 1
      /\ plat_code = NoCode => Missed = 0 /\ Within
      /\ NoShopCode => Within /\ Leads
  BY <1>1 DEF AfterShop
<1>3. PICK d \in Int : d = Missed
  BY MissedType
<1>4. PICK lucky, able, p, q :
        /\ p = seller' /\ q = sku'
        /\ lucky \in SUBSET Even(d)
        /\ able = IF InLimit(d, order.favor) THEN Bearers(Skus, d, lucky) ELSE {}
        /\ q = [k \in Skus |-> IF First(k, able) THEN Corrected(sku[k], d) ELSE sku[k]]
        /\ p = [s \in Sellers |->
              IF \E k \in Of(s) : First(k, able) THEN Corrected(seller[s], d) ELSE seller[s]]
  BY <1>3 DEF CorrectSellers, Missed
<1>5. able \in SUBSET Skus
  BY <1>4 DEF Bearers
<1>6. (NoShopCode' <=> NoShopCode) /\ \A k \in Skus : MayBear(k)' <=> MayBear(k)
  BY <1>1 DEF NoShopCode, MayBear, Covers, Offer
<1>7. /\ IsFiniteSet(Sellers) /\ Cardinality(Sellers) \in Nat
      /\ \A k \in Skus : SellerOf[k] \in Sellers /\ k \in Of(SellerOf[k])
      /\ \A s \in Sellers : Of(s) \in SUBSET Skus /\ IsFiniteSet(Of(s)) /\ Cardinality(Of(s)) \in Nat
  BY SellersAndSkus
<1>8. /\ order.pay \in Int /\ order.favor \in Int
      /\ \A s \in Sellers : seller[s] \in Amount /\ seller[s].pay \in Int /\ seller[s].favor \in Int
      /\ \A k \in Skus : sku[k] \in Amount /\ sku[k].pay \in Int /\ sku[k].favor \in Int
  BY PricedTypes DEF Priced
<1>9. CASE able = {}
  <2>1. p = seller /\ q = sku
    BY <1>4, <1>9 DEF First, Priced
  <2>2. UNCHANGED <<seller, sku>>
    BY <1>4, <2>1
  <2>3. Priced'
    BY <1>1, <2>2 DEF Priced
  <2>4. Missed' = Missed /\ \A s \in Sellers : MissedOf(s)' = MissedOf(s)
    BY <1>1, <2>2 DEF Missed, MissedOf
  <2>5. Borne(Skus, d)
    <3>1. InLimit(d, order.favor) => Bearers(Skus, d, lucky) = {}
      BY <1>4, <1>9
    <3>2. 2 * Magnitude(d) <= 2 * Cardinality(Skus) + 1
      <4>1. Cardinality(Sellers) <= Cardinality(Skus) /\ Cardinality(Skus) \in Nat /\ Magnitude(d) \in Nat
        BY SellersFewer, Order, FS_CardinalityType DEF Magnitude
      <4>2. QED
        BY <1>2, <1>3, <1>7, <4>1
    <3>3. PICK S \in SUBSET Skus : S = Skus
      OBVIOUS
    <3>4. PICK a : a = order.favor
      OBVIOUS
    <3>5. Borne(S, d)
      BY <3>1, <3>2, <3>3, <3>4, NobodyBears
    <3>6. QED
      BY <3>3, <3>5
  <2>6. Borne(Skus, Missed)'
    <3>1. \A k \in Skus : MayBear(k)' /\ ~ (d = 0 \/ Cardinality(Skus) >= UpLimit) => Margin(k, d) <= 0
      BY <1>6, <2>5 DEF Borne
    <3>2. \A k \in Skus : Margin(k, Missed)' = Margin(k, d)
      BY <1>3, <2>2, <2>4 DEF Margin
    <3>3. Missed' = d
      BY <1>3, <2>4
    <3>4. QED
      BY <3>1, <3>2, <3>3 DEF Borne
  <2>7. Within' <=> Within
    BY <1>1, <2>2 DEF Within
  <2>8. QED
    BY <1>1, <1>2, <1>6, <2>3, <2>4, <2>6, <2>7 DEF AfterSellers
<1>10. CASE able # {}
  <2>1. InLimit(d, order.favor) /\ able = Bearers(Skus, d, lucky)
    BY <1>4, <1>10
  <2>2. PICK a \in able : \A k \in Skus : First(k, able) <=> k = a
    BY <1>5, <1>10, FirstOne
  <2>3. PICK b \in Sellers : b = SellerOf[a] /\ a \in Of(b) /\ a \in Skus
    BY <1>5, <1>7
  <2>4. \A k \in Skus : q[k] = IF k = a THEN Corrected(sku[k], d) ELSE sku[k]
    BY <1>4, <2>2
  <2>5. \A s \in Sellers : p[s] = IF s = b THEN Corrected(seller[s], d) ELSE seller[s]
    <3>1. \A s \in Sellers : (\E k \in Of(s) : First(k, able)) <=> s = b
      BY <1>7, <2>2, <2>3 DEF Of
    <3>2. QED
      BY <1>4, <3>1
  <2>6. ASSUME NEW k \in Skus
        PROVE  /\ q[k] \in Amount
               /\ q[k].pay = IF k = a THEN sku[k].pay - d ELSE sku[k].pay
               /\ q[k].favor = IF k = a THEN sku[k].favor + d ELSE sku[k].favor
    <3>1. PICK r \in Amount : r = sku[k] /\ r.pay \in Int /\ r.favor \in Int
      BY <1>8
    <3>2. CASE k = a
      <4>1. q[k] = [pay |-> r.pay - d, favor |-> r.favor + d]
        BY <2>4, <3>1, <3>2 DEF Corrected
      <4>2. QED
        BY <3>1, <3>2, <4>1 DEF Amount
    <3>3. CASE k # a
      BY <2>4, <3>1, <3>3
    <3>4. QED
      BY <3>2, <3>3
  <2>7. ASSUME NEW s \in Sellers
        PROVE  /\ p[s] \in Amount
               /\ p[s].pay = IF s = b THEN seller[s].pay - d ELSE seller[s].pay
               /\ p[s].favor = IF s = b THEN seller[s].favor + d ELSE seller[s].favor
    <3>1. PICK r \in Amount : r = seller[s] /\ r.pay \in Int /\ r.favor \in Int
      BY <1>8
    <3>2. CASE s = b
      <4>1. p[s] = [pay |-> r.pay - d, favor |-> r.favor + d]
        BY <2>5, <3>1, <3>2 DEF Corrected
      <4>2. QED
        BY <3>1, <3>2, <4>1 DEF Amount
    <3>3. CASE s # b
      BY <2>5, <3>1, <3>3
    <3>4. QED
      BY <3>2, <3>3
  <2>8. Priced'
    <3>1. p \in [Sellers -> Amount] /\ q \in [Skus -> Amount]
      BY <1>4, <2>6, <2>7
    <3>2. ASSUME NEW s \in Sellers PROVE p[s].pay + p[s].favor = Sum(sale, Of(s))
      <4>1. p[s].pay + p[s].favor = seller[s].pay + seller[s].favor
        BY <1>8, <2>7
      <4>2. QED
        BY <4>1 DEF Priced
    <3>3. ASSUME NEW k \in Skus PROVE q[k].pay + q[k].favor = sale[k]
      <4>1. q[k].pay + q[k].favor = sku[k].pay + sku[k].favor
        BY <1>8, <2>6
      <4>2. QED
        BY <4>1 DEF Priced
    <3>4. QED
      BY <1>1, <1>4, <3>1, <3>2, <3>3 DEF Priced
  <2>9. PICK e, f : e = seller /\ f = sku
    OBVIOUS
  <2>10. Missed' = 0
    <3>1. \A s \in Sellers : e[s].favor \in Int /\ p[s].favor = IF s = b THEN e[s].favor + d ELSE e[s].favor
      BY <1>8, <2>7, <2>9
    <3>2. Favors(p, Sellers) = Favors(e, Sellers) + d
      BY <1>7, <3>1, FavorsOne
    <3>3. Missed' = order.favor - Favors(p, Sellers) /\ d = order.favor - Favors(e, Sellers)
      BY <1>1, <1>3, <1>4, <2>9 DEF Missed
    <3>4. Favors(e, Sellers) \in Int
      BY <2>9, MissedType
    <3>5. QED
      BY <1>8, <3>2, <3>3, <3>4
  <2>11. ASSUME NEW s \in Sellers PROVE MissedOf(s)' = MissedOf(s)
    <3>1. MissedOf(s)' = p[s].favor - Favors(q, Of(s)) /\ MissedOf(s) = e[s].favor - Favors(f, Of(s))
      BY <1>4, <2>9 DEF MissedOf
    <3>2. Favors(f, Of(s)) \in Int /\ e[s].favor \in Int
      BY <1>8, <2>9, MissedType
    <3>3. CASE s = b
      <4>1. a \in Of(s) /\ \A k \in Of(s) :
              f[k].favor \in Int /\ q[k].favor = IF k = a THEN f[k].favor + d ELSE f[k].favor
        BY <1>7, <1>8, <2>3, <2>6, <2>9, <3>3
      <4>2. Favors(q, Of(s)) = Favors(f, Of(s)) + d
        <5>1. PICK T : T = Of(s)
          OBVIOUS
        <5>2. IsFiniteSet(T) /\ a \in T
          BY <1>7, <4>1, <5>1
        <5>3. \A k \in T : f[k].favor \in Int /\ q[k].favor = IF k = a THEN f[k].favor + d ELSE f[k].favor
          BY <4>1, <5>1
        <5>4. Favors(q, T) = Favors(f, T) + d
          BY <5>2, <5>3, FavorsOne
        <5>5. QED
          BY <5>1, <5>4
      <4>3. p[s].favor = e[s].favor + d
        BY <2>7, <2>9, <3>3
      <4>4. QED
        BY <3>1, <3>2, <4>2, <4>3
    <3>4. CASE s # b
      <4>1. \A k \in Of(s) : f[k].favor \in Int /\ q[k].favor = f[k].favor
        BY <1>7, <1>8, <2>3, <2>6, <2>9, <3>4 DEF Of
      <4>2. Favors(q, Of(s)) = Favors(f, Of(s))
        BY <1>7, <4>1, FavorsSame
      <4>3. p[s].favor = e[s].favor
        BY <2>7, <2>9, <3>4
      <4>4. QED
        BY <3>1, <4>2, <4>3
    <3>5. QED
      BY <3>3, <3>4
  <2>12. ASSUME plat_code = NoCode \/ NoShopCode PROVE Within'
    <3>1. plat_code # NoCode
      BY <1>2, <1>3, <2>1 DEF InLimit
    <3>2. NoShopCode /\ Within /\ Leads
      BY <1>2, <2>12, <3>1
    <3>3. \A k \in lucky \cap Skus : Margin(k, d) = 0
      BY <1>4 DEF Even
    <3>4. MayBear(a) /\ Corrected(sku[a], d).pay >= 0 /\ Corrected(sku[a], d).favor >= 0
      <4>1. PICK S \in SUBSET Skus : S = Skus
        OBVIOUS
      <4>2. a \in Bearers(S, d, lucky) /\ \A k \in lucky \cap S : Margin(k, d) = 0
        BY <2>1, <3>3, <4>1
      <4>3. QED
        BY <3>2, <4>2, BearerStays
    <3>5. Covers(plat_code, a)
      BY <2>3, <3>2, <3>4 DEF MayBear, NoShopCode
    <3>6. sku[a].pay <= seller[b].pay /\ sku[a].favor <= seller[b].favor
      BY <2>3, <3>1, <3>2, <3>5 DEF Leads
    <3>7. sku[a].pay - d >= 0 /\ sku[a].favor + d >= 0
      BY <3>4 DEF Corrected
    <3>8. ASSUME NEW k \in Skus PROVE q[k].pay >= 0 /\ q[k].favor >= 0
      BY <2>6, <3>2, <3>7 DEF Within
    <3>9. ASSUME NEW s \in Sellers PROVE p[s].pay >= 0 /\ p[s].favor >= 0
      <4>1. CASE s = b
        BY <1>8, <2>3, <2>7, <3>6, <3>7, <4>1
      <4>2. CASE s # b
        BY <2>7, <3>2, <4>2 DEF Within
      <4>3. QED
        BY <4>1, <4>2
    <3>10. QED
      BY <1>1, <1>4, <3>2, <3>8, <3>9 DEF Within
  <2>13. 2 * Magnitude(0) <= Cardinality(Sellers)
    BY <1>7 DEF Magnitude
  <2>14. Borne(Skus, Missed)'
    BY <2>10 DEF Borne
  <2>15. QED
    BY <1>1, <1>2, <1>6, <2>8, <2>10, <2>11, <2>12, <2>13, <2>14 DEF AfterSellers
<1>11. QED
  BY <1>9, <1>10

\* A sku a chosen coupon covers may bear: a seller's coupon is chosen for him.
LEMMA CoveredBears ==
  ASSUME Typed, Agreed, pc = "correctSkus", NEW k \in Skus, NEW c \in Chosen, Covers(c, k)
  PROVE  MayBear(k)
<1>1. CASE c = plat_code
  BY <1>1 DEF MayBear, Chosen
<1>2. CASE c # plat_code
  <2>1. PICK s \in Sellers : c = shop_code[s] /\ shop_code[s] # NoCode
    BY <1>2 DEF Chosen, Range, Agreed
  <2>2. c \in UsableCodes /\ ~ Platform(c) /\ Offer(c).seller_id = s
    BY <2>1 DEF Agreed
  <2>3. Offer(c) \in OfferType
    BY <2>2 DEF UsableCodes, Candidates, Typed, Offer
  <2>4. SellerOf[k] = s
    BY <2>2, <2>3 DEF Platform, OfferType, Covers
  <2>5. QED
    BY <2>1, <2>4 DEF MayBear
<1>3. QED
  BY <1>1, <1>2

\* What becomes of the skus of one seller.
SkusCorrected(s, d, q) ==
  \/ (\A k \in Of(s) : q[k] = sku[k]) /\ Borne(Of(s), d)
  \/ \E a \in Of(s) :
       /\ \A k \in Of(s) : q[k] = IF k = a THEN Corrected(sku[k], d) ELSE sku[k]
       /\ Within => Corrected(sku[a], d).pay >= 0 /\ Corrected(sku[a], d).favor >= 0

LEMMA CorrectSkusEach ==
  ASSUME Typed, Priced, AfterSellers, CorrectSkus
  PROVE  \A s \in Sellers : SkusCorrected(s, MissedOf(s), sku')
<1>1. pc = "correctSkus"
  BY DEF CorrectSkus
<1>2. PICK D : D = [s \in Sellers |-> MissedOf(s)]
  OBVIOUS
<1>3. PICK lucky, q :
        /\ q = sku'
        /\ lucky \in SUBSET UNION {Even(D[s]) \cap Of(s) : s \in Sellers}
        /\ q = [k \in Skus |->
              IF First(k, IF InLimit(D[SellerOf[k]], seller[SellerOf[k]].favor)
                          THEN Bearers(Of(SellerOf[k]), D[SellerOf[k]], lucky) ELSE {})
              THEN Corrected(sku[k], D[SellerOf[k]]) ELSE sku[k]]
  BY <1>2 DEF CorrectSkus, MissedOf
<1>4. SUFFICES ASSUME NEW s \in Sellers PROVE SkusCorrected(s, MissedOf(s), q)
  BY <1>3
<1>5. PICK d \in Int : d = D[s] /\ d = MissedOf(s)
  BY <1>2, MissedType
<1>6. PICK able : able = IF InLimit(d, seller[s].favor) THEN Bearers(Of(s), d, lucky) ELSE {}
  OBVIOUS
<1>7. Of(s) \in SUBSET Skus /\ able \in SUBSET Of(s) /\ able \in SUBSET Skus
  BY <1>6 DEF Of, Bearers
<1>8. \A k \in Of(s) : q[k] = IF First(k, able) THEN Corrected(sku[k], d) ELSE sku[k]
  <2>1. \A k \in Of(s) : k \in Skus /\ SellerOf[k] = s
    BY DEF Of
  <2>2. QED
    BY <1>3, <1>5, <1>6, <2>1
<1>9. CASE able = {}
  <2>1. \A k \in Of(s) : q[k] = sku[k]
    BY <1>8, <1>9 DEF First
  <2>2. Borne(Of(s), d)
    <3>1. PICK S, a : S \in SUBSET Skus /\ S = Of(s) /\ a = seller[s].favor
      BY <1>7
    <3>2. InLimit(d, a) => Bearers(S, d, lucky) = {}
      BY <1>6, <1>9, <3>1
    <3>3. 2 * Magnitude(d) <= 2 * Cardinality(Skus) + 1
      <4>1. 2 * Magnitude(d) <= 2 * Cardinality(Of(s)) + 1
        BY <1>1, <1>5 DEF AfterSellers
      <4>2. /\ Cardinality(Of(s)) + Cardinality(Sellers) <= Cardinality(Skus) + 1
            /\ Cardinality(Sellers) >= 1
        BY SellersFewer
      <4>3. /\ Cardinality(Of(s)) \in Nat /\ Cardinality(Sellers) \in Nat
            /\ Cardinality(Skus) \in Nat /\ Magnitude(d) \in Nat
        BY SellersAndSkus DEF Magnitude
      <4>4. QED
        BY <4>1, <4>2, <4>3
    <3>4. Borne(S, d)
      BY <3>1, <3>2, <3>3, NobodyBears
    <3>5. QED
      BY <3>1, <3>4
  <2>3. QED
    BY <1>5, <2>1, <2>2 DEF SkusCorrected
<1>10. CASE able # {}
  <2>1. PICK a \in able : \A k \in Skus : First(k, able) <=> k = a
    BY <1>7, <1>10, FirstOne
  <2>2. a \in Of(s) /\ \A k \in Of(s) : q[k] = IF k = a THEN Corrected(sku[k], d) ELSE sku[k]
    BY <1>7, <1>8, <2>1
  <2>3. ASSUME Within PROVE Corrected(sku[a], d).pay >= 0 /\ Corrected(sku[a], d).favor >= 0
    <3>1. PICK S \in SUBSET Skus : S = Of(s)
      BY <1>7
    <3>2. a \in Bearers(S, d, lucky)
      BY <1>6, <1>10, <3>1
    <3>3. \A k \in lucky \cap S : Margin(k, d) = 0
      <4>1. ASSUME NEW k \in lucky \cap S PROVE Margin(k, d) = 0
        <5>1. PICK r \in Sellers : k \in Even(D[r]) /\ k \in Of(r)
          BY <1>3
        <5>2. r = s
          BY <3>1, <5>1 DEF Of
        <5>3. QED
          BY <1>5, <5>1, <5>2 DEF Even
      <4>2. QED
        BY <4>1
    <3>4. QED
      BY <2>3, <3>2, <3>3, BearerStays
  <2>4. QED
    BY <1>5, <2>2, <2>3 DEF SkusCorrected
<1>11. QED
  BY <1>9, <1>10

LEMMA CorrectSkusDoes ==
  ASSUME Typed, Priced, AfterSellers, Agreed, CorrectSkus
  PROVE  Priced' /\ SharesAddUp' /\ NeverNegative'
<1>1. pc = "correctSkus" /\ UNCHANGED <<wallet, sale, plat_code, shop_code, order, seller, answer>>
  BY DEF CorrectSkus, data, choice
<1>2. /\ 2 * Magnitude(Missed) <= Cardinality(Sellers)
      /\ Borne(Skus, Missed)
      /\ \A s \in Sellers : 2 * Magnitude(MissedOf(s)) <= 2 * Cardinality(Of(s)) + 1
      /\ plat_code = NoCode \/ NoShopCode => Within
  BY <1>1 DEF AfterSellers
<1>3. PICK q, e : q = sku' /\ e = sku
  OBVIOUS
<1>4. PICK D : D = [s \in Sellers |-> MissedOf(s)]
  OBVIOUS
<1>5. \A s \in Sellers : SkusCorrected(s, D[s], q) /\ D[s] \in Int /\ D[s] = MissedOf(s)
  BY <1>3, <1>4, CorrectSkusEach, MissedType
<1>6. /\ Cardinality(Sellers) \in Nat /\ Cardinality(Skus) \in Nat
      /\ \A k \in Skus : SellerOf[k] \in Sellers /\ k \in Of(SellerOf[k])
      /\ \A s \in Sellers : Of(s) \in SUBSET Skus /\ IsFiniteSet(Of(s)) /\ Cardinality(Of(s)) \in Nat
  BY SellersAndSkus
<1>7. /\ \A s \in Sellers : seller[s].pay \in Int /\ seller[s].favor \in Int
      /\ \A k \in Skus : sku[k] \in Amount /\ sku[k].pay \in Int /\ sku[k].favor \in Int
  BY PricedTypes DEF Priced
<1>8. \A s \in Sellers : D[s] <= Cardinality(Of(s)) /\ 0 - D[s] <= Cardinality(Of(s))
  <2>1. ASSUME NEW s \in Sellers PROVE D[s] <= Cardinality(Of(s)) /\ 0 - D[s] <= Cardinality(Of(s))
    <3>1. PICK d \in Int, n \in Nat : d = D[s] /\ n = Cardinality(Of(s)) /\ 2 * Magnitude(d) <= 2 * n + 1
      BY <1>2, <1>5, <1>6
    <3>2. d <= n /\ 0 - d <= n
      BY <3>1 DEF Magnitude
    <3>3. QED
      BY <3>1, <3>2
  <2>2. QED
    BY <2>1
<1>9. ASSUME NEW k \in Skus
      PROVE  /\ q[k] \in Amount
             /\ \/ q[k] = sku[k]
                \/ /\ q[k].pay = sku[k].pay - D[SellerOf[k]]
                   /\ q[k].favor = sku[k].favor + D[SellerOf[k]]
                   /\ Within => q[k].pay >= 0 /\ q[k].favor >= 0
  <2>1. PICK s \in Sellers : s = SellerOf[k] /\ k \in Of(s)
    BY <1>6
  <2>2. PICK d \in Int, r \in Amount : d = D[s] /\ r = sku[k] /\ r.pay \in Int /\ r.favor \in Int
    BY <1>5, <1>7
  <2>3. q[k] = sku[k] \/ (q[k] = Corrected(r, d) /\ (Within => q[k].pay >= 0 /\ q[k].favor >= 0))
    BY <1>5, <2>1, <2>2 DEF SkusCorrected
  <2>4. Corrected(r, d) \in Amount /\ Corrected(r, d).pay = r.pay - d /\ Corrected(r, d).favor = r.favor + d
    BY <2>2 DEF Corrected, Amount
  <2>5. QED
    BY <2>1, <2>2, <2>3, <2>4
<1>10. Priced'
  <2>1. q \in [Skus -> Amount]
    <3>1. q = [k \in Skus |-> q[k]]
      BY <1>1, <1>3 DEF CorrectSkus
    <3>2. QED
      BY <1>9, <3>1
  <2>2. ASSUME NEW k \in Skus PROVE q[k].pay + q[k].favor = sale[k]
    <3>1. sku[k].pay + sku[k].favor = sale[k]
      BY DEF Priced
    <3>2. D[SellerOf[k]] \in Int
      BY <1>5, <1>6
    <3>3. q[k].pay + q[k].favor = sku[k].pay + sku[k].favor
      BY <1>7, <1>9, <3>2
    <3>4. QED
      BY <3>1, <3>3
  <2>3. QED
    BY <1>1, <1>3, <2>1, <2>2 DEF Priced
<1>11. ASSUME NEW s \in Sellers
       PROVE  \/ MissedOf(s)' = 0
              \/ /\ MissedOf(s)' = D[s] /\ Borne(Of(s), D[s])
                 /\ \A k \in Of(s) : q[k] = sku[k]
  <2>1. MissedOf(s)' = seller[s].favor - Favors(q, Of(s)) /\ D[s] = seller[s].favor - Favors(e, Of(s))
    BY <1>1, <1>3, <1>5 DEF MissedOf
  <2>2. PICK T : T = Of(s)
    OBVIOUS
  <2>3. IsFiniteSet(T) /\ \A k \in T : e[k].favor \in Int /\ e[k] = sku[k] /\ k \in Skus
    BY <1>3, <1>6, <1>7, <2>2
  <2>4. CASE (\A k \in Of(s) : q[k] = sku[k]) /\ Borne(Of(s), D[s])
    <3>1. \A k \in T : e[k].favor \in Int /\ q[k].favor = e[k].favor
      BY <2>2, <2>3, <2>4
    <3>2. Favors(q, T) = Favors(e, T)
      BY <2>3, <3>1, FavorsSame
    <3>3. QED
      BY <2>1, <2>2, <2>4, <3>2
  <2>5. CASE \E a \in Of(s) : \A k \in Of(s) : q[k] = IF k = a THEN Corrected(sku[k], D[s]) ELSE sku[k]
    <3>1. PICK d \in Int : d = D[s]
      BY <1>5
    <3>2. PICK a \in T : \A k \in T : q[k] = IF k = a THEN Corrected(sku[k], d) ELSE sku[k]
      BY <2>2, <2>5, <3>1
    <3>3. \A k \in T : e[k].favor \in Int /\ q[k].favor = IF k = a THEN e[k].favor + d ELSE e[k].favor
      <4>1. ASSUME NEW k \in T
            PROVE  e[k].favor \in Int /\ q[k].favor = IF k = a THEN e[k].favor + d ELSE e[k].favor
        <5>1. PICK r : r = sku[k] /\ r = e[k] /\ r.favor \in Int
          BY <2>3
        <5>2. Corrected(r, d).favor = r.favor + d
          BY DEF Corrected
        <5>3. q[k] = IF k = a THEN Corrected(r, d) ELSE r
          BY <3>2, <5>1
        <5>4. QED
          BY <5>1, <5>2, <5>3
      <4>2. QED
        BY <4>1
    <3>4. Favors(q, T) = Favors(e, T) + d
      BY <2>3, <3>3, FavorsOne
    <3>5. Favors(e, T) \in Int /\ seller[s].favor \in Int
      BY <1>3, <1>7, <2>2, MissedType
    <3>6. QED
      BY <2>1, <2>2, <3>1, <3>4, <3>5
  <2>6. QED
    BY <1>5, <2>4, <2>5 DEF SkusCorrected
<1>12. Missed' = Missed /\ Missed \in Int
  BY <1>1, MissedType DEF Missed
<1>13. ASSUME NEW k \in Skus, Roomy(k)'
       PROVE  /\ MayBear(k)
              /\ q[k].pay > Cardinality(Skus) /\ q[k].favor > Cardinality(Skus)
              /\ sku[k].pay >= Cardinality(Sellers) /\ sku[k].favor >= Cardinality(Sellers)
              /\ q[k].pay \in Int /\ q[k].favor \in Int
  <2>1. PICK c \in Chosen : Covers(c, k)
    BY <1>1, <1>13 DEF Roomy, Chosen, Covers, Offer
  <2>2. MayBear(k)
    BY <1>1, <2>1, CoveredBears
  <2>3. q[k].pay > Cardinality(Skus) /\ q[k].favor > Cardinality(Skus)
    BY <1>3, <1>13 DEF Roomy
  <2>4. q[k].pay \in Int /\ q[k].favor \in Int
    BY <1>9 DEF Amount
  <2>5. PICK s \in Sellers : s = SellerOf[k]
    BY <1>6
  <2>6. Cardinality(Of(s)) + Cardinality(Sellers) <= Cardinality(Skus) + 1
    BY SellersFewer
  <2>7. /\ q[k].pay <= sku[k].pay + Cardinality(Of(s))
        /\ q[k].favor <= sku[k].favor + Cardinality(Of(s))
    <3>1. PICK d \in Int, n \in Nat : d = D[s] /\ n = Cardinality(Of(s)) /\ d <= n /\ 0 - d <= n
      BY <1>5, <1>6, <1>8
    <3>2. \/ q[k] = sku[k]
          \/ q[k].pay = sku[k].pay - d /\ q[k].favor = sku[k].favor + d
      BY <1>9, <2>5, <3>1
    <3>3. QED
      BY <1>7, <3>1, <3>2
  <2>8. QED
    BY <1>6, <1>7, <2>2, <2>3, <2>4, <2>6, <2>7
<1>14. AddsUp(order.favor - Favors(seller, Sellers), Cardinality(Sellers), Skus)'
  <2>1. PICK d \in Int : d = Missed /\ 2 * Magnitude(d) <= Cardinality(Sellers) /\ Borne(Skus, d)
    BY <1>2, <1>12
  <2>2. (order.favor - Favors(seller, Sellers))' = d
    BY <1>12, <2>1 DEF Missed
  <2>3. ASSUME Cardinality(Skus) < UpLimit, NEW k \in Skus, Roomy(k)' PROVE d = 0
    <3>1. /\ MayBear(k) /\ sku[k].pay >= Cardinality(Sellers) /\ sku[k].favor >= Cardinality(Sellers)
      BY <1>13, <2>3
    <3>2. SUFFICES ASSUME d # 0 PROVE FALSE
      OBVIOUS
    <3>3. Margin(k, d) <= 0
      BY <1>6, <2>1, <2>3, <3>1, <3>2 DEF Borne, UpLimit
    <3>4. d <= Cardinality(Sellers) - 1 /\ 0 - d <= Cardinality(Sellers) - 1
      <4>1. Cardinality(Sellers) >= 1
        BY SellersFewer
      <4>2. QED
        BY <1>6, <2>1, <4>1 DEF Magnitude
    <3>5. QED
      BY <1>6, <1>7, <3>1, <3>3, <3>4 DEF Margin
  <2>4. QED
    BY <2>1, <2>2, <2>3 DEF AddsUp
<1>15. ASSUME NEW s \in Sellers
       PROVE  AddsUp(seller[s].favor - Favors(sku, Of(s)), 2 * Cardinality(Of(s)) + 1, Of(s))'
  <2>1. (seller[s].favor - Favors(sku, Of(s)))' = MissedOf(s)'
    BY DEF MissedOf
  <2>2. CASE MissedOf(s)' = 0
    <3>1. 2 * Magnitude(0) <= 2 * Cardinality(Of(s)) + 1
      BY <1>6 DEF Magnitude
    <3>2. QED
      BY <2>1, <2>2, <3>1 DEF AddsUp
  <2>3. CASE MissedOf(s)' = D[s] /\ Borne(Of(s), D[s]) /\ \A k \in Of(s) : q[k] = sku[k]
    <3>1. PICK d \in Int : d = D[s] /\ 2 * Magnitude(d) <= 2 * Cardinality(Of(s)) + 1
      BY <1>2, <1>5
    <3>2. ASSUME Cardinality(Skus) < UpLimit, NEW k \in Of(s), Roomy(k)' PROVE d = 0
      <4>1. k \in Skus
        BY <1>6
      <4>2. /\ MayBear(k) /\ sku[k].pay > Cardinality(Skus) /\ sku[k].favor > Cardinality(Skus)
        BY <1>13, <2>3, <3>2, <4>1
      <4>3. SUFFICES ASSUME d # 0 PROVE FALSE
        OBVIOUS
      <4>4. Margin(k, d) <= 0
        BY <1>6, <2>3, <3>1, <3>2, <4>2, <4>3 DEF Borne, UpLimit
      <4>5. d <= Cardinality(Skus) /\ 0 - d <= Cardinality(Skus)
        <5>1. Cardinality(Of(s)) + Cardinality(Sellers) <= Cardinality(Skus) + 1 /\ Cardinality(Sellers) >= 1
          BY SellersFewer
        <5>2. QED
          BY <1>5, <1>6, <1>8, <3>1, <5>1
      <4>6. QED
        BY <1>6, <1>7, <4>1, <4>2, <4>4, <4>5 DEF Margin
    <3>3. QED
      BY <2>1, <2>3, <3>1, <3>2 DEF AddsUp
  <2>4. QED
    BY <1>11, <2>2, <2>3
<1>16. SharesAddUp'
  BY <1>10, <1>14, <1>15 DEF SharesAddUp, Priced
<1>17. NeverNegative'
  <2>1. SUFFICES ASSUME plat_code' = NoCode \/ \A s \in Sellers : shop_code'[s] = NoCode
                 PROVE  \A p \in ({order} \cup Range(seller) \cup Range(sku))' : p.pay >= 0 /\ p.favor >= 0
    BY DEF NeverNegative
  <2>2. Within
    BY <1>1, <1>2, <2>1 DEF NoShopCode
  <2>3. order'.pay >= 0 /\ order'.favor >= 0
    BY <1>1, <2>2 DEF Within
  <2>4. \A s \in Sellers : seller'[s].pay >= 0 /\ seller'[s].favor >= 0
    BY <1>1, <2>2 DEF Within
  <2>5. \A k \in Skus : sku'[k].pay >= 0 /\ sku'[k].favor >= 0
    BY <1>3, <1>9, <2>2 DEF Within
  <2>6. DOMAIN seller' = Sellers /\ DOMAIN sku' = Skus
    BY <1>10 DEF Priced
  <2>7. QED
    BY <2>3, <2>4, <2>5, <2>6 DEF Range
<1>18. QED
  BY <1>10, <1>16, <1>17

\* The sellers' codes have passed the test, and the wallet stands.
LEMMA AgreedNext == Typed /\ Agreed /\ [Next]_vars => Agreed'
<1> SUFFICES ASSUME Typed, Agreed, [Next]_vars PROVE Agreed'
  OBVIOUS
<1>1. CASE GetApportion
  <2>1. UNCHANGED <<wallet, sale>>
    BY <1>1 DEF GetApportion, data
  <2>2. PICK plat, shop, chosen, wrong :
          /\ plat \in Codes \cup {NoCode} /\ shop \in [Sellers -> Codes \cup {NoCode}]
          /\ chosen = [s \in {0} \cup Sellers |-> IF s = 0 THEN plat ELSE shop[s]]
          /\ wrong = {s \in {0} \cup Sellers : chosen[s] # NoCode /\ Fault(s, chosen[s]) # "OK"}
          /\ plat_code' = plat /\ shop_code' = shop
          /\ answer' = IF Listing = "MYSQL_EXECUTE_ERROR" THEN Listing
                       ELSE IF Listing # "OK" THEN "NO_USABLE_COUPON"
                       ELSE IF wrong # {} THEN Fault(Min(wrong), chosen[Min(wrong)])
                       ELSE "OK"
    BY <1>1 DEF GetApportion
  <2>3. pc' = IF answer' = "OK" THEN "sharePlat" ELSE "done"
    BY <1>1 DEF GetApportion
  <2>4. \A c \in Codes : c \in UsableCodes' <=> c \in UsableCodes
    BY <2>1, UsableStands
  <2>5. ASSUME answer' = "OK" PROVE wrong = {}
    <3>1. SUFFICES ASSUME wrong # {} PROVE FALSE
      OBVIOUS
    <3>2. Listing = "OK"
      BY <2>2, <2>5 DEF Listing
    <3>3. wrong \in SUBSET Nat
      <4>1. wrong \subseteq {0} \cup Sellers
        BY <2>2
      <4>2. {0} \cup Sellers \subseteq Nat
        BY Order
      <4>3. QED
        BY <4>1, <4>2
    <3>4. PICK m : m = Min(wrong)
      OBVIOUS
    <3>5. m \in wrong
      <4>1. \E x \in wrong : \A y \in wrong : x <= y
        BY <3>1, <3>3, Smallest
      <4>2. QED
        BY <3>4, <4>1 DEF Min
    <3>6. Fault(m, chosen[m]) # "OK"
      BY <2>2, <3>5
    <3>7. QED
      BY <2>2, <2>5, <3>1, <3>2, <3>4, <3>6
  <2>6. ASSUME answer' = "OK"
        PROVE  /\ plat # NoCode => plat \in UsableCodes /\ Platform(plat)
               /\ \A s \in Sellers : shop[s] # NoCode =>
                    shop[s] \in UsableCodes /\ ~ Platform(shop[s]) /\ Offer(shop[s]).seller_id = s
    <3>1. wrong = {}
      BY <2>5, <2>6
    <3>2. \A s \in {0} \cup Sellers : chosen[s] # NoCode => Fault(s, chosen[s]) = "OK"
      BY <2>2, <3>1
    <3>3. ASSUME plat # NoCode PROVE plat \in UsableCodes /\ Platform(plat)
      <4>1. chosen[0] = plat
        BY <2>2
      <4>2. Fault(0, plat) = "OK"
        BY <3>2, <3>3, <4>1
      <4>3. QED
        BY <4>2 DEF Fault
    <3>4. ASSUME NEW s \in Sellers, shop[s] # NoCode
          PROVE  shop[s] \in UsableCodes /\ ~ Platform(shop[s]) /\ Offer(shop[s]).seller_id = s
      <4>1. s # 0 /\ chosen[s] = shop[s]
        BY <2>2, Order
      <4>2. Fault(s, shop[s]) = "OK"
        BY <3>2, <3>4, <4>1
      <4>3. QED
        BY <4>1, <4>2 DEF Fault
    <3>5. QED
      BY <3>3, <3>4
  <2>7. ASSUME answer' = "OK"
        PROVE  /\ plat_code' # NoCode => plat_code' \in UsableCodes' /\ Platform(plat_code)'
               /\ \A s \in Sellers : shop_code'[s] # NoCode =>
                    /\ shop_code'[s] \in UsableCodes'
                    /\ ~ Platform(shop_code[s])' /\ (Offer(shop_code[s]).seller_id = s)'
    BY <2>1, <2>2, <2>4, <2>6, <2>7 DEF Platform, Offer
  <2>8. pc' \in {"sharePlat", "shareShop", "correctSellers", "correctSkus"} \/ Divided' => answer' = "OK"
    BY <2>3 DEF Divided
  <2>9. QED
    BY <2>2, <2>7, <2>8 DEF Agreed
<1>2. CASE pc' \in {"order", "listed", "moved", "explained"} /\ UNCHANGED <<plat_code, shop_code>>
  BY <1>2 DEF Agreed, Divided
<1>3. CASE UNCHANGED <<wallet, sale, plat_code, shop_code, answer>>
           /\ (UNCHANGED pc \/ pc \in {"sharePlat", "shareShop", "correctSellers", "correctSkus"})
  <2>1. \A c \in Codes : c \in UsableCodes' <=> c \in UsableCodes
    BY <1>3, UsableStands
  <2>2. NoCode \notin Codes
    BY Order
  <2>3. pc' \in {"sharePlat", "shareShop", "correctSellers", "correctSkus"} \/ Divided'
        => pc \in {"sharePlat", "shareShop", "correctSellers", "correctSkus"} \/ Divided
    BY <1>3 DEF Divided
  <2>4. QED
    BY <1>3, <2>1, <2>2, <2>3 DEF Agreed, Platform, Offer
<1>4. QED
  BY <1>1, <1>2, <1>3 DEF Next, GetUsableCoupons, GetNotUsableCoupons, TimePasses, SharePlat, ShareShop,
     CorrectSellers, CorrectSkus, vars, data, choice

Money == Typed /\ Priced /\ Unshared /\ Agreed /\ AfterPlat /\ AfterShop /\ AfterSellers

LEMMA MoneyInit == Init => Money /\ SharesAddUp /\ NeverNegative
<1> SUFFICES ASSUME Init PROVE Money /\ SharesAddUp /\ NeverNegative
  OBVIOUS
<1>1. Typed
  BY InitListed
<1>2. Priced
  <2>1. Sum(sale, Skus) \in Nat /\ (\A s \in Sellers : Sum(sale, Of(s)) \in Nat)
        /\ \A k \in Skus : sale[k] \in Nat
    BY <1>1, SellersAndSkus
  <2>2. /\ order = [pay |-> Sum(sale, Skus), favor |-> 0]
        /\ seller = [s \in Sellers |-> [pay |-> Sum(sale, Of(s)), favor |-> 0]]
        /\ sku = [k \in Skus |-> [pay |-> sale[k], favor |-> 0]]
    BY DEF Init
  <2>3. order \in Amount /\ order.pay + order.favor = Sum(sale, Skus)
    BY <2>1, <2>2 DEF Amount
  <2>4. seller \in [Sellers -> Amount] /\ \A s \in Sellers : seller[s].pay + seller[s].favor = Sum(sale, Of(s))
    BY <2>1, <2>2 DEF Amount
  <2>5. sku \in [Skus -> Amount] /\ \A k \in Skus : sku[k].pay + sku[k].favor = sale[k]
    BY <2>1, <2>2 DEF Amount
  <2>6. QED
    BY <2>3, <2>4, <2>5 DEF Priced
<1>3. Unshared /\ Agreed /\ AfterPlat /\ AfterShop /\ AfterSellers
  BY DEF Init, Unshared, Full, Agreed, Divided, AfterPlat, AfterShop, AfterSellers
<1>4. SharesAddUp /\ NeverNegative
  BY DEF Init, SharesAddUp, NeverNegative, Divided
<1>5. QED
  BY <1>1, <1>2, <1>3, <1>4 DEF Money

LEMMA MoneyNext ==
  Money /\ SharesAddUp /\ NeverNegative /\ [Next]_vars => Money' /\ SharesAddUp' /\ NeverNegative'
<1> SUFFICES ASSUME Money, SharesAddUp, NeverNegative, [Next]_vars
             PROVE  Money' /\ SharesAddUp' /\ NeverNegative'
  OBVIOUS
<1>1. Typed' /\ Agreed'
  BY TypedNext, AgreedNext DEF Money
<1>2. CASE GetUsableCoupons \/ GetNotUsableCoupons \/ TimePasses \/ GetApportion
  <2>1. UNCHANGED <<sale, order, seller, sku>> /\ Unshared /\ Priced
        /\ pc \in {"order", "listed", "moved", "explained"}
    BY <1>2 DEF GetUsableCoupons, GetNotUsableCoupons, TimePasses, GetApportion, data, prices, Money
  <2>2. Priced' /\ Unshared'
    BY <2>1 DEF Priced, Unshared, Full
  <2>3. pc' \notin {"shareShop", "correctSellers", "correctSkus"} /\ ~ Divided'
    BY <1>2 DEF GetUsableCoupons, GetNotUsableCoupons, TimePasses, GetApportion, Divided
  <2>4. QED
    BY <1>1, <2>2, <2>3 DEF Money, AfterPlat, AfterShop, AfterSellers, SharesAddUp, NeverNegative
<1>3. CASE SharePlat
  <2>1. Priced' /\ AfterPlat' /\ pc' = "shareShop"
    BY <1>3, SharePlatDoes DEF Money, SharePlat
  <2>2. QED
    BY <1>1, <2>1 DEF Money, Unshared, AfterShop, AfterSellers, SharesAddUp, NeverNegative, Divided
<1>4. CASE ShareShop
  <2>1. Priced' /\ AfterShop' /\ pc' = "correctSellers"
    BY <1>4, ShareShopDoes DEF Money, ShareShop
  <2>2. QED
    BY <1>1, <2>1 DEF Money, Unshared, AfterPlat, AfterSellers, SharesAddUp, NeverNegative, Divided
<1>5. CASE CorrectSellers
  <2>1. Priced' /\ AfterSellers' /\ pc' = "correctSkus"
    BY <1>5, CorrectSellersDoes DEF Money, CorrectSellers
  <2>2. QED
    BY <1>1, <2>1 DEF Money, Unshared, AfterPlat, AfterShop, SharesAddUp, NeverNegative, Divided
<1>6. CASE CorrectSkus
  <2>1. Priced' /\ SharesAddUp' /\ NeverNegative' /\ pc' = "done"
    BY <1>6, CorrectSkusDoes DEF Money, CorrectSkus
  <2>2. QED
    BY <1>1, <2>1 DEF Money, Unshared, AfterPlat, AfterShop, AfterSellers
<1>7. CASE UNCHANGED vars
  <2>1. Priced' /\ Unshared'
    BY <1>7 DEF Money, Priced, Unshared, Full, vars
  <2>2. (Missed' = Missed /\ \A s \in Sellers : MissedOf(s)' = MissedOf(s))
        /\ (Within' <=> Within) /\ (Leads' <=> Leads) /\ (Full' <=> Full) /\ (NoShopCode' <=> NoShopCode)
    BY <1>7 DEF Missed, MissedOf, Within, Leads, Full, NoShopCode, Covers, Offer, vars
  <2>3. AfterPlat' /\ AfterShop'
    BY <1>7, <2>2 DEF Money, AfterPlat, AfterShop, vars
  <2>4. Borne(Skus, Missed)' <=> Borne(Skus, Missed)
    BY <1>7, <2>2 DEF Borne, MayBear, Margin, Covers, Offer, vars
  <2>5. AfterSellers'
    BY <1>7, <2>2, <2>4 DEF Money, AfterSellers, vars
  <2>6. SharesAddUp' /\ NeverNegative'
    BY <1>7 DEF SharesAddUp, NeverNegative, AddsUp, Roomy, Chosen, Covers, Offer, Divided, vars
  <2>7. QED
    BY <1>1, <2>1, <2>3, <2>5, <2>6 DEF Money
<1>8. QED
  BY <1>2, <1>3, <1>4, <1>5, <1>6, <1>7 DEF Next

\* SharesAddUp: whatever the order, the coupons and the ways ties are rounded, the
\* parts of the sellers add up to the discount of the order, and the parts of the
\* skus to the seller's, but for half a cent a rounding; in a small order, to the
\* cent when a covered sku has room for the difference.
THEOREM SharesAdd == Spec => []SharesAddUp
<1>1. Money /\ SharesAddUp /\ NeverNegative => SharesAddUp
  OBVIOUS
<1> QED BY MoneyInit, MoneyNext, <1>1, PTL DEF Spec

\* NeverNegative: with the platform's coupon alone, or the sellers' alone, no price
\* and no discount ends below zero.
THEOREM NothingNegative == Spec => []NeverNegative
<1>1. Money /\ SharesAddUp /\ NeverNegative => NeverNegative
  OBVIOUS
<1> QED BY MoneyInit, MoneyNext, <1>1, PTL DEF Spec

-----------------------------------------------------------------------------
(***************************************************************************)
(* Types.  The amounts and the chosen codes are typed by what is known of  *)
(* them above; the rest is what the shop has asked and been told.          *)
(***************************************************************************)

Answers == {"none", "OK", "NO_DATA_YOU_EXPECTED", "NO_USABLE_COUPON", "COUPON_NOT_USABLE",
            "COUPON_NOT_PLATFORM", "COUPON_NOT_SHOPTYPE", "COUPON_NOT_OF_THIS_SHOP",
            "MYSQL_EXECUTE_ERROR"}

Talk ==
  /\ pc \in {"order", "listed", "moved", "explained", "sharePlat", "shareShop",
             "correctSellers", "correctSkus", "done"}
  /\ usable \subseteq Codes /\ turned \subseteq Codes
  /\ answer \in Answers
  /\ reason \in [Codes -> {"none", "TIME", "LIST", "MONEY"}]

LEMMA ReasonsAre ==
  ASSUME NEW codes, NEW c \in NotUsableCoupons(codes)
  PROVE  Reason(c) \in {"TIME", "LIST", "MONEY"}
BY DEF NotUsableCoupons, Reason

LEMMA TalkNext == Talk /\ [Next]_vars => Talk'
<1> SUFFICES ASSUME Talk, [Next]_vars PROVE Talk'
  OBVIOUS
<1>1. CASE GetUsableCoupons
  <2>1. Listing \in Answers
    BY DEF Listing, Answers
  <2>2. UsableCodes \subseteq Codes
    BY DEF UsableCodes, Candidates
  <2>3. QED
    BY <1>1, <2>1, <2>2 DEF GetUsableCoupons, Talk, data
<1>2. CASE TimePasses
  BY <1>2 DEF TimePasses, Talk, lists
<1>3. CASE GetNotUsableCoupons
  <2>1. PICK r : r = [c \in Codes |->
                       IF c \in NotUsableCoupons(usable) THEN Reason(c) ELSE "none"]
    OBVIOUS
  <2>2. r \in [Codes -> {"none", "TIME", "LIST", "MONEY"}]
    BY <2>1, ReasonsAre
  <2>3. reason' = r
    BY <1>3, <2>1 DEF GetNotUsableCoupons
  <2>4. answer' \in Answers
    BY <1>3 DEF GetNotUsableCoupons, Answers
  <2>5. QED
    BY <1>3, <2>2, <2>3, <2>4 DEF GetNotUsableCoupons, Talk, data
<1>4. CASE GetApportion
  <2>1. \A s, c : Fault(s, c) \in Answers
    BY DEF Fault, Answers
  <2>2. Listing \in Answers
    BY DEF Listing, Answers
  <2>3. answer' \in Answers
    BY <1>4, <2>1, <2>2 DEF GetApportion, Answers
  <2>4. QED
    BY <1>4, <2>3 DEF GetApportion, Talk, data, lists
<1>5. CASE SharePlat
  BY <1>5 DEF SharePlat, Talk, data, lists
<1>6. CASE ShareShop
  BY <1>6 DEF ShareShop, Talk, data, lists
<1>7. CASE CorrectSellers \/ CorrectSkus
  BY <1>7 DEF CorrectSellers, CorrectSkus, Talk, data, lists
<1>8. CASE UNCHANGED vars
  BY <1>8 DEF Talk, vars
<1>9. QED
  BY <1>1, <1>2, <1>3, <1>4, <1>5, <1>6, <1>7, <1>8 DEF Next

LEMMA MoneyTypes == Money /\ Talk => TypeOK
<1> SUFFICES ASSUME Money, Talk PROVE TypeOK
  OBVIOUS
<1>1. order \in Amount /\ seller \in [Sellers -> Amount] /\ sku \in [Skus -> Amount]
  BY DEF Money, Priced
<1>2. \A p \in {order} \cup Range(seller) \cup Range(sku) : p \in Amount
  BY <1>1 DEF Range
<1>3. QED
  BY <1>2 DEF Money, Typed, Agreed, Talk, Answers, Amount, TypeOK

\* TypeOK: every amount is a whole number of cents, every choice one of the user's
\* coupons, and every answer one of those the handlers give.
THEOREM ApportionTyped == Spec => []TypeOK
<1>1. Init => Talk
  BY DEF Init, Talk, Answers
<1>2. Money /\ SharesAddUp /\ NeverNegative /\ Talk => TypeOK
  BY MoneyTypes
<1>3. QED
  BY MoneyInit, MoneyNext, TalkNext, <1>1, <1>2, PTL DEF Spec

=============================================================================
