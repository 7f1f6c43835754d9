-------------------------- MODULE CouponApportion --------------------------
(***************************************************************************)
(* Coupons for an order: which of a user's drawn coupons may be used       *)
(* (getUsableCoupons), why the others may not (getNotUsableCoupons), and   *)
(* how the discount of the chosen ones is divided over the sellers and the *)
(* skus of the order (getApportion).                                       *)
(*                                                                         *)
(* Amounts are integers, in cents.  The code computes with doubles: a      *)
(* share that lies exactly between two cents is rounded either way, and a  *)
(* difference that is exactly zero may come out on either side of it.      *)
(* Both are choices below.                                                 *)
(***************************************************************************)
EXTENDS Cents, FiniteSets, Functions

CONSTANTS
  Skus,      \* the skus of the order, in the order the maps are walked
  SellerOf,  \* SellerOf[k] = the seller of sku k
  WareOf,    \* WareOf[k] = the ware of sku k
  Prices,    \* sale_price * sku_count of a sku
  Codes,     \* the coupons the user has drawn
  Offers,    \* what a coupon may be, see OfferType
  NoCode

Sellers == {SellerOf[k] : k \in Skus}

\* A coupon with what its group says of it.  scope_type: 0 platform, 1 shop;
\* sub_type: 0 the wares listed, 1 the wares not listed, 2 all wares;
\* favor_type: 0 a discount of favor when full is reached, otherwise a rate;
\* drawn: within the last 365 days, or longer ago.
OfferType ==
  [scope_type : {0, 1}, seller_id : Nat, sub_type : {0, 1, 2}, wares : SUBSET Nat,
   favor_type : {0, 1}, full : Nat \ {0}, favor : Nat \ {0},
   when : {"early", "open", "late"}, drawn : {"lately", "longAgo"}]

ASSUME OrderAssumption ==
  /\ Skus \subseteq Nat /\ IsFiniteSet(Skus) /\ Skus # {}
  /\ SellerOf \in [Skus -> Nat \ {0}]
  /\ \A j, k \in Skus : j <= k => SellerOf[j] <= SellerOf[k]
  /\ DOMAIN WareOf = Skus
  /\ Prices \subseteq Nat \ {0}
  /\ NoCode \notin Codes
  /\ Offers \subseteq OfferType

VARIABLES
  wallet,        \* wallet[c] = the coupon with code c
  sale,          \* sale[k] = sale amount of sku k
  pc,            \* what the shop has called so far
  usable,        \* the codes getUsableCoupons answered
  plat_code,     \* the platform coupon the user chose, or NoCode
  shop_code,     \* shop_code[s] = the coupon chosen for seller s, or NoCode
  order,         \* price of the order: [pay, favor]
  seller,        \* seller[s] = price of the seller's part
  sku,           \* sku[k] = price of a sku
  answer,        \* the answer of the last call
  reason,        \* reason[c] = why c may not be used, as getNotUsableCoupons said
  turned         \* the coupons that began, or had their year pass, once listed

vars == <<wallet, sale, pc, usable, plat_code, shop_code, order, seller, sku,
          answer, reason, turned>>

Offer(c) == wallet[c]
Platform(c) == Offer(c).scope_type = 0

Of(s) == {k \in Skus : SellerOf[k] = s}

\* INACCURACY_UPLIMIT and INACCURACY_RATE_UPLIMIT, in cents and as 1 / 20
UpLimit == 50
RateUpLimit == 20

-----------------------------------------------------------------------------
(***************************************************************************)
(* Faulty variants of definitions below, for mutation runs.                *)
(***************************************************************************)

Covers_AnyShop(c, k) ==
  \/ Offer(c).sub_type = 0 /\ WareOf[k] \in Offer(c).wares
  \/ Offer(c).sub_type = 1 /\ WareOf[k] \notin Offer(c).wares
  \/ Offer(c).sub_type = 2
Sensible_AnyDiscount(c) ==
  Offer(c).favor_type = 0 => Offer(c).full <= Sum(sale, Skus)
Filled_StrictlyMore(c) ==
  Sum(sale, {k \in Skus : /\ Offer(c).scope_type = 1 => SellerOf[k] = Offer(c).seller_id
                          /\ Covers_AnyShop(c, k)}) > Offer(c).full
MayBear_Anybody(k) == TRUE
Corrected_WrongWay(price, d) == [pay |-> price.pay + d, favor |-> price.favor - d]

-----------------------------------------------------------------------------
(* Which coupons may be used. *)

\* Does coupon c apply to sku k?
Covers(c, k) ==
  /\ Offer(c).scope_type = 1 => SellerOf[k] = Offer(c).seller_id
  /\ \/ Offer(c).sub_type = 0 /\ WareOf[k] \in Offer(c).wares
     \/ Offer(c).sub_type = 1 /\ WareOf[k] \notin Offer(c).wares
     \/ Offer(c).sub_type = 2

Covered(c) == {k \in Skus : Covers(c, k)}
Total(c) == Sum(sale, Covered(c))

\* Platform coupons and those of the sellers of the order.
Concerns(c) == Platform(c) \/ Offer(c).seller_id \in Sellers

\* The query of getUsableCoupons sees the last year's draws alone;
\* getNotUsableCoupons takes its coupons from getUserCoupons, which sees all.
Queried(c) == Concerns(c) /\ Offer(c).drawn = "lately"

\* A discount needs full to be within the order and not below favor ("full 10,
\* favor 20" is void).
Sensible(c) ==
  Offer(c).favor_type = 0 =>
    /\ Offer(c).full <= Sum(sale, Skus)
    /\ Offer(c).full >= Offer(c).favor

Candidates == {c \in Codes : Queried(c) /\ Sensible(c) /\ Offer(c).when = "open"}

\* The covered wares reach full.
Filled(c) == Total(c) >= Offer(c).full

UsableCodes ==
  {c \in Candidates : Covered(c) # {} /\ Offer(c).favor_type = 0 /\ Filled(c)}

(* Why the others may not. *)

\* The coupons getNotUsableCoupons looks at: not expired, not in the list the
\* shop sends along, not of a foreign seller.
Others(codes) == {c \in Codes \ codes : Offer(c).when # "late" /\ Concerns(c)}

Reason(c) ==
  IF Offer(c).when = "early" THEN "TIME"
  ELSE IF Covered(c) = {} THEN "LIST"
  ELSE IF Offer(c).favor_type = 0 /\ Total(c) < Offer(c).full THEN "MONEY"
  ELSE "INVALID"

NotUsableCoupons(codes) == {c \in Others(codes) : Reason(c) # "INVALID"}

-----------------------------------------------------------------------------
(* Dividing a discount. *)

\* k is the first sku of S.
First(k, S) == k \in S /\ \A j \in S : k <= j

\* What the prices of S have been reduced by.
Favors(price, S) == Sum([x \in S |-> price[x].favor], S)

Discounted(price, favor) == [pay |-> price.pay - favor, favor |-> price.favor + favor]

\* A correction moves the inaccuracy d from what is paid to what is saved.
Corrected(price, d) == [pay |-> price.pay - d, favor |-> price.favor + d]

\* Chosen coupons that apply to sku k (code_can_use).
MayBear(k) ==
  \/ plat_code # NoCode /\ Covers(plat_code, k)
  \/ shop_code[SellerOf[k]] # NoCode /\ Covers(shop_code[SellerOf[k]], k)

\* Is the inaccuracy d of an amount small enough to be corrected?
InLimit(d, amount) ==
  d # 0 /\ (Magnitude(d) < UpLimit \/ Magnitude(d) * RateUpLimit < Magnitude(amount))

\* What remains of sku k when it bears d; it has to be positive.
Margin(k, d) == IF d > 0 THEN sku[k].pay - d ELSE sku[k].favor + d
Bearers(S, d, lucky) ==
  {k \in S : MayBear(k) /\ (Margin(k, d) > 0 \/ k \in lucky)}
Even(d) == {k \in Skus : Margin(k, d) = 0}

-----------------------------------------------------------------------------
Init ==
  /\ wallet \in [Codes -> Offers]
  /\ sale \in [Skus -> Prices]
  /\ pc = "order"
  /\ usable = {}
  /\ plat_code = NoCode
  /\ shop_code = [s \in Sellers |-> NoCode]
  /\ order = [pay |-> Sum(sale, Skus), favor |-> 0]
  /\ seller = [s \in Sellers |-> [pay |-> Sum(sale, Of(s)), favor |-> 0]]
  /\ sku = [k \in Skus |-> [pay |-> sale[k], favor |-> 0]]
  /\ answer = "none"
  /\ reason = [c \in Codes |-> "none"]
  /\ turned = {}

data == <<wallet, sale, turned>>
choice == <<plat_code, shop_code>>
prices == <<order, seller, sku>>
lists == <<usable, reason>>

\* A lookup of no coupon at all answers -1, which the handler takes for a failed
\* statement: so when every coupon is ruled out by its price.
Listing ==
  IF \A c \in Codes : ~ Queried(c) THEN "NO_DATA_YOU_EXPECTED"
  ELSE IF \A c \in Codes : Queried(c) => ~ Sensible(c) THEN "MYSQL_EXECUTE_ERROR"
  ELSE IF Candidates = {} THEN "NO_USABLE_COUPON"
  ELSE "OK"

GetUsableCoupons ==
  /\ pc = "order"
  /\ answer' = Listing
  /\ usable' = IF Listing = "OK" THEN UsableCodes ELSE {}
  /\ pc' = "listed"
  /\ UNCHANGED <<data, reason, choice, prices>>

\* While the user is choosing, the time of use of a coupon begins or ends, or a
\* year has passed since it was drawn.
TimePasses ==
  /\ pc = "listed"
  /\ \E c \in Codes :
       \/ /\ Offer(c).when = "open"
          /\ wallet' = [wallet EXCEPT ![c].when = "late"]
          /\ turned' = turned
       \/ /\ Offer(c).when = "early"
          /\ wallet' = [wallet EXCEPT ![c].when = "open"]
          /\ turned' = {c}
       \/ /\ Offer(c).drawn = "lately"
          /\ wallet' = [wallet EXCEPT ![c].drawn = "longAgo"]
          /\ turned' = {c}
  /\ pc' = "moved"
  /\ UNCHANGED <<sale, lists, choice, prices, answer>>

\* A lookup of no label answers -1 too: so when every coupon may be used.
GetNotUsableCoupons ==
  /\ pc \in {"listed", "moved"}
  /\ answer' = IF Others(usable) = {} THEN "MYSQL_EXECUTE_ERROR" ELSE "OK"
  /\ reason' = [c \in Codes |->
                 IF c \in NotUsableCoupons(usable) THEN Reason(c) ELSE "none"]
  /\ pc' = "explained"
  /\ UNCHANGED <<data, usable, choice, prices>>

\* getApportion finds the usable coupons again and tests the chosen ones: the
\* platform coupon first, then the sellers' in order.  Here seller 0 stands for
\* the platform.
Fault(s, c) ==
  IF c \notin UsableCodes THEN "COUPON_NOT_USABLE"
  ELSE IF s = 0 THEN IF Platform(c) THEN "OK" ELSE "COUPON_NOT_PLATFORM"
  ELSE IF Platform(c) THEN "COUPON_NOT_SHOPTYPE"
  ELSE IF Offer(c).seller_id # s THEN "COUPON_NOT_OF_THIS_SHOP" ELSE "OK"

GetApportion ==
  /\ pc \in {"listed", "moved", "explained"}
  /\ \E plat \in Codes \cup {NoCode}, shop \in [Sellers -> Codes \cup {NoCode}] :
       LET chosen == [s \in {0} \cup Sellers |-> IF s = 0 THEN plat ELSE shop[s]]
           wrong == {s \in DOMAIN chosen :
                       chosen[s] # NoCode /\ Fault(s, chosen[s]) # "OK"}
       IN  /\ plat_code' = plat
           /\ shop_code' = shop
           /\ answer' = IF Listing = "MYSQL_EXECUTE_ERROR" THEN Listing
                        ELSE IF Listing # "OK" THEN "NO_USABLE_COUPON"
                        ELSE IF wrong # {} THEN Fault(Min(wrong), chosen[Min(wrong)])
                        ELSE "OK"
  /\ pc' = IF answer' = "OK" THEN "sharePlat" ELSE "done"
  /\ UNCHANGED <<data, lists, prices>>

\* The platform coupon: each seller's and each sku's share of favor is rounded
\* by itself.
SharePlat ==
  /\ pc = "sharePlat"
  /\ pc' = "shareShop"
  /\ \/ plat_code = NoCode /\ UNCHANGED prices
     \/ /\ plat_code # NoCode
        /\ LET favor == Offer(plat_code).favor
               total == Total(plat_code)
               part == [s \in Sellers |-> Sum(sale, Covered(plat_code) \cap Of(s)) * favor]
               ties == {n \in {part[s] : s \in Sellers}
                                \cup {sale[k] * favor : k \in Covered(plat_code)} :
                          Tie(n, total)}
           IN  \E down \in SUBSET ties :
                 /\ order' = Discounted(order, favor)
                 /\ seller' = [s \in Sellers |->
                      Discounted(seller[s], RoundTo(part[s], total, part[s] \in down))]
                 /\ sku' = [k \in Skus |->
                      IF Covers(plat_code, k)
                      THEN LET n == sale[k] * favor
                           IN  Discounted(sku[k], RoundTo(n, total, n \in down))
                      ELSE sku[k]]
  /\ UNCHANGED <<data, lists, choice, answer>>

\* The sellers' coupons: the seller takes all of it, his skus a rounded share.
ShareShop ==
  /\ pc = "shareShop"
  /\ pc' = "correctSellers"
  /\ LET favor == [s \in Sellers |->
                    IF shop_code[s] = NoCode THEN 0 ELSE Offer(shop_code[s]).favor]
         covered == {k \in Skus : /\ shop_code[SellerOf[k]] # NoCode
                                  /\ Covers(shop_code[SellerOf[k]], k)}
         total(k) == Total(shop_code[SellerOf[k]])
         piece(k) == sale[k] * favor[SellerOf[k]]
         tie(k) == <<SellerOf[k], piece(k)>>
     IN  /\ order' = Discounted(order, Sum(favor, Sellers))
         /\ seller' = [s \in Sellers |-> Discounted(seller[s], favor[s])]
         /\ \E down \in SUBSET {tie(k) : k \in {j \in covered : Tie(piece(j), total(j))}} :
              sku' = [k \in Skus |->
                IF k \in covered
                THEN Discounted(sku[k], RoundTo(piece(k), total(k), tie(k) \in down))
                ELSE sku[k]]
  /\ UNCHANGED <<data, lists, choice, answer>>

\* If the sellers' shares miss the discount by a little, the first sku that can
\* bear the difference takes it, and its seller with it.
CorrectSellers ==
  /\ pc = "correctSellers"
  /\ pc' = "correctSkus"
  /\ LET d == order.favor - Favors(seller, Sellers)
     IN  \E lucky \in SUBSET Even(d) :
           LET able == IF InLimit(d, order.favor) THEN Bearers(Skus, d, lucky) ELSE {}
           IN  /\ sku' = [k \in Skus |->
                    IF First(k, able) THEN Corrected(sku[k], d) ELSE sku[k]]
               /\ seller' = [s \in Sellers |->
                    IF \E k \in Of(s) : First(k, able) THEN Corrected(seller[s], d)
                    ELSE seller[s]]
  /\ UNCHANGED <<data, lists, choice, order, answer>>

\* The same for the skus of each seller.
CorrectSkus ==
  /\ pc = "correctSkus"
  /\ pc' = "done"
  /\ LET d == [s \in Sellers |-> seller[s].favor - Favors(sku, Of(s))]
     IN  \E lucky \in SUBSET UNION {Even(d[s]) \cap Of(s) : s \in Sellers} :
           sku' = [k \in Skus |->
             LET s == SellerOf[k]
                 able == IF InLimit(d[s], seller[s].favor)
                         THEN Bearers(Of(s), d[s], lucky) ELSE {}
             IN  IF First(k, able) THEN Corrected(sku[k], d[s]) ELSE sku[k]]
  /\ UNCHANGED <<data, lists, choice, order, seller, answer>>

Next ==
  \/ GetUsableCoupons \/ GetNotUsableCoupons \/ TimePasses \/ GetApportion
  \/ SharePlat \/ ShareShop \/ CorrectSellers \/ CorrectSkus

Spec == Init /\ [][Next]_vars

-----------------------------------------------------------------------------
(* Properties. *)

\* Every amount is an amount, every choice a coupon, every answer known.
TypeOK ==
  /\ wallet \in [Codes -> OfferType]
  /\ sale \in [Skus -> Prices]
  /\ pc \in {"order", "listed", "moved", "explained", "sharePlat", "shareShop",
             "correctSellers", "correctSkus", "done"}
  /\ usable \subseteq Codes /\ turned \subseteq Codes
  /\ plat_code \in Codes \cup {NoCode}
  /\ shop_code \in [Sellers -> Codes \cup {NoCode}]
  /\ \A p \in {order} \cup Range(seller) \cup Range(sku) :
       p \in [pay : Int, favor : Int]
  /\ answer \in {"none", "OK", "NO_DATA_YOU_EXPECTED", "NO_USABLE_COUPON",
                 "COUPON_NOT_USABLE", "COUPON_NOT_PLATFORM", "COUPON_NOT_SHOPTYPE",
                 "COUPON_NOT_OF_THIS_SHOP", "MYSQL_EXECUTE_ERROR"}
  /\ reason \in [Codes -> {"none", "TIME", "LIST", "MONEY"}]

Divided == pc = "done" /\ answer = "OK"
Chosen == ({plat_code} \cup Range(shop_code)) \ {NoCode}

\* The coupons' discount is shared out to the cent: the sellers' parts add up to
\* the order's, and each seller's skus to the seller's.  A rounding leaves at most
\* half a cent: one for a seller, one for each coupon on a sku.  In an order of
\* few skus, what they leave is corrected if some sku among those a chosen coupon
\* covers still has more to pay, and has more saved, than that.  Paid and saved
\* add up to the price at every level.
Roomy(k) ==
  /\ \E c \in Chosen : Covers(c, k)
  /\ sku[k].pay > Cardinality(Skus) /\ sku[k].favor > Cardinality(Skus)
AddsUp(d, roundings, skus) ==
  /\ 2 * Magnitude(d) <= roundings
  /\ Cardinality(Skus) < UpLimit /\ (\E k \in skus : Roomy(k)) => d = 0
SharesAddUp ==
  Divided =>
    /\ AddsUp(order.favor - Favors(seller, Sellers), Cardinality(Sellers), Skus)
    /\ \A s \in Sellers :
         AddsUp(seller[s].favor - Favors(sku, Of(s)), 2 * Cardinality(Of(s)) + 1, Of(s))
    /\ order.pay + order.favor = Sum(sale, Skus)
    /\ \A s \in Sellers : seller[s].pay + seller[s].favor = Sum(sale, Of(s))
    /\ \A k \in Skus : sku[k].pay + sku[k].favor = sale[k]

\* The platform's coupon alone, or the sellers' without it, never make the price of
\* anything negative, nor a discount: a discount is at most the full price the
\* covered skus reach, and corrections stop short of zero.
NeverNegative ==
  Divided /\ (plat_code = NoCode \/ \A s \in Sellers : shop_code[s] = NoCode) =>
    \A p \in {order} \cup Range(seller) \cup Range(sku) : p.pay >= 0 /\ p.favor >= 0

\* Only skus a chosen coupon covers are reduced, and only sellers who have one:
\* the correction of a rounding is not given to a stranger.
OnlyCovered ==
  Divided => \A k \in Skus : sku[k].favor # 0 => \E c \in Chosen : Covers(c, k)

\* A user is told of each coupon drawn within a year that could be used with this
\* order or another one either that it may be used or why it may not, and not
\* both.  One drawn longer ago is never offered, so it is left without a word when
\* nothing else is against it: getNotUsableCoupons knows of no such reason.
\* Coupons the code does not offer at all are left out, those with a rate and those
\* that give more than they ask for, and so is one that begins or has its year
\* pass between the two calls.
Explained ==
  pc = "explained" /\ answer = "OK" =>
    \A c \in Codes \ turned :
      /\ Concerns(c) /\ Offer(c).favor_type = 0 /\ Offer(c).full >= Offer(c).favor
      /\ Offer(c).when # "late"
      => IF Offer(c).drawn = "lately" THEN c \in usable <=> reason[c] = "none"
         ELSE c \notin usable

=============================================================================
