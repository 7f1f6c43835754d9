\* An order of three skus of two sellers, three drawn coupons.
SPECIFICATION Spec
CONSTANTS
  Skus = {1, 2, 3}
  SellerOf <- MCSellerOf
  WareOf <- MCWareOf
  Prices = {3, 100}
  Codes = {c1, c2, c3}
  Offers <- MCOffers
  NoCode = NoCode
SYMMETRY Symmetry
INVARIANTS SharesAddUp NeverNegative OnlyCovered Explained
\* The price is the last thing the shop asks for.
CHECK_DEADLOCK FALSE
