\* Orders of four skus, two activities that may share wares.
SPECIFICATION QuoteSpec
CONSTANTS
  Skus = {1, 2, 3, 4}
  WareOf <- MCWareOf
  Orders <- MCOrders
  Groups = {1, 2}
  Deals <- MCDeals
  Filings <- MCFilings
  Ladders <- MCLadders
  None = None
INVARIANTS SharesAddUp FairShare NextReached
\* The price is the last thing the shop asks for.
CHECK_DEADLOCK FALSE
