CONSTANTS
  Workers = {w1, w2}
  Coupons = {c1}
  Orders = {o1, o2}
  Scenes <- FreezeScene
  cache_codes_capacity = 2
  MaxPayed = 2
  None = None
  Absent = Absent
SPECIFICATION Spec
INVARIANT OneOrderHolds
CHECK_DEADLOCK FALSE
