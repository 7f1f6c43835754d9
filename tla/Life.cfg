CONSTANTS
  Workers = {w1, w2}
  Coupons = {c1}
  Orders = {o1, o2}
  Scenes <- AllScenes
  cache_codes_capacity = 1
  MaxPayed = 2
  None = None
  Absent = Absent
SPECIFICATION Spec
INVARIANTS RecordsAgree CountExact UserFroze PaymentsCounted
PROPERTY Implements
SYMMETRY WorkerSymmetry
CHECK_DEADLOCK FALSE
