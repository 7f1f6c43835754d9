SPECIFICATION Spec
CONSTANTS
  w1 = w1
  w2 = w2
  u1 = u1
  u2 = u2
  NoUser = NoUser
  Free = Free
  Dead = Dead
  Workers <- TwoWorkers
  Users <- TwoUsers
  max_count = 2
  can_draw_count <- TwoEach
  cache_codes_capacity = 2
  Scenes <- ExportScene
  Exported = 2
  MaxFaults = 0
INVARIANTS DrawnByOneUser
