SPECIFICATION FairSpec
CONSTANTS
  w1 = w1
  w2 = w2
  u1 = u1
  u2 = u2
  NoUser = NoUser
  Free = Free
  Dead = Dead
  Workers <- TwoWorkers
  Users <- TwoUsers
  max_count = 2
  can_draw_count <- TwoOrOne
  cache_codes_capacity = 1
  Scenes <- BothScenes
  Exported = 2
  MaxFaults = 1
INVARIANTS OverIssueBounded PerUserBounded CountsAgree ListSound NeverWedged Backed OwnerRecorded
PROPERTIES OwnerIsFinal WedgeIsPermanent Implements RequestsAnswered
