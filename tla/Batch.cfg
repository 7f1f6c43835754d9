CONSTANTS
  Requests = {r1, r2, r3}
  MaxSize = 2
  max_count = 3
  UserLimit = 2
  CodeLimit = 4
  MaxFaults = 1
  None = None
SPECIFICATION FairSpec
INVARIANTS CutNeedsFault ExportBounded
PROPERTIES Implements Taken
CHECK_DEADLOCK FALSE
