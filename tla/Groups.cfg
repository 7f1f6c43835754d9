\* Two groups, two editors, one argot.
SPECIFICATION Spec
CONSTANTS
  Groups = {g1, g2}
  Editors = {e1, e2}
  Argots = {a1}
  NoArgot = NoArgot
  Absent = Absent
  ArgotGap = 1
  Duration = 0
  MaxGroups = 2
  MaxCoupons = 2
  MaxCanDraw = 1
  MaxTime = 2
  MaxEdits = 3
  MaxDrawn = 1
SYMMETRY Symmetry
INVARIANTS VersionTells ArgotLeads
PROPERTY DrawTimeKept
\* The edits are bounded.
CHECK_DEADLOCK FALSE
