CONSTANTS
  Handlers = {h1, h2, h3}
  Wrappers = {x1, x2, x3, x4}
  maxSize = 3
  None = None
SPECIFICATION Spec
SYMMETRY Symmetry
INVARIANTS TypeOK Exclusive Conserved Served
