CONSTANTS
  Handlers = {h1}
  Wrappers = {x1, x2}
  maxSize = 2
  None = None
SPECIFICATION Spec
INVARIANT OpenHasContext
