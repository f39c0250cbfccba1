SPECIFICATION Spec
CONSTANTS
  Root = root
  Handlers = {h1, h2}
  None = None
  MaxFutures = 2
  MaxActivations = 3
  MaxWrites = 1
  LateTerminate = TRUE
SYMMETRY HandlerSymmetry
INVARIANTS NoneStranded
CHECK_DEADLOCK FALSE
