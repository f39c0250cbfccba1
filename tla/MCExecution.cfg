SPECIFICATION FairSpec
CONSTANTS
  Root = root
  Handlers = {h1, h2}
  None = None
  MaxFutures = 2
  MaxActivations = 3
  MaxWrites = 1
  LateTerminate = FALSE
INVARIANTS OneShot NoneStranded  OneOutcome
PROPERTIES ActivationReturns
CHECK_DEADLOCK FALSE
