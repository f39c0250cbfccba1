\* One run over three activations, with a deadline of one tick.
SPECIFICATION FairSpec
CONSTANTS
  Runs = {r1}
  MaxEpochs = 3
  Deadline = 1
INVARIANTS OneAnswer RegistryFollowsCore NeverTooEarly
PROPERTIES ReportsAreTrue StuckIsAbandoned
CHECK_DEADLOCK FALSE
