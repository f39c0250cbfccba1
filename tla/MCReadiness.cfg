SPECIFICATION FairSpec
CONSTANTS
    workflow = workflow
    activity = activity
    None = None
    Lanes <- BothLanes
    First = workflow
    MaxMessages = 2
INVARIANTS
    WorkBeforeEnd
PROPERTIES
    WaitReturns
