SPECIFICATION FairSpec
CONSTANTS
    None = None
    Capacity = 1
    MaxOps = 2
    Clients = {c1, c2}
    AsyncPoints <- TrackedPoints
INVARIANTS
    FifoLinear
    NoLostWakeup
    
PROPERTIES
    SettledForGood
    CallersReturn
