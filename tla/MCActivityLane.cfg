SPECIFICATION FairSpec
CONSTANTS
    Tokens = {t1, t2}
    NoToken = NoToken
    MaxCancels = 2
    MaxFaults = 1
    Faults = {"reject", "error", "invalid", "duplicate"}
    Ends = {"shutdown", "dispose", "timeout"}
INVARIANTS
    OrderlyCompletions
    
PROPERTIES
    CancelFindsItsStart
    EndingCompletes
CHECK_DEADLOCK FALSE
