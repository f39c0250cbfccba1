SPECIFICATION FairSpec
CONSTANTS
    Runs = {r1, r2}
    NoRun = NoRun
    MaxActivations = 3
    MaxFaults = 1
    Faults = {"reject", "error", "duplicate", "late"}
    Ends = {"shutdown", "dispose", "timeout"}
INVARIANTS
    OrderlyCompletions
    LedgerAgrees
    
PROPERTIES
    EndingCompletes
CHECK_DEADLOCK FALSE
