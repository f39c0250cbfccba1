SPECIFICATION Spec
CONSTANTS
    Histories <- MCHistories
    document <- MCDocument
    Unconvertible <- MCUnconvertible
    NoHistory = "no history"
    Graphs <- MCGraphs
    Replayer = "R"
    Starts <- MCStarts
    graph <- MCGraph
    pending_starts = 2
    Workloads <- MCWorkloads
INVARIANTS
    
    NothingDetached
PROPERTY
    GraphsReclaimed
CHECK_DEADLOCK FALSE
