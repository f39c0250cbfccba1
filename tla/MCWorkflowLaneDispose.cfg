SPECIFICATION Spec
CONSTANTS
    Runs = {r1, r2}
    NoRun = NoRun
    MaxActivations = 2
    MaxFaults = 0
    Faults = {}
    Ends = {"dispose"}
SYMMETRY RunSymmetry
INVARIANTS
    CompletionsAreOwed
CHECK_DEADLOCK FALSE
