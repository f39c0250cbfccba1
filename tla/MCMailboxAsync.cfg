SPECIFICATION Spec
CONSTANTS
    None = None
    Capacity = 1
    MaxOps = 1
    Clients = {c1, c2}
    AsyncPoints <- AllPoints
SYMMETRY ClientSymmetry
INVARIANT TrackedUntilSettled
