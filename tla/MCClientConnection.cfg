SPECIFICATION Spec
CONSTANTS
    Calls <- MCCalls
    Owners <- MCOwners
    owner <- MCOwner
    Workloads <- MCWorkloads
    Requests <- MCRequests
    AsyncWorkloads <- MCAsyncWorkloads
    Panicking = {3}
    Drivers <- MCDrivers
    Faulty = {1}
    NoDetails = NoDetails
    Worker = "A"
    pending_starts = 1
    pending_waits = 1
    in_flight_calls <- MCLimits
    max_tokens = 2
INVARIANTS
    Accounted
    NothingOutlives
    
PROPERTIES
    CallsAreOneShot
    DisconnectEnds
CHECK_DEADLOCK FALSE
