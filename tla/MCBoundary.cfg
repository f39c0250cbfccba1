SPECIFICATION Spec
CONSTANTS
    None = None
    Err = Err
    MaxDurationSeconds = 3
    NanosPerSecond = 2
    TaskTimeoutLimit = 2
    MAX_INBOUND_FAILURE_LAYERS = 3
    MAX_RPC_TIMEOUT_MS = 2
    MAX_WORKFLOW_TASK_TIMEOUT_MS = 2
    MAX_WORKFLOW_TIMEOUT_MS = 3
    MaxPageSize = 2
    Namespace = "a"
    Representable <- MCRepresentable
    Unrepresentable <- MCUnrepresentable
    Answers <- MCAnswers
    Deliveries <- MCDeliveries
    ActivityCompletions <- MCActivityCompletions
    Heartbeats <- MCHeartbeats
    MaxCancels = 2
    Requests <- MCRequests
    MaxAttempts = 2
    Runs <- MCRuns
    PageCount <- MCPageCount
    PageLimit = 2
INVARIANTS
    RetryabilityPreserved
    HandoverIsSound
    AnswersFit
    DocumentsFollowLease
    ErrorsAreTruthful
    OneRunObserved
PROPERTIES
    CallReturns
CHECK_DEADLOCK FALSE
