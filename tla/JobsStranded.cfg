SPECIFICATION Spec
CONSTANTS
    MaxAdmissions = 1
    MaxRunning = 1
    MaxQueued = 0
    MaxHistory = 1
    WakeCapacity = 1
    MaxPending = 1
    Kinds = {"plain"}
    Wakes = {TRUE}
    Host = {"input"}
    Retries = 1
    Releaser = {"turn"}
    TurnBudget = 0
    CancelBudget = 0
    FaultBudget = 0
    RestartBudget = 0
INVARIANT RetainedForAReason
CHECK_DEADLOCK FALSE
