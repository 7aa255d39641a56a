SPECIFICATION Spec
CONSTANTS
    MaxAdmissions = 2
    MaxRunning = 1
    MaxQueued = 0
    MaxHistory = 1
    WakeCapacity = 1
    MaxPending = 2
    Kinds = {"plain", "agent"}
    Wakes = {TRUE}
    Host = {"input"}
    Retries = 1
    Releaser = {"turn"}
    TurnBudget = 1
    CancelBudget = 0
    FaultBudget = 1
    RestartBudget = 1
INVARIANT AgentNoticeBacked
CHECK_DEADLOCK FALSE
