SPECIFICATION Spec
CONSTANTS
    MaxAdmissions = 2
    MaxRunning = 1
    MaxQueued = 1
    MaxHistory = 1
    WakeCapacity = 1
    MaxPending = 1
    Kinds = {"foreground", "agent"}
    Wakes = {TRUE}
    Host = {"input", "dispose", "monitor"}
    Retries = 1
    Releaser = {}
    TurnBudget = 0
    CancelBudget = 1
    FaultBudget = 1
    RestartBudget = 0
PROPERTY StoppedJobSettles
CHECK_DEADLOCK FALSE
