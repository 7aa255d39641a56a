SPECIFICATION Spec
CONSTANTS
    f = f
    s = s
    i = i
    t = t
    NoMessage = NoMessage
    Message = {f}
    Delivery <- AllDeliveries
    Team = {}
    MaxPending = 2
    DriverTurns = 2
    Foreground = TRUE
    PromptBudget = 1
    CancelBudget = 0
    FailBudget = 0
    CrashBudget = 0
    StepBudget = 1
INVARIANTS NothingStranded
CHECK_DEADLOCK FALSE
