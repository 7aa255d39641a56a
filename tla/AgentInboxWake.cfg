SPECIFICATION FairSpec
CONSTANTS
    f = f
    s = s
    i = i
    t = t
    NoMessage = NoMessage
    Message = {f, s}
    Delivery <- AllDeliveries
    Team = {}
    MaxPending = 2
    DriverTurns = 2
    Foreground = TRUE
    PromptBudget = 2
    CancelBudget = 1
    FailBudget = 1
    CrashBudget = 0
    StepBudget = 1
INVARIANT NothingStranded
PROPERTIES WakeableSettles PromptReturns
CHECK_DEADLOCK FALSE
