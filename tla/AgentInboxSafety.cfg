SPECIFICATION Spec
CONSTANTS
    f = f
    s = s
    i = i
    t = t
    NoMessage = NoMessage
    Message = {s, i, t}
    Delivery <- AllDeliveries
    Team = {t}
    MaxPending = 2
    DriverTurns = 2
    Foreground = TRUE
    PromptBudget = 1
    CancelBudget = 1
    FailBudget = 1
    CrashBudget = 1
    StepBudget = 2
INVARIANT AdmittedOnce
PROPERTIES ImplementsMailbox HooksSawWhatOpens AbortHoldsAutomation
CHECK_DEADLOCK FALSE
