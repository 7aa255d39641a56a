SPECIFICATION Spec
CONSTANTS
    Schedule = {"a"}
    Rules = {"every"}
    MaxActive = 1
    MaxPending = 1
    Every = 1
    Lifetime = 2
    Delay = 1
    MaxTime = 2
    FaultBudget = 0
    CrashBudget = 0
INVARIANT ListedTimerLives
CHECK_DEADLOCK FALSE
