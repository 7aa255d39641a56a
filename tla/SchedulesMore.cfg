SPECIFICATION Spec
CONSTANTS
    Schedule = {"a", "b"}
    Rules = {"once", "cronOnce", "every", "cron", "wakeup"}
    MaxActive = 1
    MaxPending = 1
    Every = 1
    Lifetime = 2
    Delay = 1
    MaxTime = 2
    FaultBudget = 1
    CrashBudget = 1
INVARIANTS WakeupsDieWithProcess ArmedHasTimer
CHECK_DEADLOCK FALSE
