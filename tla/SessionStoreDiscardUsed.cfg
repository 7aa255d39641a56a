SPECIFICATION Spec
CONSTANTS
    Session = {a, b}
    Host = {h1, h2}
    ForkUnused = FALSE
    SyncFails = FALSE
    CrashBudget = 0
    NoSession = NoSession
    NoHost = NoHost
SYMMETRY Symmetry
PROPERTY UsedNeverDiscarded
CHECK_DEADLOCK FALSE
