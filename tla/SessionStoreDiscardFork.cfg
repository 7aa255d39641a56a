SPECIFICATION QuietSpec
CONSTANTS
    Session = {a, b, c}
    Host = {h1, h2}
    ForkUnused = TRUE
    SyncFails = FALSE
    CrashBudget = 0
    NoSession = NoSession
    NoHost = NoHost
SYMMETRY Symmetry
INVARIANTS LineageIntact
CHECK_DEADLOCK FALSE
