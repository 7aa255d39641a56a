SPECIFICATION QuietSpec
CONSTANTS
    Session = {a, b}
    Host = {h1, h2, h3}
    ForkUnused = FALSE
    SyncFails = FALSE
    CrashBudget = 1
    NoSession = NoSession
    NoHost = NoHost
SYMMETRY Symmetry
INVARIANTS LineageIntact OpenFileStays
CHECK_DEADLOCK FALSE
