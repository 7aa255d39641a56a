SPECIFICATION Spec
CONSTANTS
    h1 = h1
    h2 = h2
    h3 = h3
    p1 = p1
    p2 = p2
    NoProcess = NoProcess
    Handle = {h1, h2, h3}
    Process = {p1, p2}
    Owner <- TwoInOne
    MaxEvents = 4
    TearBudget = 1
    RenameBudget = 1
    MaxGen = 2
INVARIANTS OneProcessWrites OneCurrentWriter NoSilentLoss DamageHasACause
PROPERTY SupersededStaysOut
CHECK_DEADLOCK FALSE
SYMMETRY SameProcess
