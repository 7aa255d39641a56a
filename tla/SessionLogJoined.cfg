SPECIFICATION Spec
CONSTANTS
    h1 = h1
    h2 = h2
    h3 = h3
    p1 = p1
    p2 = p2
    NoProcess = NoProcess
    Handle = {h1, h2}
    Process = {p1, p2}
    Owner <- OneEach
    MaxEvents = 4
    TearBudget = 1
    RenameBudget = 0
    MaxGen = 2
PROPERTY WriterRefusesWhatReaderRefuses
CHECK_DEADLOCK FALSE
