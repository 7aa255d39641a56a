SPECIFICATION FairSpec
CONSTANTS
    N = 4
    MaxParallel = 2
    FaultBudget = 1
    ReloadBudget = 1
INVARIANTS HonestResults NothingAbandoned
PROPERTIES SequentialLog CancelReturns
CHECK_DEADLOCK FALSE
