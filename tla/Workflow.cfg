SPECIFICATION Spec
CONSTANTS
    StepCount = 3
    DependsOn <- MCDependsOn
    Conditional = {2}
    ReplaySafe = {2}
    MaxTries <- MCMaxTries
    MaxParallel = 2
    Callers = {"tool", "console"}
    AttemptBudget = 2
    FaultBudget = 1
    CrashBudget = 1
INVARIANTS EffectsBounded IntentBeforeEffect InputsWereThere EndedIsQuiet OneCoordinator
PROPERTIES UnknownNotRepeated AttemptEnds
CHECK_DEADLOCK FALSE
