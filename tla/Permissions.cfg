SPECIFICATION Spec
CONSTANTS
    Calls = {"t", "a"}
    AgentCalls = {"a"}
    FileTools = {}
    TerminalCalls = {"t"}
    Inputs <- MCInputs
    Child <- MCChild
    HookPoints = {"closed", "step"}
    FirstPolicy = "full"
    UserPolicies = {"deny"}
    TurnBudget = 1
    EntryBudget = 1
    SwitchBudget = 1
    ReviewBudget = 1
    MishapBudget = 1
INVARIANTS CommittedPlanIsQuiet RestartAgrees ConsentCovers
PROPERTY EntryWaitsForPeopleOnly
CHECK_DEADLOCK FALSE
