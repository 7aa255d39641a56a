SPECIFICATION Spec
CONSTANTS
    Calls = {"t", "a"}
    AgentCalls = {"a"}
    FileTools = {}
    TerminalCalls = {"t"}
    Inputs <- MCInputs
    Child <- MCChild
    HookPoints = {"closed", "boundary", "step", "ending"}
    FirstPolicy = "full"
    UserPolicies = {"deny"}
    TurnBudget = 1
    EntryBudget = 2
    SwitchBudget = 1
    ReviewBudget = 1
    MishapBudget = 1
INVARIANTS PermissionTypeOK CommittedPlanIsQuiet RestartAgrees ConsentCovers
CHECK_DEADLOCK FALSE
