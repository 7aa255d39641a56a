SPECIFICATION Spec
CONSTANTS
    Calls = {"a"}
    AgentCalls = {"a"}
    FileTools = {}
    TerminalCalls = {}
    Inputs <- MCInputs
    Child <- MCChild
    HookPoints = {"step"}
    FirstPolicy = "full"
    UserPolicies = {"accepted"}
    TurnBudget = 1
    EntryBudget = 1
    SwitchBudget = 0
    ReviewBudget = 0
    MishapBudget = 1
INVARIANT BlockedByWork
CHECK_DEADLOCK FALSE
