SPECIFICATION BudgetSpec
CONSTANTS
    run = run
    parent = parent
    child = child
    Runs <- MCRuns
    Branches <- MCBranches
    ModelLimit = 3
    ToolLimit = 2
    MaxTries = 2
INVARIANTS
    WithinBudget
    NoHiddenRefusal
    CacheEvidence
CHECK_DEADLOCK FALSE
