SPECIFICATION SpecCodeSpec
CONSTANTS
    r1 = r1
    r2 = r2
    r3 = r3
    other = other
    Role = {r1, r2, r3, other}
    RoleLists <- MCRoleLists
    Graphs <- MCGraphs
    MaxRetries = 2
    Cap = 1
    Reports <- MCReports
    Budgets <- MCBudgets
    NoBudget = NoBudget
    MaxCall = 2
    DraftBudgets <- MCDraftBudgets
    Unlimited = Unlimited
    MaxReply = 3
    Operations <- MCNamedOperations
    Frameworks <- MCFrameworks
INVARIANT DocumentedEndpointsPass
CHECK_DEADLOCK FALSE
