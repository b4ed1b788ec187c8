SPECIFICATION Spec
CONSTANTS
    Source <- MCSource
    Passing <- MCPassing
    State <- MCState
    FirstTree <- MCFirstTree
INVARIANTS
    TypeOK
    FailingSourceWasNotTested
PROPERTY ImplementsScopedHistory
