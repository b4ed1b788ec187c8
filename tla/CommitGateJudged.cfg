SPECIFICATION Spec
CONSTANTS
    Source <- MCSource
    Passing <- MCPassing
    State <- MCState
    FirstTree <- MCFirstTree
PROPERTY JudgedByWhatIsCommitted
