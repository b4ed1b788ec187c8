SPECIFICATION SetupAlone
CONSTANTS
    Drafts <- MCDrafts
    Additions <- MCAdditions
    Projects <- MCProjects
    MaxAdded <- MCMaxAdded
    Evidence <- MCEvidence
    HandTypes <- MCHandTypes
    MaxFound = 3
    r1 = r1
    r2 = r2
    Runner = {r1, r2}
    TaskName = {t1}
    TaskType = {feature, typo}
    Workflows = {feature}
    Unset = Unset
    NoTask = NoTask
    Options <- MCOptions
    MaxRuns = 2
    Doc = {"plan", "contract"}
    ProjectType <- MCProjectType
    Registries <- MCRegistries
    Declarable <- MCDeclarable
    Writer = {w1, w2, w3, w4}
    FR = {"FR-1"}
    AC = {"AC-1", "AC-X"}
    Numbered = {"AC-1"}
    ScopeRows <- MCScopeRows
    Strategies <- MCStrategies
    Reports <- MCReports
    EdgeCase = {"EC-1"}
    Audited <- MCAudited
    MaxEvals = 1
    Empty = Empty
    Garbled = Garbled
INVARIANTS
    GuessNeverCommits
CHECK_DEADLOCK FALSE
