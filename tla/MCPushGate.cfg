SPECIFICATION Spec
CONSTANTS
    main = main
    wip = wip
    Branch = {main, wip}
    Gated = {main}
    Commit <- MCCommit
    Content <- MCContent
    LayerTrigger = TRUE
    StaleDays = "days"
    NoCommit = NoCommit
INVARIANTS
    TypeOK
    GatedWorkIsSettled
    RejectedWorkWasNotSeen
PROPERTY WorkInProgressIsBackedUp
