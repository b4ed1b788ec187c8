SPECIFICATION FixSpec
CONSTANTS
    errors = errors
    errorsInDepth = errorsInDepth
    extra = extra
    shipped = shipped
    own1 = own1
    b1 = b1
    b2 = b2
    b3 = b3
    d1 = d1
    d2 = d2
    webApp = webApp
    cli = cli
    ProjectType = {webApp, cli}
    Projects <- MCProjects
    Developer = {d1, d2}
    Gap = {errors, errorsInDepth, extra}
    Doc = {shipped, own1}
    DocOf <- MCDocOf
    Shipped = {shipped}
    Branch = {b1, b2, b3}
    BranchOf <- MCBranchOf
    Containing <- MCContaining
    Resembling <- MCResembling
    Reports <- MCReports
    NoBranch = NoBranch
    MaxRuns = 1
    MaxByHand = 1
INVARIANTS
    FixTypeOK
    TwiceOnlyIfOverlooked
    FailureIsTold
PROPERTIES
    RoundsEnd
