SPECIFICATION LiveSpec
CHECK_DEADLOCK FALSE
CONSTANTS
    None = None
    Runs = {t1, t2}
    Setup <- TwoApps
    Attempts = 2
    MaxFaults = 2
    Files <- TwoFiles
    Repository <- OneRepository
    Shared <- OneShared
    Templates <- SomeTemplates
INVARIANTS
    EditsSurvive
    OthersUntouched
    DeploysOwnDelta
    CompleteButForFailures
PROPERTIES
    TaskEnds
