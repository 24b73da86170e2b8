SPECIFICATION LiveSpec
CHECK_DEADLOCK FALSE
CONSTANTS
    Tasks = {t1, t2}
    NoTask = NoTask
    Steps <- OneStep
    NoStatus = NoStatus
    Log <- TwoEntries
    Retries = 1
    MaxLosses = 2
    MaxRefusals = 1
    MaxOrphans = 0
INVARIANTS
    ShowsTheTasksLogs
    ReportedOnce
PROPERTIES
    OnlyShownTaskSpeaks
    PendingEnds
    ShownToTheEnd
